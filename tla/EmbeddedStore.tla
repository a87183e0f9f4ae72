--------------------------- MODULE EmbeddedStore ---------------------------
(***************************************************************************)
(* The embedded durable store of zdc-store                                 *)
(* (src/crates/zdc-store/src/embedded.rs): handlers on several threads     *)
(* read keys and commit transactions through one redb database, and each   *)
(* commit is announced on the fan-out afterwards, outside the write lock.  *)
(*                                                                         *)
(* The steps of one `apply` are the places where another thread can run:   *)
(* begin_write (which redb serialises), the check of the recorded reads,   *)
(* each computed write, the commit, and the announcement.                  *)
(*                                                                         *)
(* log is history: the announcements of every committed transaction, in    *)
(* commit order.                                                           *)
(***************************************************************************)
EXTENDS Fanout

CONSTANTS
  Proc,        \* the threads that run handlers
  NoProc,      \* nobody holds the write transaction
  Unread,      \* a key the handler has not read or written
  WriteLists,  \* the lists of writes a handler may ask for
  MaxSeq       \* no handler starts once this many positions are spent

VARIABLES
  db,          \* the VALUES table, as committed
  seq,         \* META's position counter, as committed
  lock,        \* which thread holds redb's write transaction
  pc,          \* where each thread is inside its call
  seen,        \* seen[p][k]: what the handler read, its recorded reads
  writes,      \* the writes of the call in progress
  working,     \* phase 2's view of the keys already computed
  order,       \* the distinct keys written, in first-write order
  outs,        \* the value each write leaves behind
  updates,     \* what has to be announced after the commit
  answer,      \* the result of the last call
  log          \* history: every committed announcement, in commit order

Write == [op : {"set"}, key : Key, arg : Json]
         \cup [op : {"incr"}, key : Key, arg : Number]
         \cup [op : {"delete"}, key : Key]

ASSUME StoreAssumption ==
  /\ NoProc \notin Proc
  /\ Unread \notin Slot
  /\ WriteLists \subseteq Seq(Write)
  /\ MaxSeq \in Nat

storeVars == <<db, seq, lock, pc, seen, writes, working, order, outs,
               updates, answer, log>>
vars == <<fanoutVars, storeVars>>

NothingSeen == [k \in Key |-> Unread]
NoAnswer == [status |-> "none"]
Applied(position, values) == [status |-> "ok", seq |-> position, values |-> values]
Refused(why) == [status |-> why]

-----------------------------------------------------------------------------
(* What one write makes of the value before it.                            *)

Base(current) == IF current = None THEN 0 ELSE current

Outcome(write, current) ==
  CASE write.op = "set" -> [status |-> "ok", value |-> write.arg]
    [] write.op = "delete" -> [status |-> "ok", value |-> None]
    [] OTHER -> IF Base(current) \notin Number
                  THEN Refused("not_a_number")
                  ELSE IF Base(current) + write.arg \notin Number
                    THEN Refused("out_of_range")
                    ELSE [status |-> "ok", value |-> Base(current) + write.arg]

-----------------------------------------------------------------------------
(* One thread's call.                                                      *)

\* A handler reads a key in a read transaction of its own, and records it.
Get(p, k) ==
  /\ pc[p] = "idle" /\ seen[p][k] = Unread
  /\ seen' = [seen EXCEPT ![p][k] = db[k]]
  /\ UNCHANGED <<fanoutVars, db, seq, lock, pc, writes, working, order, outs,
                 updates, answer, log>>

\* A handler that wrote nothing: no lock, no position, the reads unchecked.
ApplyEmpty(p) ==
  /\ pc[p] = "idle"
  /\ pc' = [pc EXCEPT ![p] = "done"]
  /\ answer' = [answer EXCEPT ![p] = Applied(latest, <<>>)]
  /\ UNCHANGED <<fanoutVars, db, seq, lock, seen, writes, working, order,
                 outs, updates, log>>

Apply(p, list) ==
  /\ pc[p] = "idle" /\ list # <<>> /\ seq < MaxSeq
  /\ pc' = [pc EXCEPT ![p] = "begin"]
  /\ writes' = [writes EXCEPT ![p] = list]
  /\ UNCHANGED <<fanoutVars, db, seq, lock, seen, working, order, outs,
                 updates, answer, log>>

\* Mutant: a second writer is let in while one holds the write transaction.
BeginWriteShared(p) ==
  /\ pc[p] = "begin"
  /\ lock' = p
  /\ pc' = [pc EXCEPT ![p] = "check"]
  /\ UNCHANGED <<fanoutVars, db, seq, seen, writes, working, order, outs,
                 updates, answer, log>>

BeginWrite(p) ==
  /\ pc[p] = "begin" /\ lock = NoProc
  /\ lock' = p
  /\ pc' = [pc EXCEPT ![p] = "check"]
  /\ UNCHANGED <<fanoutVars, db, seq, seen, writes, working, order, outs,
                 updates, answer, log>>

\* An early return: the write transaction is dropped and redb discards it.
Abort(p, why) ==
  /\ lock' = NoProc
  /\ pc' = [pc EXCEPT ![p] = "done"]
  /\ answer' = [answer EXCEPT ![p] = Refused(why)]
  /\ UNCHANGED <<fanoutVars, db, seq, seen, writes, working, order, outs,
                 updates, log>>

StaleReads(p) == {k \in Key : seen[p][k] # Unread /\ seen[p][k] # db[k]}

\* Phase 1: the reads still say what the handler was told they said.
Check(p) ==
  /\ pc[p] = "check"
  /\ \/ StaleReads(p) # {} /\ Abort(p, "conflict")
     \/ /\ StaleReads(p) = {}
        /\ pc' = [pc EXCEPT ![p] = "compute"]
        /\ UNCHANGED <<fanoutVars, db, seq, lock, seen, writes, working, order,
                       outs, updates, answer, log>>

NextWrite(p) == writes[p][Len(outs[p]) + 1]
Computed(p) == Len(outs[p]) = Len(writes[p])

\* Mutant: a write does not see this transaction's earlier writes.
CurrentCommitted(p, k) ==
  IF Computed(p) /\ working[p][k] # Unread THEN working[p][k] ELSE db[k]

Current(p, k) == IF working[p][k] = Unread THEN db[k] ELSE working[p][k]

\* Phase 2: the next value of one write, over this transaction's own writes.
Compute(p) ==
  /\ pc[p] = "compute" /\ ~Computed(p)
  /\ LET w == NextWrite(p)
         next == Outcome(w, Current(p, w.key))
     IN \/ next.status # "ok" /\ Abort(p, next.status)
        \/ /\ next.status = "ok"
           /\ order' = [order EXCEPT ![p] =
                          IF working[p][w.key] = Unread THEN Append(@, w.key) ELSE @]
           /\ working' = [working EXCEPT ![p][w.key] = next.value]
           /\ outs' = [outs EXCEPT ![p] = Append(@, next.value)]
           /\ UNCHANGED <<fanoutVars, db, seq, lock, pc, seen, writes, updates,
                          answer, log>>

\* Mutant: the positions are counted from the fan-out's `latest`.
AnnouncementsFromLatest(p) ==
  [i \in 1 .. Len(order[p]) |->
     [seq |-> latest + i, key |-> order[p][i], value |-> working[p][order[p][i]]]]

\* Mutant: a key is announced at the value its first write left behind.
AnnouncementsOfFirstWrites(p) ==
  [i \in 1 .. Len(order[p]) |->
     [seq |-> seq + i, key |-> order[p][i], value |-> outs[p][i]]]

\* One position per distinct key, from the counter inside the transaction.
Announcements(p) ==
  [i \in 1 .. Len(order[p]) |->
     [seq |-> seq + i, key |-> order[p][i], value |-> working[p][order[p][i]]]]

\* Phase 3 and redb's commit: the values and the counter become visible at once.
Commit(p) ==
  /\ pc[p] = "compute" /\ Computed(p)
  /\ db' = [k \in Key |-> Current(p, k)]
  /\ seq' = seq + Len(order[p])
  /\ updates' = [updates EXCEPT ![p] = Announcements(p)]
  /\ log' = log \o Announcements(p)
  /\ lock' = NoProc
  /\ pc' = [pc EXCEPT ![p] = "publish"]
  /\ answer' = [answer EXCEPT ![p] = Applied(seq + Len(order[p]), outs[p])]
  /\ UNCHANGED <<fanoutVars, seen, writes, working, order, outs>>

\* After the commit and outside the write lock: tell the subscribers.
Publish(p) ==
  /\ pc[p] = "publish"
  /\ PublishAll(updates[p])
  /\ pc' = [pc EXCEPT ![p] = "done"]
  /\ UNCHANGED <<db, seq, lock, seen, writes, working, order, outs, updates,
                 answer, log>>

\* The call returns; the thread's next handler starts with nothing recorded.
Return(p) ==
  /\ pc[p] = "done"
  /\ pc' = [pc EXCEPT ![p] = "idle"]
  /\ seen' = [seen EXCEPT ![p] = NothingSeen]
  /\ writes' = [writes EXCEPT ![p] = <<>>]
  /\ working' = [working EXCEPT ![p] = NothingSeen]
  /\ order' = [order EXCEPT ![p] = <<>>]
  /\ outs' = [outs EXCEPT ![p] = <<>>]
  /\ updates' = [updates EXCEPT ![p] = <<>>]
  /\ answer' = [answer EXCEPT ![p] = NoAnswer]
  /\ UNCHANGED <<fanoutVars, db, seq, lock, log>>

\* The process dies between any two steps and the database is opened again.
Reopen ==
  /\ FanoutOpen(seq)
  /\ lock' = NoProc
  /\ pc' = [p \in Proc |-> "idle"]
  /\ seen' = [p \in Proc |-> NothingSeen]
  /\ writes' = [p \in Proc |-> <<>>]
  /\ working' = [p \in Proc |-> NothingSeen]
  /\ order' = [p \in Proc |-> <<>>]
  /\ outs' = [p \in Proc |-> <<>>]
  /\ updates' = [p \in Proc |-> <<>>]
  /\ answer' = [p \in Proc |-> NoAnswer]
  /\ UNCHANGED <<db, seq, log>>

-----------------------------------------------------------------------------
(* The subscribers: a fresh page has no cursor, a returning one its last.  *)

Watch(s) ==
  /\ \E since \in {NoSeq, subs[s].upto} : Subscribe(s, since)
  /\ UNCHANGED storeVars

Deliver(s) == TryNext(s) /\ UNCHANGED storeVars
Leave(s) == Hangup(s) /\ UNCHANGED storeVars

-----------------------------------------------------------------------------

Init ==
  /\ FanoutInit
  /\ db = [k \in Key |-> None]
  /\ seq = 0
  /\ lock = NoProc
  /\ pc = [p \in Proc |-> "idle"]
  /\ seen = [p \in Proc |-> NothingSeen]
  /\ writes = [p \in Proc |-> <<>>]
  /\ working = [p \in Proc |-> NothingSeen]
  /\ order = [p \in Proc |-> <<>>]
  /\ outs = [p \in Proc |-> <<>>]
  /\ updates = [p \in Proc |-> <<>>]
  /\ answer = [p \in Proc |-> NoAnswer]
  /\ log = <<>>

Inside(p) == BeginWrite(p) \/ Check(p) \/ Compute(p) \/ Commit(p) \/ Publish(p)

Handler(p) ==
  \/ \E k \in Key : Get(p, k)
  \/ ApplyEmpty(p)
  \/ \E list \in WriteLists : Apply(p, list)
  \/ Inside(p)
  \/ Return(p)

Next ==
  \/ \E p \in Proc : Handler(p)
  \/ \E s \in Subscriber : Watch(s) \/ Deliver(s) \/ Leave(s)
  \/ Reopen

Spec == Init /\ [][Next]_vars

\* Threads inside a call are scheduled, and a held subscription is drained.
Fairness ==
  /\ \A p \in Proc : WF_vars(Inside(p))
  /\ \A s \in Subscriber : WF_vars(Deliver(s))

LiveSpec == Spec /\ Fairness
-----------------------------------------------------------------------------
(* The type invariant: what each table, thread and history variable holds. *)

Announced == Seq(Announcement)
Answer == [status : {"none", "conflict", "not_a_number", "out_of_range"}]
          \cup [status : {"ok"}, seq : Nat, values : Seq(Slot)]

TypeOK ==
  /\ FanoutTypeOK
  /\ db \in [Key -> Slot]
  /\ seq \in Nat
  /\ lock \in Proc \cup {NoProc}
  /\ pc \in [Proc -> {"idle", "begin", "check", "compute", "publish", "done"}]
  /\ seen \in [Proc -> [Key -> Slot \cup {Unread}]]
  /\ writes \in [Proc -> Seq(Write)]
  /\ working \in [Proc -> [Key -> Slot \cup {Unread}]]
  /\ order \in [Proc -> Seq(Key)]
  /\ outs \in [Proc -> Seq(Slot)]
  /\ updates \in [Proc -> Announced]
  /\ answer \in [Proc -> Answer]
  /\ log \in Announced

-----------------------------------------------------------------------------
(* Safety of the committed store, for any number of threads.               *)

\* The value of key k once the first n announcements of the log are applied.
Last(S) == CHOOSE i \in S : \A j \in S : j <= i
DbAt(n, k) ==
  LET wrote == {i \in 1 .. n : log[i].key = k}
  IN  IF wrote = {} THEN None ELSE log[Last(wrote)].value

(* Sequence numbers are consecutive, over every interleaving of writers    *)
(* and across every crash: watch.rs decides whether a backlog covers a     *)
(* cursor by adding one, and restart.rs asserts no number is reused.       *)
PositionsAreConsecutive ==
  /\ seq = Len(log)
  /\ \A i \in 1 .. Len(log) : log[i].seq = i

(* Replaying the announcements gives the table: a subscriber that applies  *)
(* every update in order ends at what `get` answers, deletes included.     *)
TablesFollowTheLog == \A k \in Key : db[k] = DbAt(seq, k)

(* A transaction commits only while every key its handler read still holds *)
(* what the handler was told; the check and the commit are different steps *)
(* and only the write lock keeps other commits out from between them.      *)
CommitsOnFreshReads ==
  [][\A p \in Proc :
       pc[p] = "compute" /\ pc'[p] = "publish"
         => \A k \in Key : seen[p][k] \in {Unread, db[k]}]_vars

-----------------------------------------------------------------------------
(* Safety of the fan-out, when one thread at a time commits and announces. *)

Announcing == {p \in Proc : pc[p] = "publish"}

(* The backlog is the newest part of the log up to `latest`, and `latest`  *)
(* trails the committed counter only by what a thread is about to announce. *)
BacklogIsTheLogsTail ==
  /\ latest <= Len(log)
  /\ Announcing = {} => latest = seq
  /\ Len(backlog) <= latest
  /\ \A i \in 1 .. Len(backlog) : backlog[i] = log[latest - Len(backlog) + i]

\* The log positions subscriber s has yet to be told about.
Due(s) == {i \in 1 .. latest : i > subs[s].upto /\ log[i].key \in Wants[s]}
Queue(s) == subs[s].pending \o subs[s].rx

(* A live subscription owes its holder exactly the committed updates of    *)
(* its keys after the holder's cursor, each once and in order; or its next *)
(* event is a resync, and it owes exactly what follows that position.      *)
NothingLost ==
  /\ SubscriptionsTypeOK
  /\ \A s \in Subscriber : subs[s].live =>
       LET queue == Queue(s)
           resyncs == queue # <<>> /\ Head(queue).resync
           tail == IF resyncs THEN Tail(queue) ELSE queue
           owed == IF resyncs THEN {i \in Due(s) : i > Head(queue).seq} ELSE Due(s)
       IN  /\ {tail[i].seq : i \in 1 .. Len(tail)} = owed
           /\ \A i \in 1 .. Len(tail) : ~tail[i].resync /\ tail[i] = UpdateEvent(log[tail[i].seq])
           /\ \A i \in 1 .. Len(tail) - 1 : tail[i].seq < tail[i + 1].seq

(* Every committed update of a key is eventually behind the cursor of a    *)
(* subscriber that wants the key and stays: delivered, or resynced past.   *)
UpdatesArrive ==
  \A s \in Subscriber : \A n \in 1 .. MaxSeq :
    (n <= Len(log) /\ subs[s].live /\ log[n].key \in Wants[s])
      ~> (~subs[s].live \/ subs[s].upto >= n)

=============================================================================
