------------------------ MODULE EmbeddedStoreProofs ------------------------
(***************************************************************************)
(* What holds of EmbeddedStore for every number of threads, subscribers,   *)
(* keys, writes and positions.                                             *)
(***************************************************************************)
EXTENDS StoreRefinement, ListsProofs, FiniteSetTheorems, TLAPS

-----------------------------------------------------------------------------
(* The inductive strengthening: what is true inside a call.                *)

\* The write transaction belongs to the thread between begin and commit.
LockInv ==
  \A p \in Proc : pc[p] \in {"check", "compute"} <=> lock = p

\* The keys written are listed once each, and are the ones with a new value.
OrderInv ==
  \A p \in Proc :
    /\ \A k \in Key : working[p][k] # Unread <=> \E i \in 1 .. Len(order[p]) : order[p][i] = k
    /\ \A i, j \in 1 .. Len(order[p]) : order[p][i] = order[p][j] => i = j

\* No more values than writes.
ProgressInv ==
  \A p \in Proc :
    /\ pc[p] \in {"idle", "begin", "check"} => outs[p] = <<>>
    /\ Len(outs[p]) <= Len(writes[p])

\* Once the reads were found current they stay current until the commit.
ReadsInv ==
  \A p \in Proc : pc[p] = "compute" => StaleReads(p) = {}

IInv ==
  /\ TypeOK
  /\ LockInv /\ OrderInv /\ ProgressInv /\ ReadsInv
  /\ PositionsAreConsecutive
  /\ TablesFollowTheLog

-----------------------------------------------------------------------------
(* What the operators of a call return.                                    *)

(* A write either fails with one of two statuses or leaves a value that a  *)
(* key can hold (embedded.rs, next_value).                                 *)
LEMMA OutcomeType ==
  ASSUME NEW w \in Write, NEW current \in Slot
  PROVE  \/ Outcome(w, current) = Refused("not_a_number")
         \/ Outcome(w, current) = Refused("out_of_range")
         \/ /\ Outcome(w, current).status = "ok"
            /\ Outcome(w, current).value \in Slot
<1>1. CASE w.op = "set"
  <2>1. w.arg \in Json
    BY <1>1 DEF Write, Json
  <2>. QED  BY <1>1, <2>1 DEF Outcome, Slot
<1>2. CASE w.op = "delete"
  BY <1>2 DEF Outcome, Slot
<1>3. CASE w.op = "incr"
  <2>1. CASE Base(current) \in Number /\ Base(current) + w.arg \in Number
    BY <1>3, <2>1 DEF Outcome, Slot, Json
  <2>2. CASE ~ (Base(current) \in Number /\ Base(current) + w.arg \in Number)
    BY <1>3, <2>2 DEF Outcome
  <2>. QED  BY <2>1, <2>2
<1>. QED  BY <1>1, <1>2, <1>3 DEF Write

(* Trimming the deque keeps announcements, at most Backlog of them.        *)
LEMMA KeepNewestType ==
  ASSUME NEW list \in Seq(Announcement)
  PROVE  /\ KeepNewest(list) \in Seq(Announcement)
         /\ Len(KeepNewest(list)) <= Backlog
<1>. DEFINE first == Len(list) - Backlog + 1
<1>1. CASE Len(list) > Backlog
  <2>1. first \in 1 .. Len(list)
    BY <1>1, FanoutAssumption
  <2>2. \A i \in first .. Len(list) : list[i] \in Announcement
    BY <2>1, ElementOfSeq
  <2>3. /\ SubSeq(list, first, Len(list)) \in Seq(Announcement)
        /\ Len(SubSeq(list, first, Len(list))) = Len(list) - first + 1
    BY <2>1, <2>2, SubSeqProperties
  <2>. QED  BY <1>1, <2>1, <2>3, FanoutAssumption DEF KeepNewest
<1>2. CASE ~ (Len(list) > Backlog)
  BY <1>2, FanoutAssumption DEF KeepNewest
<1>. QED  BY <1>1, <1>2

(* Announcing a typed batch leaves the fan-out's position and backlog typed. *)
LEMMA PublishAllType ==
  ASSUME NEW list \in Seq(Announcement), FanoutTypeOK, PublishAll(list)
  PROVE  FanoutTypeOK'
<1>1. CASE list = <<>>
  BY <1>1 DEF PublishAll, FanoutTypeOK, fanoutVars
<1>2. CASE list # <<>>
  <2>1. list[Len(list)] \in Announcement
    BY <1>2, ElementOfSeq, EmptySeq, LenProperties
  <2>2. latest' \in Nat
    BY <1>2, <2>1 DEF PublishAll, Announcement
  <2>3. backlog \o list \in Seq(Announcement)
    BY ConcatProperties DEF FanoutTypeOK
  <2>. QED  BY <1>2, <2>2, <2>3, KeepNewestType DEF PublishAll, FanoutTypeOK
<1>. QED  BY <1>1, <1>2

(* What a thread believes a key holds is something a key can hold.         *)
LEMMA CurrentType ==
  ASSUME TypeOK, NEW p \in Proc, NEW k \in Key
  PROVE  Current(p, k) \in Slot
BY DEF TypeOK, Current

(* The announcements of a call are well formed, one for each key written.  *)
LEMMA AnnouncementsType ==
  ASSUME TypeOK, OrderInv, NEW p \in Proc
  PROVE  /\ Announcements(p) \in Seq(Announcement)
         /\ Len(Announcements(p)) = Len(order[p])
         /\ \A i \in 1 .. Len(order[p]) :
              /\ Announcements(p)[i].seq = seq + i
              /\ Announcements(p)[i].key = order[p][i]
              /\ Announcements(p)[i].value = working[p][order[p][i]]
<1>. DEFINE n == Len(order[p])
<1>1. n \in Nat
  BY LenProperties DEF TypeOK
<1>2. ASSUME NEW i \in 1 .. n
      PROVE  [seq |-> seq + i, key |-> order[p][i], value |-> working[p][order[p][i]]]
               \in Announcement
  <2>1. order[p][i] \in Key
    BY ElementOfSeq DEF TypeOK
  <2>2. working[p][order[p][i]] \in Slot
    BY <2>1 DEF TypeOK, OrderInv
  <2>3. seq + i \in Nat
    BY <1>1 DEF TypeOK
  <2>. QED  BY <2>1, <2>2, <2>3 DEF Announcement
<1>3. Announcements(p) \in [1 .. n -> Announcement]
  BY <1>2 DEF Announcements
<1>4. Announcements(p) \in Seq(Announcement) /\ Len(Announcements(p)) = n
  BY <1>1, <1>3
<1>5. ASSUME NEW i \in 1 .. n
      PROVE  /\ Announcements(p)[i].seq = seq + i
             /\ Announcements(p)[i].key = order[p][i]
             /\ Announcements(p)[i].value = working[p][order[p][i]]
  <2>1. Announcements(p)[i] = [seq |-> seq + i, key |-> order[p][i],
                               value |-> working[p][order[p][i]]]
    BY DEF Announcements
  <2>. QED  BY <2>1
<1>. QED  BY <1>4, <1>5

-----------------------------------------------------------------------------
(* Type correctness.                                                       *)

LEMMA TypeInit == Init => TypeOK
<1>. SUFFICES ASSUME Init PROVE TypeOK
  OBVIOUS
<1>1. /\ <<>> \in Seq(Announcement) /\ <<>> \in Seq(Write)
      /\ <<>> \in Seq(Key) /\ <<>> \in Seq(Slot)
  BY EmptySeq
<1>2. FanoutTypeOK
  BY <1>1, FanoutAssumption DEF Init, FanoutInit, FanoutTypeOK
<1>3. /\ db \in [Key -> Slot] /\ seq \in Nat /\ lock \in Proc \cup {NoProc}
      /\ log \in Announced
  BY <1>1 DEF Init, Slot, Announced
<1>4. NothingSeen \in [Key -> Slot \cup {Unread}]
  BY DEF NothingSeen
<1>5. NoAnswer \in Answer
  BY DEF NoAnswer, Answer
<1>6. pc \in [Proc -> {"idle", "begin", "check", "compute", "publish", "done"}]
  BY DEF Init
<1>. QED  BY <1>1, <1>2, <1>3, <1>4, <1>5, <1>6 DEF Init, TypeOK, Announced

(* Every step keeps every variable typed.                                  *)
LEMMA TypeStep == TypeOK /\ OrderInv /\ ProgressInv /\ [Next]_vars => TypeOK'
<1>. SUFFICES ASSUME TypeOK, OrderInv, ProgressInv, [Next]_vars PROVE TypeOK'
  OBVIOUS
<1>. USE DEF Announced
<1>0. /\ <<>> \in Seq(Announcement) /\ <<>> \in Seq(Write)
      /\ <<>> \in Seq(Key) /\ <<>> \in Seq(Slot)
      /\ NothingSeen \in [Key -> Slot \cup {Unread}]
      /\ NoAnswer \in Answer
  BY EmptySeq DEF NothingSeen, NoAnswer, Answer
<1>1. ASSUME NEW p \in Proc, NEW k \in Key, Get(p, k) PROVE TypeOK'
  BY <1>1 DEF Get, TypeOK, FanoutTypeOK, fanoutVars
<1>2. ASSUME NEW p \in Proc, ApplyEmpty(p) PROVE TypeOK'
  <2>1. Applied(latest, <<>>) \in Answer
    BY <1>0 DEF Applied, Answer, TypeOK, FanoutTypeOK
  <2>. QED  BY <1>2, <2>1 DEF ApplyEmpty, TypeOK, FanoutTypeOK, fanoutVars
<1>3. ASSUME NEW p \in Proc, NEW list \in WriteLists, Apply(p, list) PROVE TypeOK'
  <2>1. list \in Seq(Write)
    BY StoreAssumption
  <2>. QED  BY <1>3, <2>1 DEF Apply, TypeOK, FanoutTypeOK, fanoutVars
<1>4. ASSUME NEW p \in Proc, BeginWrite(p) PROVE TypeOK'
  BY <1>4 DEF BeginWrite, TypeOK, FanoutTypeOK, fanoutVars
<1>5. ASSUME NEW p \in Proc,
             NEW why \in {"conflict", "not_a_number", "out_of_range"}, Abort(p, why)
      PROVE TypeOK'
  <2>1. Refused(why) \in Answer
    BY DEF Refused, Answer
  <2>. QED  BY <1>5, <2>1 DEF Abort, TypeOK, FanoutTypeOK, fanoutVars
<1>6. ASSUME NEW p \in Proc, Check(p) PROVE TypeOK'
  <2>1. CASE Abort(p, "conflict")
    BY <1>5, <2>1
  <2>2. CASE ~ Abort(p, "conflict")
    BY <1>6, <2>2 DEF Check, TypeOK, FanoutTypeOK, fanoutVars
  <2>. QED  BY <2>1, <2>2
<1>7. ASSUME NEW p \in Proc, Compute(p) PROVE TypeOK'
  <2>. DEFINE w == NextWrite(p)
              next == Outcome(w, Current(p, w.key))
  <2>1. w \in Write /\ w.key \in Key
    <3>1. Len(outs[p]) + 1 \in 1 .. Len(writes[p])
      BY <1>7, LenProperties DEF Compute, Computed, TypeOK, ProgressInv
    <3>2. w \in Write
      BY <3>1, ElementOfSeq DEF NextWrite, TypeOK
    <3>. QED  BY <3>2 DEF Write
  <2>2. Current(p, w.key) \in Slot
    BY <2>1, CurrentType
  <2>3. CASE next.status # "ok"
    <3>1. next.status \in {"not_a_number", "out_of_range"} /\ Abort(p, next.status)
      BY <1>7, <2>1, <2>2, <2>3, OutcomeType DEF Compute, Refused
    <3>. QED  BY <3>1, <1>5
  <2>4. CASE next.status = "ok"
    <3>1. next.value \in Slot
      BY <2>1, <2>2, <2>4, OutcomeType DEF Refused
    <3>2. /\ order' = [order EXCEPT ![p] =
                         IF working[p][w.key] = Unread THEN Append(@, w.key) ELSE @]
          /\ working' = [working EXCEPT ![p][w.key] = next.value]
          /\ outs' = [outs EXCEPT ![p] = Append(@, next.value)]
          /\ UNCHANGED <<fanoutVars, db, seq, lock, pc, seen, writes, updates,
                         answer, log>>
      BY <1>7, <2>4 DEF Compute
    <3>3. Append(order[p], w.key) \in Seq(Key) /\ Append(outs[p], next.value) \in Seq(Slot)
      BY <2>1, <3>1, AppendProperties DEF TypeOK
    <3>. HIDE DEF w, next
    <3>. QED  BY <2>1, <3>1, <3>2, <3>3 DEF TypeOK, FanoutTypeOK, fanoutVars
  <2>. QED  BY <2>3, <2>4
<1>8. ASSUME NEW p \in Proc, Commit(p) PROVE TypeOK'
  <2>1. Announcements(p) \in Seq(Announcement)
    BY <1>8, AnnouncementsType DEF Commit
  <2>2. log \o Announcements(p) \in Seq(Announcement)
    BY <2>1, ConcatProperties DEF TypeOK
  <2>3. db' \in [Key -> Slot]
    BY <1>8, CurrentType DEF Commit
  <2>4. seq + Len(order[p]) \in Nat
    BY LenProperties DEF TypeOK
  <2>5. Applied(seq + Len(order[p]), outs[p]) \in Answer
    BY <2>4 DEF Applied, Answer, TypeOK
  <2>. QED  BY <1>8, <2>1, <2>2, <2>3, <2>4, <2>5
            DEF Commit, TypeOK, FanoutTypeOK, fanoutVars
<1>9. ASSUME NEW p \in Proc, Publish(p) PROVE TypeOK'
  <2>1. FanoutTypeOK'
    BY <1>9, PublishAllType DEF Publish, TypeOK
  <2>. QED  BY <1>9, <2>1 DEF Publish, TypeOK
<1>10. ASSUME NEW p \in Proc, Return(p) PROVE TypeOK'
  BY <1>0, <1>10 DEF Return, TypeOK, FanoutTypeOK, fanoutVars
<1>11. ASSUME NEW s \in Subscriber, Watch(s) \/ Deliver(s) \/ Leave(s) PROVE TypeOK'
  BY <1>11 DEF Watch, Deliver, Leave, Subscribe, TryNext, Hangup, storeVars,
               TypeOK, FanoutTypeOK
<1>12. CASE Reopen
  <2>1. FanoutTypeOK'
    <3>1. latest' = seq /\ backlog' = <<>>
      BY <1>12 DEF Reopen, FanoutOpen
    <3>2. Len(<<>>) = 0
      BY EmptySeq
    <3>. QED  BY <1>0, <3>1, <3>2, FanoutAssumption DEF FanoutTypeOK, TypeOK
  <2>2. /\ pc' \in [Proc -> {"idle", "begin", "check", "compute", "publish", "done"}]
        /\ lock' \in Proc \cup {NoProc}
    BY <1>12 DEF Reopen
  <2>3. /\ seen' \in [Proc -> [Key -> Slot \cup {Unread}]]
        /\ working' \in [Proc -> [Key -> Slot \cup {Unread}]]
        /\ writes' \in [Proc -> Seq(Write)]
        /\ order' \in [Proc -> Seq(Key)]
        /\ outs' \in [Proc -> Seq(Slot)]
        /\ updates' \in [Proc -> Seq(Announcement)]
    BY <1>0, <1>12 DEF Reopen
  <2>4. answer' \in [Proc -> Answer]
    <3>1. answer' = [p \in Proc |-> NoAnswer]
      BY <1>12 DEF Reopen
    <3>. QED  BY <1>0, <3>1
  <2>. QED  BY <1>12, <2>1, <2>2, <2>3, <2>4 DEF Reopen, TypeOK
<1>13. CASE UNCHANGED vars
  BY <1>13 DEF vars, storeVars, fanoutVars, TypeOK, FanoutTypeOK
<1>. QED  BY <1>1, <1>2, <1>3, <1>4, <1>6, <1>7, <1>8, <1>9, <1>10, <1>11,
             <1>12, <1>13 DEF Next, Handler, Inside

-----------------------------------------------------------------------------
(* The lock, the keys written and the reads inside a call.                 *)

(* What a subscriber does touches nothing of the store.                    *)
LEMMA SubscribersLeaveTheStore ==
  ASSUME NEW s \in Subscriber, Watch(s) \/ Deliver(s) \/ Leave(s)
  PROVE  UNCHANGED storeVars
BY DEF Watch, Deliver, Leave

(* begin_write lets one thread in, and commit, abort and a crash let it out. *)
LEMMA LockStep == TypeOK /\ LockInv /\ [Next]_vars => LockInv'
<1>. SUFFICES ASSUME TypeOK, LockInv, [Next]_vars PROVE LockInv'
  OBVIOUS
<1>. USE StoreAssumption DEF TypeOK, LockInv
<1>1. ASSUME NEW p \in Proc, NEW k \in Key, Get(p, k) PROVE LockInv'
  BY <1>1 DEF Get
<1>2. ASSUME NEW p \in Proc, ApplyEmpty(p) PROVE LockInv'
  BY <1>2 DEF ApplyEmpty
<1>3. ASSUME NEW p \in Proc, NEW list \in WriteLists, Apply(p, list) PROVE LockInv'
  BY <1>3 DEF Apply
<1>4. ASSUME NEW p \in Proc, BeginWrite(p) PROVE LockInv'
  BY <1>4 DEF BeginWrite
<1>5. ASSUME NEW p \in Proc, Check(p) PROVE LockInv'
  BY <1>5 DEF Check, Abort
<1>6. ASSUME NEW p \in Proc, Compute(p) PROVE LockInv'
  <2>1. lock = p /\ (UNCHANGED <<lock, pc>> \/ \E why : Abort(p, why))
    BY <1>6 DEF Compute
  <2>. QED  BY <1>6, <2>1 DEF Compute, Abort
<1>7. ASSUME NEW p \in Proc, Commit(p) PROVE LockInv'
  BY <1>7 DEF Commit
<1>8. ASSUME NEW p \in Proc, Publish(p) PROVE LockInv'
  BY <1>8 DEF Publish
<1>9. ASSUME NEW p \in Proc, Return(p) PROVE LockInv'
  BY <1>9 DEF Return
<1>10. ASSUME NEW s \in Subscriber, Watch(s) \/ Deliver(s) \/ Leave(s) PROVE LockInv'
  BY <1>10, SubscribersLeaveTheStore DEF storeVars
<1>11. CASE Reopen
  BY <1>11 DEF Reopen
<1>12. CASE UNCHANGED vars
  BY <1>12 DEF vars, storeVars
<1>. QED  BY <1>1, <1>2, <1>3, <1>4, <1>5, <1>6, <1>7, <1>8, <1>9, <1>10,
             <1>11, <1>12 DEF Next, Handler, Inside

(* Every step but a computed write, a return and a crash leaves the list of *)
(* keys and the values computed so far alone.                              *)
LEMMA OrderStep == TypeOK /\ OrderInv /\ ProgressInv /\ [Next]_vars => OrderInv'
<1>. SUFFICES ASSUME TypeOK, OrderInv, ProgressInv, [Next]_vars PROVE OrderInv'
  OBVIOUS
<1>0. ASSUME UNCHANGED <<working, order>> PROVE OrderInv'
  BY <1>0 DEF OrderInv
<1>1. ASSUME NEW p \in Proc, Compute(p) PROVE OrderInv'
  <2>. DEFINE k == NextWrite(p).key
              v == Outcome(NextWrite(p), Current(p, k)).value
  <2>1. CASE \E why : Abort(p, why)
    BY <1>0, <2>1 DEF Abort
  <2>2. CASE ~ \E why : Abort(p, why)
    <3>1. NextWrite(p) \in Write /\ k \in Key
      <4>1. Len(outs[p]) + 1 \in 1 .. Len(writes[p])
        BY <1>1, LenProperties DEF Compute, Computed, TypeOK, ProgressInv
      <4>. QED  BY <4>1, ElementOfSeq DEF NextWrite, TypeOK, Write
    <3>2. Outcome(NextWrite(p), Current(p, k)).status = "ok"
      BY <1>1, <2>2 DEF Compute
    <3>3. v \in Slot /\ v # Unread
      BY <3>1, <3>2, CurrentType, OutcomeType, StoreAssumption DEF Refused
    <3>4. /\ order' = [order EXCEPT ![p] =
                         IF working[p][k] = Unread THEN Append(@, k) ELSE @]
          /\ working' = [working EXCEPT ![p][k] = v]
      BY <1>1, <2>2 DEF Compute
    <3>. HIDE DEF k, v
    <3>5. CASE working[p][k] = Unread
      <4>1. order'[p] = Append(order[p], k)
        BY <3>4, <3>5 DEF TypeOK
      <4>2. /\ Len(order'[p]) = Len(order[p]) + 1
            /\ Len(order[p]) \in Nat
            /\ \A i \in 1 .. Len(order[p]) : order'[p][i] = order[p][i]
            /\ order'[p][Len(order[p]) + 1] = k
        BY <3>1, <4>1, AppendProperties, LenProperties DEF TypeOK
      <4>3. \A i \in 1 .. Len(order[p]) : order[p][i] # k
        BY <3>1, <3>5 DEF OrderInv
      <4>4. ASSUME NEW c \in Key
            PROVE  working'[p][c] # Unread <=> \E i \in 1 .. Len(order'[p]) : order'[p][i] = c
        <5>1. CASE c = k
          BY <3>1, <3>3, <3>4, <4>2, <5>1 DEF TypeOK
        <5>2. CASE c # k
          BY <3>4, <4>2, <5>2 DEF TypeOK, OrderInv
        <5>. QED  BY <5>1, <5>2
      <4>5. \A i, j \in 1 .. Len(order'[p]) : order'[p][i] = order'[p][j] => i = j
        <5>. DEFINE n == Len(order[p])
                    old == order[p]
                    new == order'[p]
        <5>1. \A i, j \in 1 .. n : old[i] = old[j] => i = j
          BY DEF OrderInv
        <5>2. /\ n \in Nat /\ Len(new) = n + 1
              /\ \A i \in 1 .. n : new[i] = old[i] /\ new[i] # k
              /\ new[n + 1] = k
          BY <4>2, <4>3
        <5>. HIDE DEF n, old, new
        <5>3. \A i \in 1 .. n + 1 : i \in 1 .. n \/ i = n + 1
          BY <5>2
        <5>4. \A i, j \in 1 .. n + 1 : new[i] = new[j] => i = j
          BY <5>1, <5>2, <5>3
        <5>. QED  BY <5>2, <5>4 DEF n, new
      <4>6. ASSUME NEW q \in Proc, q # p
            PROVE  working'[q] = working[q] /\ order'[q] = order[q]
        BY <3>4, <4>6 DEF TypeOK
      <4>. QED  BY <4>4, <4>5, <4>6 DEF OrderInv
    <3>6. CASE working[p][k] # Unread
      <4>1. order' = order
        BY <3>4, <3>6 DEF TypeOK
      <4>2. \A q \in Proc, c \in Key : working'[q][c] # Unread <=> working[q][c] # Unread
        BY <3>3, <3>4, <3>6 DEF TypeOK
      <4>. QED  BY <4>1, <4>2 DEF OrderInv
    <3>. QED  BY <3>5, <3>6
  <2>. QED  BY <2>1, <2>2
<1>2. ASSUME NEW p \in Proc, Return(p) PROVE OrderInv'
  BY <1>2, EmptySeq DEF Return, TypeOK, OrderInv, NothingSeen
<1>3. CASE Reopen
  BY <1>3, EmptySeq DEF Reopen, OrderInv, NothingSeen
<1>4. ASSUME NEW s \in Subscriber, Watch(s) \/ Deliver(s) \/ Leave(s) PROVE OrderInv'
  BY <1>0, <1>4, SubscribersLeaveTheStore DEF storeVars
<1>5. CASE UNCHANGED vars
  BY <1>0, <1>5 DEF vars, storeVars
<1>6. ASSUME NEW p \in Proc,
             \/ \E k \in Key : Get(p, k)
             \/ ApplyEmpty(p)
             \/ \E list \in WriteLists : Apply(p, list)
             \/ BeginWrite(p) \/ Check(p) \/ Commit(p) \/ Publish(p)
      PROVE OrderInv'
  BY <1>0, <1>6 DEF Get, ApplyEmpty, Apply, BeginWrite, Check, Abort, Commit, Publish
<1>. QED  BY <1>1, <1>2, <1>3, <1>4, <1>5, <1>6 DEF Next, Handler, Inside

(* A call computes one value for each of its writes and no more.           *)
LEMMA ProgressStep == TypeOK /\ ProgressInv /\ [Next]_vars => ProgressInv'
<1>. SUFFICES ASSUME TypeOK, ProgressInv, [Next]_vars PROVE ProgressInv'
  OBVIOUS
<1>0. Len(<<>>) = 0 /\ \A p \in Proc : Len(outs[p]) \in Nat /\ Len(writes[p]) \in Nat
  BY EmptySeq, LenProperties DEF TypeOK
<1>1. ASSUME NEW p \in Proc, NEW list \in WriteLists, Apply(p, list) PROVE ProgressInv'
  <2>1. Len(list) \in Nat
    BY LenProperties, StoreAssumption
  <2>. QED  BY <1>0, <1>1, <2>1 DEF Apply, TypeOK, ProgressInv
<1>2. ASSUME NEW p \in Proc, Compute(p) PROVE ProgressInv'
  <2>1. CASE \E why : Abort(p, why)
    BY <1>2, <2>1 DEF Compute, Abort, TypeOK, ProgressInv
  <2>2. CASE ~ \E why : Abort(p, why)
    <3>1. /\ \E v : outs' = [outs EXCEPT ![p] = Append(@, v)]
          /\ UNCHANGED <<pc, writes>>
      BY <1>2, <2>2 DEF Compute
    <3>2. PICK v : outs' = [outs EXCEPT ![p] = Append(@, v)]
      BY <3>1
    <3>3. Len(outs'[p]) = Len(outs[p]) + 1
      BY <3>2 DEF TypeOK
    <3>4. Len(outs[p]) # Len(writes[p]) /\ pc[p] = "compute"
      BY <1>2 DEF Compute, Computed
    <3>. QED  BY <1>0, <3>1, <3>2, <3>3, <3>4 DEF TypeOK, ProgressInv
  <2>. QED  BY <2>1, <2>2
<1>3. ASSUME NEW p \in Proc, Return(p) PROVE ProgressInv'
  BY <1>0, <1>3 DEF Return, TypeOK, ProgressInv
<1>4. CASE Reopen
  BY <1>0, <1>4 DEF Reopen, ProgressInv
<1>5. ASSUME NEW s \in Subscriber, Watch(s) \/ Deliver(s) \/ Leave(s) PROVE ProgressInv'
  BY <1>5, SubscribersLeaveTheStore DEF storeVars, ProgressInv
<1>6. CASE UNCHANGED vars
  BY <1>6 DEF vars, storeVars, ProgressInv
<1>7. ASSUME NEW p \in Proc,
             \/ \E k \in Key : Get(p, k)
             \/ ApplyEmpty(p)
             \/ BeginWrite(p) \/ Check(p) \/ Commit(p) \/ Publish(p)
      PROVE  ProgressInv'
  <2>1. UNCHANGED <<outs, writes>>
    BY <1>7 DEF Get, ApplyEmpty, BeginWrite, Check, Abort, Commit, Publish
  <2>2. \A q \in Proc : pc'[q] \in {"idle", "begin", "check"} => pc[q] \in {"idle", "begin", "check"}
    BY <1>7 DEF Get, ApplyEmpty, BeginWrite, Check, Abort, Commit, Publish, TypeOK
  <2>. QED  BY <2>1, <2>2 DEF ProgressInv
<1>. QED  BY <1>1, <1>2, <1>3, <1>4, <1>5, <1>6, <1>7 DEF Next, Handler, Inside

(* Between the check of the reads and the commit nobody else can commit:   *)
(* the lock is held, and the thread that holds it reads nothing more.      *)
LEMMA ReadsStep == TypeOK /\ LockInv /\ ReadsInv /\ [Next]_vars => ReadsInv'
<1>. SUFFICES ASSUME TypeOK, LockInv, ReadsInv, [Next]_vars,
                     NEW q \in Proc, pc'[q] = "compute"
              PROVE  StaleReads(q)' = {}
  BY DEF ReadsInv
<1>0. ASSUME pc[q] = "compute", UNCHANGED db, seen'[q] = seen[q]
      PROVE  StaleReads(q)' = {}
  BY <1>0 DEF ReadsInv, StaleReads
<1>1. ASSUME NEW p \in Proc, NEW k \in Key, Get(p, k) PROVE StaleReads(q)' = {}
  BY <1>0, <1>1 DEF Get, TypeOK
<1>2. ASSUME NEW p \in Proc, Check(p) PROVE StaleReads(q)' = {}
  <2>1. CASE q = p /\ ~ Abort(p, "conflict")
    BY <1>2, <2>1 DEF Check, StaleReads
  <2>2. CASE q # p \/ Abort(p, "conflict")
    <3>1. pc[q] = "compute"
      BY <1>2, <2>2 DEF Check, Abort, TypeOK
    <3>. QED  BY <1>0, <1>2, <3>1 DEF Check, Abort
  <2>. QED  BY <2>1, <2>2
<1>3. ASSUME NEW p \in Proc, Compute(p) PROVE StaleReads(q)' = {}
  <2>1. CASE \E why : Abort(p, why)
    BY <1>0, <2>1 DEF Abort, TypeOK
  <2>2. CASE ~ \E why : Abort(p, why)
    BY <1>0, <1>3, <2>2 DEF Compute
  <2>. QED  BY <2>1, <2>2
<1>4. ASSUME NEW p \in Proc, Commit(p) PROVE StaleReads(q)' = {}
  <2>1. q # p /\ pc[q] = "compute"
    BY <1>4 DEF Commit, TypeOK
  <2>2. lock = q /\ lock = p
    BY <1>4, <2>1 DEF Commit, LockInv
  <2>. QED  BY <2>1, <2>2
<1>5. ASSUME NEW p \in Proc, Return(p) PROVE StaleReads(q)' = {}
  BY <1>0, <1>5 DEF Return, TypeOK
<1>6. CASE Reopen
  BY <1>6 DEF Reopen
<1>7. ASSUME NEW s \in Subscriber, Watch(s) \/ Deliver(s) \/ Leave(s) PROVE StaleReads(q)' = {}
  BY <1>0, <1>7, SubscribersLeaveTheStore DEF storeVars
<1>8. CASE UNCHANGED vars
  BY <1>0, <1>8 DEF vars, storeVars
<1>9. ASSUME NEW p \in Proc,
             \/ ApplyEmpty(p)
             \/ \E list \in WriteLists : Apply(p, list)
             \/ BeginWrite(p) \/ Publish(p)
      PROVE  StaleReads(q)' = {}
  BY <1>0, <1>9 DEF ApplyEmpty, Apply, BeginWrite, Publish, TypeOK
<1>. QED  BY <1>1, <1>2, <1>3, <1>4, <1>5, <1>6, <1>7, <1>8, <1>9 DEF Next, Handler, Inside

-----------------------------------------------------------------------------
(* The log and the tables.                                                 *)

(* A nonempty set of positions has a last one, and it is what Last picks.  *)
LEMMA LastProperties ==
  ASSUME NEW n \in Nat, NEW S \in SUBSET (1 .. n), S # {}
  PROVE  Last(S) \in S /\ \A j \in S : j <= Last(S)
<1>. DEFINE T == {n - i : i \in S}
<1>0. \A i \in S : i \in Nat /\ i <= n
  OBVIOUS
<1>1. T \subseteq Nat /\ T # {}
  <2>1. \A i \in S : n - i \in Nat
    BY <1>0
  <2>. QED  BY <2>1
<1>2. PICK t \in T : \A u \in T : t <= u
  <2>. HIDE DEF T
  <2>1. \E t \in T : \A u \in T : ~ (<<u, t>> \in OpToRel(<, Nat))
    BY <1>1, WFMin, NatLessThanWellFounded, Zenon
  <2>2. PICK t \in T : \A u \in T : ~ (<<u, t>> \in OpToRel(<, Nat))
    BY <2>1
  <2>3. \A u \in T : ~ (u < t)
    BY <1>1, <2>2 DEF OpToRel
  <2>. QED  BY <1>1, <2>3
<1>3. PICK i \in S : t = n - i
  BY <1>2
<1>4. \A j \in S : j <= i
  <2>1. \A j \in S : n - i <= n - j
    BY <1>2, <1>3
  <2>. QED  BY <1>0, <2>1
<1>. QED  BY <1>4 DEF Last

(* A position that is in the set and above all others is the last.         *)
LEMMA LastUnique ==
  ASSUME NEW S \in SUBSET Nat, NEW i \in S, \A j \in S : j <= i
  PROVE  Last(S) = i
<1>1. Last(S) \in S /\ \A j \in S : j <= Last(S)
  BY DEF Last
<1>2. Last(S) \in Nat /\ i \in Nat /\ Last(S) <= i /\ i <= Last(S)
  BY <1>1
<1>. QED  BY <1>2

(* Only a commit moves the tables, the counter or the log.                 *)
LEMMA OnlyCommitsMoveTheLog ==
  ASSUME [Next]_vars
  PROVE  (\E p \in Proc : Commit(p)) \/ UNCHANGED <<db, seq, log>>
<1>1. ASSUME NEW p \in Proc, Handler(p), ~ Commit(p) PROVE UNCHANGED <<db, seq, log>>
  BY <1>1 DEF Handler, Inside, Get, ApplyEmpty, Apply, BeginWrite, Check, Compute, Abort,
              Publish, Return
<1>2. ASSUME NEW s \in Subscriber, Watch(s) \/ Deliver(s) \/ Leave(s)
      PROVE  UNCHANGED <<db, seq, log>>
  BY <1>2, SubscribersLeaveTheStore DEF storeVars
<1>3. CASE Reopen
  BY <1>3 DEF Reopen
<1>. QED  BY <1>1, <1>2, <1>3 DEF Next, vars, storeVars

(* A commit appends its announcements to the log and keeps the rest.       *)
LEMMA CommittedLog ==
  ASSUME TypeOK, OrderInv, NEW p \in Proc, Commit(p)
  PROVE  /\ Len(log) \in Nat /\ Len(order[p]) \in Nat
         /\ Len(log') = Len(log) + Len(order[p])
         /\ \A i \in 1 .. Len(log) : log'[i] = log[i]
         /\ \A i \in 1 .. Len(order[p]) : log'[Len(log) + i] = Announcements(p)[i]
<1>. DEFINE n == Len(log)
            m == Len(order[p])
<1>1. log' = log \o Announcements(p)
  BY DEF Commit
<1>2. n \in Nat /\ m \in Nat /\ log \in Seq(Announcement)
  BY LenProperties DEF TypeOK, Announced
<1>3. Announcements(p) \in Seq(Announcement) /\ Len(Announcements(p)) = m
  BY AnnouncementsType
<1>4. /\ Len(log \o Announcements(p)) = n + Len(Announcements(p))
      /\ \A i \in 1 .. n + Len(Announcements(p)) :
           (log \o Announcements(p))[i] = IF i <= n THEN log[i] ELSE Announcements(p)[i - n]
  BY <1>2, <1>3, ConcatProperties
<1>5. \A i \in 1 .. n : log'[i] = log[i]
  BY <1>1, <1>2, <1>3, <1>4
<1>6. \A i \in 1 .. m : log'[n + i] = Announcements(p)[i]
  <2>1. \A i \in 1 .. m : n + i \in 1 .. n + m /\ ~ (n + i <= n) /\ (n + i) - n = i
    BY <1>2
  <2>. QED  BY <1>1, <1>3, <1>4, <2>1
<1>. QED  BY <1>1, <1>2, <1>3, <1>4, <1>5, <1>6

(* A commit extends the log by one announcement for each key it wrote, at  *)
(* the positions that follow the last one.                                 *)
LEMMA PositionsStep ==
  TypeOK /\ OrderInv /\ PositionsAreConsecutive /\ [Next]_vars => PositionsAreConsecutive'
<1>. SUFFICES ASSUME TypeOK, OrderInv, PositionsAreConsecutive, [Next]_vars
              PROVE  PositionsAreConsecutive'
  OBVIOUS
<1>1. ASSUME NEW p \in Proc, Commit(p) PROVE PositionsAreConsecutive'
  <2>1. seq' = seq + Len(order[p])
    BY <1>1 DEF Commit
  <2>2. /\ Len(log) \in Nat /\ Len(order[p]) \in Nat
        /\ Len(log') = Len(log) + Len(order[p])
        /\ \A i \in 1 .. Len(log) : log'[i] = log[i]
        /\ \A i \in 1 .. Len(order[p]) : log'[Len(log) + i] = Announcements(p)[i]
    BY <1>1, CommittedLog
  <2>3. \A i \in 1 .. Len(order[p]) : Announcements(p)[i].seq = seq + i
    BY AnnouncementsType
  <2>4. ASSUME NEW i \in 1 .. Len(log) + Len(order[p]) PROVE log'[i].seq = i
    <3>1. CASE i <= Len(log)
      BY <2>2, <3>1 DEF PositionsAreConsecutive
    <3>2. CASE ~ (i <= Len(log))
      <4>1. i - Len(log) \in 1 .. Len(order[p]) /\ Len(log) + (i - Len(log)) = i
        BY <2>2, <3>2
      <4>2. log'[i] = Announcements(p)[i - Len(log)]
        BY <2>2, <4>1
      <4>3. Announcements(p)[i - Len(log)].seq = seq + (i - Len(log))
        BY <2>3, <4>1
      <4>. QED  BY <2>2, <4>2, <4>3 DEF PositionsAreConsecutive
    <3>. QED  BY <3>1, <3>2
  <2>. QED  BY <2>1, <2>2, <2>4 DEF PositionsAreConsecutive
<1>2. CASE UNCHANGED <<db, seq, log>>
  BY <1>2 DEF PositionsAreConsecutive
<1>. QED  BY <1>1, <1>2, OnlyCommitsMoveTheLog

(* A commit leaves in the table, for each key, what the longer log says of *)
(* it: the keys it wrote have their last announcement among the new ones,  *)
(* and every other key keeps its last announcement and its value.          *)
LEMMA TablesStep ==
  TypeOK /\ OrderInv /\ PositionsAreConsecutive /\ TablesFollowTheLog /\ [Next]_vars
    => TablesFollowTheLog'
<1>. SUFFICES ASSUME TypeOK, OrderInv, PositionsAreConsecutive, TablesFollowTheLog, [Next]_vars
              PROVE  TablesFollowTheLog'
  OBVIOUS
<1>1. ASSUME NEW p \in Proc, Commit(p), NEW k \in Key PROVE db'[k] = DbAt(seq, k)'
  <2>. DEFINE n == Len(log)
              m == Len(order[p])
              old == {i \in 1 .. n : log[i].key = k}
              new == {i \in 1 .. n + m : log'[i].key = k}
  <2>1. seq' = seq + m /\ db'[k] = Current(p, k)
    BY <1>1 DEF Commit
  <2>2. n \in Nat /\ m \in Nat /\ seq = n
    BY <1>1, CommittedLog DEF PositionsAreConsecutive
  <2>3. /\ \A i \in 1 .. m : Announcements(p)[i].key = order[p][i]
        /\ \A i \in 1 .. m : Announcements(p)[i].value = working[p][order[p][i]]
    BY AnnouncementsType
  <2>5. \A i \in 1 .. n : log'[i] = log[i]
    BY <1>1, CommittedLog
  <2>6. \A i \in 1 .. m : log'[n + i] = Announcements(p)[i]
    BY <1>1, CommittedLog
  <2>7. DbAt(seq, k)' = IF new = {} THEN None ELSE log'[Last(new)].value
    BY <2>1, <2>2 DEF DbAt, Last
  <2>8. DbAt(seq, k) = IF old = {} THEN None ELSE log[Last(old)].value
    BY <2>2 DEF DbAt, Last
  <2>9. CASE working[p][k] # Unread
    <3>1. PICK i \in 1 .. m : order[p][i] = k
      BY <2>9 DEF OrderInv
    <3>2. n + i \in new
      <4>1. n + i \in 1 .. n + m
        BY <2>2
      <4>2. log'[n + i].key = k
        BY <2>3, <2>6, <3>1
      <4>. QED  BY <4>1, <4>2
    <3>3. ASSUME NEW j \in new PROVE j <= n + i
      <4>1. CASE j <= n
        BY <2>2, <4>1
      <4>2. CASE ~ (j <= n)
        <5>1. j - n \in 1 .. m /\ log'[j].key = k /\ n + (j - n) = j
          BY <2>2, <4>2
        <5>2. order[p][j - n] = k
          <6>1. log'[n + (j - n)] = Announcements(p)[j - n]
            BY <2>6, <5>1
          <6>2. Announcements(p)[j - n].key = order[p][j - n]
            BY <2>3, <5>1
          <6>. QED  BY <5>1, <6>1, <6>2
        <5>3. \A a, b \in 1 .. m : order[p][a] = order[p][b] => a = b
          BY DEF OrderInv
        <5>4. ASSUME NEW c \in 1 .. m, order[p][c] = k PROVE c = i
          <6>. HIDE DEF m
          <6>. QED  BY <3>1, <5>3, <5>4
        <5>5. j - n = i
          BY <5>1, <5>2, <5>4, Zenon
        <5>. QED  BY <2>2, <5>5
      <4>. QED  BY <4>1, <4>2
    <3>4. Last(new) = n + i
      <4>1. new \in SUBSET Nat
        BY <2>2
      <4>. HIDE DEF new
      <4>. QED  BY <3>2, <3>3, <4>1, LastUnique
    <3>5. log'[Last(new)].value = working[p][k]
      BY <2>3, <2>6, <3>1, <3>4
    <3>. QED  BY <2>1, <2>7, <2>9, <3>2, <3>5 DEF Current
  <2>10. CASE working[p][k] = Unread
    <3>1. \A i \in 1 .. m : log'[n + i].key # k
      BY <2>3, <2>6, <2>10 DEF OrderInv
    <3>2. new = old
      <4>1. ASSUME NEW j \in 1 .. n + m, ~ (j <= n) PROVE log'[j].key # k
        <5>1. j - n \in 1 .. m /\ n + (j - n) = j
          BY <2>2, <4>1
        <5>. QED  BY <3>1, <5>1
      <4>. QED  BY <2>2, <2>5, <4>1
    <3>3. CASE old = {}
      BY <2>1, <2>2, <2>7, <2>8, <2>10, <3>2, <3>3 DEF Current, TablesFollowTheLog
    <3>4. CASE old # {}
      <4>1. Last(old) \in 1 .. n
        <5>1. old \in SUBSET (1 .. n)
          OBVIOUS
        <5>. HIDE DEF old
        <5>. QED  BY <2>2, <3>4, <5>1, LastProperties
      <4>2. log'[Last(new)] = log[Last(old)]
        BY <2>5, <3>2, <4>1
      <4>. QED  BY <2>1, <2>2, <2>7, <2>8, <2>10, <3>2, <3>4, <4>2
                DEF Current, TablesFollowTheLog
    <3>. QED  BY <3>3, <3>4
  <2>. QED  BY <2>9, <2>10
<1>2. ASSUME NEW p \in Proc, Commit(p) PROVE TablesFollowTheLog'
  BY <1>1, <1>2 DEF TablesFollowTheLog
<1>3. CASE UNCHANGED <<db, seq, log>>
  BY <1>3 DEF TablesFollowTheLog, DbAt
<1>. QED  BY <1>2, <1>3, OnlyCommitsMoveTheLog

-----------------------------------------------------------------------------
(* The invariant, and what follows from it.                                *)

LEMMA Initially == Init => IInv
<1>. SUFFICES ASSUME Init PROVE IInv
  OBVIOUS
<1>1. TypeOK
  BY TypeInit
<1>2. Len(<<>>) = 0
  BY EmptySeq
<1>3. LockInv
  BY StoreAssumption DEF Init, LockInv
<1>4. OrderInv
  BY <1>2 DEF Init, OrderInv, NothingSeen
<1>5. ProgressInv
  BY <1>2 DEF Init, ProgressInv
<1>6. ReadsInv
  BY DEF Init, ReadsInv
<1>7. PositionsAreConsecutive
  BY <1>2 DEF Init, PositionsAreConsecutive
<1>8. TablesFollowTheLog
  <2>1. ASSUME NEW k \in Key PROVE db[k] = DbAt(seq, k)
    <3>1. {i \in 1 .. seq : log[i].key = k} = {}
      BY DEF Init
    <3>. QED  BY <3>1 DEF Init, DbAt
  <2>. QED  BY <2>1 DEF TablesFollowTheLog
<1>. QED  BY <1>1, <1>3, <1>4, <1>5, <1>6, <1>7, <1>8 DEF IInv

LEMMA Always == IInv /\ [Next]_vars => IInv'
BY TypeStep, LockStep, OrderStep, ProgressStep, ReadsStep, PositionsStep, TablesStep DEF IInv

LEMMA Invariance == Spec => []IInv
BY Initially, Always, PTL DEF Spec

(* Whatever threads, readers, subscribers and crashes do, the tables, the  *)
(* threads and the history hold what they are meant to hold.               *)
THEOREM TypeCorrect == Spec => []TypeOK
BY Invariance, PTL DEF IInv

(* No position is skipped and none is given out twice, for any number of   *)
(* writing threads and any crashes: embedded.rs counts them inside the     *)
(* write transaction, which commits with the values or not at all.         *)
THEOREM Positions == Spec => []PositionsAreConsecutive
BY Invariance, PTL DEF IInv

(* Replaying the committed announcements always gives the committed table: *)
(* what a page that misses nothing shows is what a page that reads shows.  *)
THEOREM Tables == Spec => []TablesFollowTheLog
BY Invariance, PTL DEF IInv

(* Optimistic concurrency is safe: a transaction commits only over reads   *)
(* that are still true at the commit, though they were checked earlier.    *)
THEOREM FreshCommits == Spec => CommitsOnFreshReads
<1>1. ASSUME IInv, [Next]_vars, NEW p \in Proc, pc[p] = "compute",
             NEW k \in Key
      PROVE  seen[p][k] \in {Unread, db[k]}
  BY <1>1 DEF IInv, ReadsInv, StaleReads
<1>2. IInv /\ [Next]_vars
        => [\A p \in Proc :
              pc[p] = "compute" /\ pc'[p] = "publish"
                => \A k \in Key : seen[p][k] \in {Unread, db[k]}]_vars
  BY <1>1
<1>. QED  BY <1>2, Invariance, PTL DEF Spec, CommitsOnFreshReads

-----------------------------------------------------------------------------
(* The fan-out beside a single writing thread, which is how zdc dev runs   *)
(* its endpoints.  With two threads the property fails: two commits can be *)
(* announced in the other order.                                           *)

OneThread == \A p, q \in Proc : p = q

\* What a thread is about to announce is the part of the log after latest.
OwedInv ==
  \A p \in Proc : pc[p] = "publish" =>
    /\ Len(log) = latest + Len(updates[p])
    /\ \A i \in 1 .. Len(updates[p]) : updates[p][i] = log[latest + i]

(* Trimming keeps the newest elements where they were, seen from the end.  *)
LEMMA KeepNewestContent ==
  ASSUME NEW list \in Seq(Announcement)
  PROVE  /\ Len(KeepNewest(list)) <= Len(list)
         /\ \A i \in 1 .. Len(KeepNewest(list)) :
              KeepNewest(list)[i] = list[Len(list) - Len(KeepNewest(list)) + i]
<1>. DEFINE first == Len(list) - Backlog + 1
<1>0. Len(list) \in Nat /\ Backlog \in Nat \ {0}
  BY FanoutAssumption, LenProperties
<1>1. CASE Len(list) > Backlog
  <2>1. KeepNewest(list) = SubSeq(list, first, Len(list))
    BY <1>1 DEF KeepNewest
  <2>2. \A i \in first .. Len(list) : list[i] \in Announcement
    BY <1>0, <1>1, ElementOfSeq
  <2>3. /\ Len(SubSeq(list, first, Len(list))) = Backlog
        /\ \A i \in 1 .. Backlog : SubSeq(list, first, Len(list))[i] = list[first + i - 1]
    <3>1. first \in Int /\ Len(list) \in Int /\ first <= Len(list)
          /\ Len(list) - first + 1 = Backlog
      BY <1>0, <1>1
    <3>. HIDE DEF first
    <3>. QED  BY <2>2, <3>1, SubSeqProperties
  <2>. QED  BY <1>0, <1>1, <2>1, <2>3
<1>2. CASE ~ (Len(list) > Backlog)
  BY <1>0, <1>2 DEF KeepNewest
<1>. QED  BY <1>1, <1>2

(* A commit owes the fan-out what it appended, and nothing else is owed.   *)
LEMMA TailAtCommit ==
  ASSUME IInv, OneThread, BacklogIsTheLogsTail, NEW p \in Proc, Commit(p)
  PROVE  BacklogIsTheLogsTail' /\ OwedInv'
<1>. DEFINE n == Len(log)
            m == Len(order[p])
<1>1. /\ seq' = seq + m
      /\ updates' = [updates EXCEPT ![p] = Announcements(p)]
      /\ pc[p] = "compute" /\ pc' = [pc EXCEPT ![p] = "publish"]
      /\ UNCHANGED <<latest, backlog>>
  BY DEF Commit, fanoutVars
<1>2. /\ n \in Nat /\ m \in Nat /\ seq = n
      /\ latest \in Nat /\ Len(backlog) \in Nat
  BY LenProperties DEF IInv, TypeOK, FanoutTypeOK, Announced, PositionsAreConsecutive
<1>3. latest = n
  <2>1. Announcing = {}
    BY <1>1 DEF OneThread, Announcing
  <2>. QED  BY <1>2, <2>1 DEF BacklogIsTheLogsTail
<1>4. Len(Announcements(p)) = m
  BY AnnouncementsType DEF IInv
<1>5. Len(log') = n + m /\ \A i \in 1 .. n : log'[i] = log[i]
  BY CommittedLog DEF IInv
<1>6. \A i \in 1 .. m : log'[n + i] = Announcements(p)[i]
  BY CommittedLog DEF IInv
<1>7. updates'[p] = Announcements(p) /\ pc'[p] = "publish" /\ \A q \in Proc : q = p
  BY <1>1 DEF IInv, TypeOK, OneThread
<1>8. OwedInv'
  <2>1. Len(log') = latest' + Len(updates'[p])
    BY <1>1, <1>2, <1>3, <1>4, <1>5, <1>7
  <2>2. \A i \in 1 .. Len(updates'[p]) : updates'[p][i] = log'[latest' + i]
    BY <1>1, <1>3, <1>4, <1>6, <1>7
  <2>. QED  BY <1>7, <2>1, <2>2 DEF OwedInv
<1>9. Announcing' # {}
  BY <1>7 DEF Announcing
<1>10. \A i \in 1 .. Len(backlog) : backlog'[i] = log'[latest' - Len(backlog') + i]
  <2>1. ASSUME NEW i \in 1 .. Len(backlog)
        PROVE  latest - Len(backlog) + i \in 1 .. n
    BY <1>2, <1>3 DEF BacklogIsTheLogsTail
  <2>. QED  BY <1>1, <1>5, <2>1 DEF BacklogIsTheLogsTail
<1>. QED  BY <1>1, <1>2, <1>3, <1>5, <1>8, <1>9, <1>10 DEF BacklogIsTheLogsTail

(* Announcing what is owed makes the backlog the tail of the whole log.    *)
LEMMA TailAtPublish ==
  ASSUME IInv, OneThread, BacklogIsTheLogsTail, OwedInv, NEW p \in Proc, Publish(p)
  PROVE  BacklogIsTheLogsTail' /\ OwedInv'
<1>. DEFINE U == Len(updates[p])
            L == Len(backlog)
            both == backlog \o updates[p]
<1>1. /\ updates[p] \in Seq(Announcement) /\ backlog \in Seq(Announcement)
      /\ U \in Nat /\ L \in Nat /\ latest \in Nat /\ Len(log) \in Nat /\ seq = Len(log)
      /\ L <= latest
  BY LenProperties
     DEF IInv, TypeOK, FanoutTypeOK, Announced, PositionsAreConsecutive, BacklogIsTheLogsTail
<1>2. /\ pc[p] = "publish" /\ PublishAll(updates[p])
      /\ pc' = [pc EXCEPT ![p] = "done"] /\ UNCHANGED <<log, seq>>
  BY DEF Publish
<1>3. Announcing' = {} /\ OwedInv'
  <2>1. \A q \in Proc : pc'[q] = "done"
    BY <1>2 DEF IInv, TypeOK, OneThread
  <2>. QED  BY <2>1 DEF Announcing, OwedInv
<1>4. Len(log) = latest + U /\ \A i \in 1 .. U : updates[p][i] = log[latest + i]
  BY <1>2 DEF OwedInv
<1>5. CASE updates[p] = <<>>
  <2>1. U = 0 /\ UNCHANGED <<latest, backlog>>
    BY <1>2, <1>5, EmptySeq DEF PublishAll, fanoutVars
  <2>. QED  BY <1>1, <1>2, <1>3, <1>4, <2>1 DEF BacklogIsTheLogsTail
<1>6. CASE updates[p] # <<>>
  <2>1. U \in 1 .. U
    BY <1>1, <1>6, EmptySeq
  <2>2. latest' = Len(log)
    <3>1. latest' = updates[p][U].seq
      BY <1>2, <1>6 DEF PublishAll
    <3>2. updates[p][U] = log[latest + U] /\ latest + U \in 1 .. Len(log)
      BY <1>1, <1>4, <2>1
    <3>3. log[latest + U].seq = latest + U
      BY <3>2 DEF IInv, PositionsAreConsecutive
    <3>. QED  BY <1>4, <3>1, <3>2, <3>3
  <2>3. both \in Seq(Announcement) /\ Len(both) = L + U
    BY <1>1, ConcatProperties
  <2>4. ASSUME NEW i \in 1 .. L + U PROVE both[i] = log[latest - L + i]
    <3>1. both[i] = IF i <= L THEN backlog[i] ELSE updates[p][i - L]
      BY <1>1, ConcatProperties
    <3>2. CASE i <= L
      BY <1>1, <3>1, <3>2 DEF BacklogIsTheLogsTail
    <3>3. CASE ~ (i <= L)
      <4>1. i - L \in 1 .. U /\ latest + (i - L) = latest - L + i
        BY <1>1, <3>3
      <4>2. updates[p][i - L] = log[latest + (i - L)]
        BY <1>4, <4>1
      <4>. QED  BY <3>1, <3>3, <4>1, <4>2
    <3>. QED  BY <3>2, <3>3
  <2>5. backlog' = KeepNewest(both)
    BY <1>2, <1>6 DEF PublishAll
  <2>6. /\ backlog' \in Seq(Announcement) /\ Len(backlog') \in Nat
        /\ Len(backlog') <= L + U
        /\ \A i \in 1 .. Len(backlog') : backlog'[i] = both[(L + U) - Len(backlog') + i]
    <3>1. KeepNewest(both) \in Seq(Announcement)
      BY <2>3, KeepNewestType
    <3>2. Len(KeepNewest(both)) \in Nat
      BY <3>1, LenProperties
    <3>. HIDE DEF both
    <3>. QED  BY <2>3, <2>5, <3>1, <3>2, KeepNewestContent
  <2>7. ASSUME NEW i \in 1 .. Len(backlog')
        PROVE  backlog'[i] = log'[latest' - Len(backlog') + i]
    <3>. DEFINE j == (L + U) - Len(backlog') + i
    <3>1. j \in 1 .. L + U /\ latest - L + j = latest' - Len(backlog') + i
      BY <1>1, <1>4, <2>2, <2>6
    <3>2. backlog'[i] = both[j]
      BY <2>6
    <3>3. both[j] = log[latest - L + j]
      BY <2>4, <3>1
    <3>. QED  BY <1>2, <3>1, <3>2, <3>3
  <2>. QED  BY <1>1, <1>2, <1>3, <1>4, <2>2, <2>6, <2>7 DEF BacklogIsTheLogsTail
<1>. QED  BY <1>5, <1>6

(* Every other step neither announces nor changes who is about to.         *)
LEMMA TailStep ==
  IInv /\ OneThread /\ BacklogIsTheLogsTail /\ OwedInv /\ [Next]_vars
    => BacklogIsTheLogsTail' /\ OwedInv'
<1>. SUFFICES ASSUME IInv, OneThread, BacklogIsTheLogsTail, OwedInv, [Next]_vars
              PROVE  BacklogIsTheLogsTail' /\ OwedInv'
  OBVIOUS
<1>0. ASSUME UNCHANGED <<latest, backlog, log, seq>>,
             \A q \in Proc : /\ pc'[q] = "publish" <=> pc[q] = "publish"
                             /\ pc[q] = "publish" => updates'[q] = updates[q]
      PROVE  BacklogIsTheLogsTail' /\ OwedInv'
  <2>1. Announcing' = Announcing
    BY <1>0 DEF Announcing
  <2>. QED  BY <1>0, <2>1 DEF BacklogIsTheLogsTail, OwedInv
<1>1. ASSUME NEW p \in Proc, Handler(p), ~ Commit(p), ~ Publish(p)
      PROVE  BacklogIsTheLogsTail' /\ OwedInv'
  <2>1. UNCHANGED <<latest, backlog, log, seq>>
    BY <1>1 DEF Handler, Inside, Get, ApplyEmpty, Apply, BeginWrite, Check, Compute, Abort,
                Return, fanoutVars
  <2>2. \A q \in Proc : /\ pc'[q] = "publish" <=> pc[q] = "publish"
                        /\ pc[q] = "publish" => updates'[q] = updates[q]
    <3>1. CASE Return(p)
      BY <3>1 DEF Return, IInv, TypeOK
    <3>2. CASE ~ Return(p)
      <4>1. UNCHANGED updates
        BY <1>1, <3>2 DEF Handler, Inside, Get, ApplyEmpty, Apply, BeginWrite, Check,
                          Compute, Abort
      <4>2. \/ UNCHANGED pc
            \/ /\ pc[p] # "publish"
               /\ \E at \in {"begin", "check", "compute", "done"} :
                    pc' = [pc EXCEPT ![p] = at]
        BY <1>1, <3>2 DEF Handler, Inside, Get, ApplyEmpty, Apply, BeginWrite, Check,
                          Compute, Abort
      <4>. QED  BY <4>1, <4>2 DEF IInv, TypeOK
    <3>. QED  BY <3>1, <3>2
  <2>. QED  BY <1>0, <2>1, <2>2
<1>2. ASSUME NEW p \in Proc, Commit(p) PROVE BacklogIsTheLogsTail' /\ OwedInv'
  BY <1>2, TailAtCommit
<1>3. ASSUME NEW p \in Proc, Publish(p) PROVE BacklogIsTheLogsTail' /\ OwedInv'
  BY <1>3, TailAtPublish
<1>4. ASSUME NEW s \in Subscriber, Watch(s) \/ Deliver(s) \/ Leave(s)
      PROVE  BacklogIsTheLogsTail' /\ OwedInv'
  <2>1. UNCHANGED <<latest, backlog>>
    BY <1>4 DEF Watch, Deliver, Leave, Subscribe, TryNext, Hangup
  <2>. QED  BY <1>0, <1>4, <2>1, SubscribersLeaveTheStore DEF storeVars
<1>5. CASE Reopen
  <2>1. latest' = seq /\ backlog' = <<>> /\ UNCHANGED <<seq, log>>
    BY <1>5 DEF Reopen, FanoutOpen
  <2>2. Len(<<>>) = 0 /\ seq \in Nat /\ seq = Len(log)
    BY EmptySeq DEF IInv, TypeOK, PositionsAreConsecutive
  <2>3. OwedInv'
    BY <1>5 DEF Reopen, OwedInv
  <2>. QED  BY <2>1, <2>2, <2>3 DEF BacklogIsTheLogsTail
<1>6. CASE UNCHANGED vars
  BY <1>0, <1>6 DEF vars, storeVars, fanoutVars
<1>. QED  BY <1>1, <1>2, <1>3, <1>4, <1>5, <1>6 DEF Next

LEMMA TailInit == Init => BacklogIsTheLogsTail /\ OwedInv
<1>1. Len(<<>>) = 0
  BY EmptySeq
<1>. QED  BY <1>1 DEF Init, FanoutInit, BacklogIsTheLogsTail, OwedInv

(* With one thread the fan-out's memory is exactly the newest part of the  *)
(* committed log, so that adding one to a cursor decides what a returning  *)
(* subscriber missed, for every size of the backlog and across restarts.   *)
THEOREM BacklogIsTail ==
  ASSUME OneThread
  PROVE  Spec => []BacklogIsTheLogsTail
<1>1. Init => BacklogIsTheLogsTail /\ OwedInv
  BY TailInit
<1>2. IInv /\ BacklogIsTheLogsTail /\ OwedInv /\ [Next]_vars
        => BacklogIsTheLogsTail' /\ OwedInv'
  BY TailStep
<1>. QED  BY <1>1, <1>2, Invariance, PTL DEF Spec

-----------------------------------------------------------------------------
(* What a subscription owes its holder, beside a single writing thread.    *)

\* No holder is ahead of the fan-out, and every live queue owes what it must.
ReadersInv ==
  /\ SubscriptionsTypeOK
  /\ \A s \in Subscriber : subs[s].upto \in Nat => subs[s].upto <= latest
  /\ \A s \in Subscriber : subs[s].live =>
       Owes(Queue(s), subs[s].upto, latest, log, Wants[s])

(* Announcements become events of the same positions, keys and values.     *)
LEMMA EventsProperties ==
  ASSUME NEW list \in Seq(Announcement)
  PROVE  /\ AsEvents(list) \in Seq(Event)
         /\ Len(AsEvents(list)) = Len(list)
         /\ \A i \in 1 .. Len(list) :
              /\ ~ AsEvents(list)[i].resync
              /\ AsEvents(list)[i].seq = list[i].seq
              /\ AsEvents(list)[i].key = list[i].key
              /\ AsEvents(list)[i].value = list[i].value
<1>. DEFINE n == Len(list)
<1>1. n \in Nat /\ \A i \in 1 .. n : list[i] \in Announcement
  BY LenProperties, ElementOfSeq
<1>2. \A i \in 1 .. n : UpdateEvent(list[i]) \in Event
  BY <1>1 DEF UpdateEvent, Event, Announcement
<1>3. AsEvents(list) \in [1 .. n -> Event]
  BY <1>2 DEF AsEvents
<1>4. AsEvents(list) \in Seq(Event) /\ Len(AsEvents(list)) = n
  BY <1>1, <1>3
<1>5. \A i \in 1 .. n : AsEvents(list)[i] = UpdateEvent(list[i])
  BY DEF AsEvents
<1>6. ASSUME NEW i \in 1 .. n
      PROVE  /\ ~ AsEvents(list)[i].resync
             /\ AsEvents(list)[i].seq = list[i].seq
             /\ AsEvents(list)[i].key = list[i].key
             /\ AsEvents(list)[i].value = list[i].value
  <2>1. AsEvents(list)[i] = [resync |-> FALSE, seq |-> list[i].seq,
                             key |-> list[i].key, value |-> list[i].value]
    BY <1>5 DEF UpdateEvent
  <2>. QED  BY <2>1
<1>. QED  BY <1>4, <1>6

(* The queue of a subscription is its replayed tail and then its channel.  *)
LEMMA QueueProperties ==
  ASSUME SubscriptionsTypeOK, NEW s \in Subscriber
  PROVE  /\ subs[s].pending \in Seq(Event) /\ subs[s].rx \in Seq(Event)
         /\ subs[s].upto \in Nat \cup {NoSeq} /\ subs[s].live \in BOOLEAN
         /\ Queue(s) \in Seq(Event)
<1>1. /\ subs[s].pending \in Seq(Event) /\ subs[s].rx \in Seq(Event)
      /\ subs[s].upto \in Nat \cup {NoSeq} /\ subs[s].live \in BOOLEAN
  BY DEF SubscriptionsTypeOK
<1>. QED  BY <1>1, ConcatProperties DEF Queue

(* What a commit left to be announced is the stretch after latest.         *)
LEMMA Announces ==
  ASSUME IInv, BacklogIsTheLogsTail, OwedInv, NEW p \in Proc, Publish(p),
         updates[p] # <<>>
  PROVE  /\ updates[p] \in Seq(Announcement)
         /\ latest \in Nat /\ latest' = latest + Len(updates[p]) /\ latest' \in Nat
         /\ latest <= latest'
         /\ \A i \in 1 .. Len(updates[p]) :
              updates[p][i] = log[latest + i] /\ updates[p][i].seq = latest + i
<1>. DEFINE U == Len(updates[p])
<1>1. /\ updates[p] \in Seq(Announcement) /\ latest \in Nat /\ Len(log) \in Nat
      /\ U \in Nat /\ U \in 1 .. U
  BY LenProperties, EmptySeq DEF IInv, TypeOK, FanoutTypeOK, Announced
<1>2. Len(log) = latest + U /\ \A i \in 1 .. U : updates[p][i] = log[latest + i]
  BY DEF Publish, OwedInv
<1>3. \A i \in 1 .. U : log[latest + i].seq = latest + i
  <2>1. \A i \in 1 .. U : latest + i \in 1 .. Len(log)
    BY <1>1, <1>2
  <2>. QED  BY <2>1 DEF IInv, PositionsAreConsecutive
<1>4. latest' = updates[p][U].seq
  BY DEF Publish, PublishAll
<1>5. latest' = latest + U
  BY <1>1, <1>2, <1>3, <1>4
<1>. QED  BY <1>1, <1>2, <1>3, <1>5

(* An announcement gives every live queue what it then owes.               *)
LEMMA ReadersAtPublish ==
  ASSUME IInv, BacklogIsTheLogsTail, OwedInv, ReadersInv, NEW p \in Proc, Publish(p)
  PROVE  ReadersInv'
<1>. DEFINE u == updates[p]
<1>1. CASE u = <<>>
  BY <1>1 DEF Publish, PublishAll, fanoutVars, ReadersInv, SubscriptionsTypeOK, Queue
<1>2. CASE u # <<>>
  <2>1. /\ u \in Seq(Announcement)
        /\ latest \in Nat /\ latest' = latest + Len(u) /\ latest' \in Nat /\ latest <= latest'
        /\ \A i \in 1 .. Len(u) : u[i] = log[latest + i] /\ u[i].seq = latest + i
    BY <1>2, Announces
  <2>2. /\ log' = log
        /\ subs' = [s \in Subscriber |->
                      IF subs[s].live
                        THEN [subs[s] EXCEPT !.rx = @ \o AsEvents(WantedBy(s, u))]
                        ELSE subs[s]]
    BY <1>2 DEF Publish, PublishAll
  <2>3. ASSUME NEW s \in Subscriber
        PROVE  /\ WantedBy(s, u) \in Seq(Announcement)
               /\ Plain(AsEvents(WantedBy(s, u)), latest, latest', log, Wants[s])
    <3>1. {i \in 1 .. Len(u) : u[i].key \in Wants[s]} = After(u, latest, Wants[s])
      <4>1. \A i \in 1 .. Len(u) : u[i].seq > latest
        BY <2>1
      <4>. QED  BY <4>1 DEF After
    <3>2. WantedBy(s, u) = Pick(u, After(u, latest, Wants[s]))
      BY <3>1 DEF WantedBy
    <3>3. WantedBy(s, u) \in Seq(Announcement)
      BY <2>1, <3>2, PickedElements
    <3>. DEFINE events == AsEvents(WantedBy(s, u))
                top == latest'
                want == Wants[s]
    <3>4. /\ Len(events) = Len(Pick(u, After(u, latest, want)))
          /\ \A i \in 1 .. Len(events) :
               /\ ~ events[i].resync
               /\ events[i].seq = Pick(u, After(u, latest, want))[i].seq
               /\ events[i].key = Pick(u, After(u, latest, want))[i].key
               /\ events[i].value = Pick(u, After(u, latest, want))[i].value
      BY <3>2, <3>3, EventsProperties
    <3>5. latest <= top /\ top = latest + Len(u) /\ latest <= latest
      BY <2>1
    <3>. HIDE DEF events, top, want, u
    <3>6. Plain(events, latest, top, log, want)
      BY <2>1, <3>4, <3>5, PickedIsPlain
    <3>. QED  BY <3>3, <3>6 DEF events, top, want
  <2>4. ASSUME NEW s \in Subscriber
        PROVE  /\ subs'[s] \in [live : BOOLEAN, pending : Seq(Event), rx : Seq(Event),
                                upto : Nat \cup {NoSeq}]
               /\ subs'[s].upto \in Nat => subs'[s].upto <= latest'
               /\ subs'[s].live =>
                    Owes(subs'[s].pending \o subs'[s].rx, subs'[s].upto, latest', log', Wants[s])
    <3>1. /\ subs[s].pending \in Seq(Event) /\ subs[s].rx \in Seq(Event)
          /\ subs[s].upto \in Nat \cup {NoSeq} /\ subs[s].live \in BOOLEAN
          /\ subs[s].upto \in Nat => subs[s].upto <= latest
          /\ Queue(s) \in Seq(Event)
      BY QueueProperties DEF ReadersInv
    <3>2. CASE ~ subs[s].live
      <4>1. subs'[s] = subs[s]
        BY <2>2, <3>2
      <4>2. subs[s] \in [live : BOOLEAN, pending : Seq(Event), rx : Seq(Event),
                         upto : Nat \cup {NoSeq}]
        BY DEF ReadersInv, SubscriptionsTypeOK
      <4>. QED  BY <2>1, <3>1, <3>2, <4>1, <4>2
    <3>3. CASE subs[s].live
      <4>. DEFINE more == AsEvents(WantedBy(s, u))
      <4>1. more \in Seq(Event)
        BY <2>3, EventsProperties
      <4>2. Plain(more, latest, latest', log, Wants[s])
        BY <2>3
      <4>3. subs'[s] = [subs[s] EXCEPT !.rx = @ \o more]
        BY <2>2, <3>3
      <4>. HIDE DEF more
      <4>4. subs[s] \in [live : BOOLEAN, pending : Seq(Event), rx : Seq(Event),
                         upto : Nat \cup {NoSeq}]
        BY DEF ReadersInv, SubscriptionsTypeOK
      <4>5. subs[s].rx \o more \in Seq(Event)
        BY <3>1, <4>1, ConcatProperties
      <4>6. /\ subs'[s].live = subs[s].live /\ subs'[s].pending = subs[s].pending
            /\ subs'[s].upto = subs[s].upto /\ subs'[s].rx = subs[s].rx \o more
        BY <4>3, <4>4
      <4>7. subs'[s].pending \o subs'[s].rx = Queue(s) \o more
        <5>1. (subs[s].pending \o subs[s].rx) \o more = subs[s].pending \o (subs[s].rx \o more)
          <6>1. ASSUME NEW a \in Seq(Event), NEW b \in Seq(Event), NEW c \in Seq(Event)
                PROVE  (a \o b) \o c = a \o (b \o c)
            BY ConcatAssociative
          <6>. QED  BY <3>1, <4>1, <6>1
        <5>. QED  BY <4>6, <5>1 DEF Queue
      <4>8. Owes(Queue(s), subs[s].upto, latest, log, Wants[s])
        BY <3>3 DEF ReadersInv
      <4>. DEFINE top == latest'
      <4>9. Owes(Queue(s) \o more, subs[s].upto, latest', log, Wants[s])
        <5>1. top \in Nat /\ latest <= top /\ Plain(more, latest, top, log, Wants[s])
          BY <2>1, <4>2
        <5>. HIDE DEF top
        <5>2. Owes(Queue(s) \o more, subs[s].upto, top, log, Wants[s])
          BY <2>1, <3>1, <4>1, <4>8, <5>1, OwesMore
        <5>. QED  BY <5>2 DEF top
      <4>10. subs'[s] \in [live : BOOLEAN, pending : Seq(Event), rx : Seq(Event),
                           upto : Nat \cup {NoSeq}]
        BY <4>3, <4>4, <4>5
      <4>11. Owes(subs'[s].pending \o subs'[s].rx, subs'[s].upto, latest', log', Wants[s])
        BY <2>2, <4>6, <4>7, <4>9
      <4>12. subs'[s].upto \in Nat => subs'[s].upto <= latest'
        BY <2>1, <3>1, <4>6
      <4>. QED  BY <4>10, <4>11, <4>12
    <3>. QED  BY <3>1, <3>2, <3>3
  <2>5. SubscriptionsTypeOK'
    BY <2>2, <2>4 DEF SubscriptionsTypeOK
  <2>. QED  BY <2>4, <2>5 DEF ReadersInv, Queue
<1>. QED  BY <1>1, <1>2

(* Whatever the backlog retains, a subscription opened at a cursor that the *)
(* fan-out has reached owes everything after the cursor, or says it cannot. *)
LEMMA ReplayOwes ==
  ASSUME IInv, BacklogIsTheLogsTail, NEW s \in Subscriber,
         NEW since \in Nat \cup {NoSeq}, since \in Nat => since <= latest
  PROVE  /\ Replay(s, since) \in Seq(Event)
         /\ Owes(Replay(s, since), IF since = NoSeq THEN latest ELSE since,
                 latest, log, Wants[s])
<1>0. /\ latest \in Nat /\ backlog \in Seq(Announcement) /\ Len(backlog) \in Nat
      /\ Len(backlog) <= latest /\ latest <= Len(log) /\ Len(log) \in Nat
      /\ NoSeq \notin Nat
  BY LenProperties, FanoutAssumption
     DEF IInv, TypeOK, FanoutTypeOK, Announced, BacklogIsTheLogsTail
<1>1. CASE since = NoSeq \/ since >= latest
  <2>1. Replay(s, since) = <<>>
    BY <1>1 DEF Replay
  <2>2. (IF since = NoSeq THEN latest ELSE since) = latest
    BY <1>0, <1>1
  <2>3. Owes(<<>>, latest, latest, log, Wants[s])
    BY <1>0, OwesNothing
  <2>. QED  BY <2>1, <2>2, <2>3, EmptySeq
<1>2. CASE ~ (since = NoSeq \/ since >= latest)
  <2>0. since \in Nat /\ since \in 0 .. latest /\ (IF since = NoSeq THEN latest ELSE since) = since
    BY <1>0, <1>2
  <2>1. CASE backlog # <<>> /\ backlog[1].seq <= since + 1
    <3>. DEFINE off == latest - Len(backlog)
                want == Wants[s]
                events == Replay(s, since)
    <3>1. off \in Nat /\ latest = off + Len(backlog)
      BY <1>0
    <3>2. \A i \in 1 .. Len(backlog) : backlog[i] = log[off + i] /\ backlog[i].seq = off + i
      <4>1. ASSUME NEW i \in 1 .. Len(backlog)
            PROVE  backlog[i] = log[off + i] /\ log[off + i].seq = off + i
        <5>1. off + i \in 1 .. Len(log)
          BY <1>0
        <5>. QED  BY <5>1 DEF IInv, BacklogIsTheLogsTail, PositionsAreConsecutive
      <4>. QED  BY <4>1
    <3>3. off <= since
      <4>1. 1 \in 1 .. Len(backlog)
        BY <1>0, <2>1, EmptySeq
      <4>2. backlog[1].seq = off + 1
        BY <3>2, <4>1
      <4>. QED  BY <2>0, <2>1, <3>1, <4>2
    <3>4. WantedAfter(s, since) = Pick(backlog, After(backlog, since, want))
      BY DEF WantedAfter, After
    <3>5. WantedAfter(s, since) \in Seq(Announcement)
      BY <1>0, <3>4, PickedElements
    <3>6. events = AsEvents(WantedAfter(s, since))
      BY <1>2, <2>1 DEF Replay
    <3>7. /\ events \in Seq(Event)
          /\ Len(events) = Len(Pick(backlog, After(backlog, since, want)))
          /\ \A i \in 1 .. Len(events) :
               /\ ~ events[i].resync
               /\ events[i].seq = Pick(backlog, After(backlog, since, want))[i].seq
               /\ events[i].key = Pick(backlog, After(backlog, since, want))[i].key
               /\ events[i].value = Pick(backlog, After(backlog, since, want))[i].value
      BY <3>4, <3>5, <3>6, EventsProperties
    <3>8. since <= latest
      BY <1>0, <2>0
    <3>. HIDE DEF events, off, want
    <3>9. Plain(events, since, latest, log, want)
      BY <1>0, <2>0, <3>1, <3>2, <3>3, <3>7, <3>8, PickedIsPlain
    <3>. QED  BY <2>0, <3>7, <3>9 DEF Owes, events, want
  <2>2. CASE ~ (backlog # <<>> /\ backlog[1].seq <= since + 1)
    <3>1. Replay(s, since) = <<ResyncAt(latest)>>
      BY <1>2, <2>2 DEF Replay
    <3>2. ResyncAt(latest) \in Event /\ ResyncAt(latest).resync /\ ResyncAt(latest).seq = latest
      BY <1>0 DEF ResyncAt, Event
    <3>3. Owes(<<ResyncAt(latest)>>, since, latest, log, Wants[s])
      BY <1>0, <2>0, <3>2, OwesResync
    <3>4. <<ResyncAt(latest)>> \in Seq(Event)
      BY <3>2
    <3>. QED  BY <2>0, <3>1, <3>3, <3>4
  <2>. QED  BY <2>1, <2>2
<1>. QED  BY <1>1, <1>2

(* Opening a subscription.                                                 *)
LEMMA ReadersAtWatch ==
  ASSUME IInv, BacklogIsTheLogsTail, ReadersInv, NEW s \in Subscriber, Watch(s)
  PROVE  ReadersInv'
<1>1. /\ subs[s].upto \in Nat \cup {NoSeq}
      /\ subs[s].upto \in Nat => subs[s].upto <= latest
      /\ NoSeq \notin Nat /\ latest \in Nat
  BY QueueProperties, FanoutAssumption DEF ReadersInv, IInv, TypeOK, FanoutTypeOK
<1>2. PICK since \in {NoSeq, subs[s].upto} : Subscribe(s, since)
  BY DEF Watch
<1>. DEFINE replay == Replay(s, since)
            upto == IF since = NoSeq THEN latest ELSE since
<1>3. /\ replay \in Seq(Event)
      /\ Owes(replay, upto, latest, log, Wants[s])
  BY <1>1, <1>2, ReplayOwes
<1>4. upto \in Nat /\ upto <= latest
  BY <1>1, <1>2
<1>5. /\ subs' = [subs EXCEPT ![s] = [live |-> TRUE, pending |-> replay,
                                     rx |-> <<>>, upto |-> upto]]
      /\ UNCHANGED <<latest, log>>
  BY <1>2 DEF Subscribe, Watch, storeVars
<1>. HIDE DEF replay, upto
<1>6. SubscriptionsTypeOK'
  BY <1>3, <1>4, <1>5, EmptySeq DEF ReadersInv, SubscriptionsTypeOK
<1>7. subs'[s] = [live |-> TRUE, pending |-> replay, rx |-> <<>>, upto |-> upto]
  BY <1>5 DEF ReadersInv, SubscriptionsTypeOK
<1>8. \A r \in Subscriber : r # s => subs'[r] = subs[r]
  BY <1>5 DEF ReadersInv, SubscriptionsTypeOK
<1>9. \A r \in Subscriber : subs'[r].upto \in Nat => subs'[r].upto <= latest'
  BY <1>4, <1>5, <1>7, <1>8 DEF ReadersInv
<1>10. ASSUME NEW r \in Subscriber, subs'[r].live
       PROVE  Owes(subs'[r].pending \o subs'[r].rx, subs'[r].upto, latest', log', Wants[r])
  <2>1. CASE r = s
    <3>1. replay \o <<>> = replay
      BY <1>3, ConcatEmptySeq
    <3>2. subs'[r].pending = replay /\ subs'[r].rx = <<>> /\ subs'[r].upto = upto
      BY <1>7, <2>1
    <3>. QED  BY <1>3, <1>5, <2>1, <3>1, <3>2
  <2>2. CASE r # s
    BY <1>5, <1>8, <1>10, <2>2 DEF ReadersInv, Queue
  <2>. QED  BY <2>1, <2>2
<1>. QED  BY <1>6, <1>9, <1>10 DEF ReadersInv, Queue

(* Taking an event.                                                        *)
LEMMA ReadersAtDeliver ==
  ASSUME IInv, ReadersInv, NEW s \in Subscriber, Deliver(s)
  PROVE  ReadersInv'
<1>. DEFINE pending == subs[s].pending
            rx == subs[s].rx
            q == Queue(s)
            upto == Head(q).seq
<1>1. /\ pending \in Seq(Event) /\ rx \in Seq(Event) /\ q \in Seq(Event)
      /\ subs[s].live /\ latest \in Nat
      /\ Owes(q, subs[s].upto, latest, log, Wants[s])
  BY QueueProperties DEF ReadersInv, IInv, TypeOK, FanoutTypeOK, Deliver, TryNext
<1>2. UNCHANGED <<latest, log>>
  BY DEF Deliver, TryNext, storeVars
<1>3. \E left \in Seq(Event), more \in Seq(Event) :
        /\ q # <<>> /\ left \o more = Tail(q)
        /\ subs' = [subs EXCEPT ![s].pending = left, ![s].rx = more, ![s].upto = upto]
  <2>1. CASE pending # <<>>
    <3>1. q # <<>> /\ Head(q) = Head(pending) /\ Tail(q) = Tail(pending) \o rx
      BY <1>1, <2>1, TailOfConcat DEF Queue
    <3>2. Tail(pending) \in Seq(Event)
      BY <1>1, <2>1, HeadTailProperties
    <3>3. subs' = [subs EXCEPT ![s].pending = Tail(pending), ![s].upto = upto]
      BY <2>1, <3>1 DEF Deliver, TryNext
    <3>4. subs' = [subs EXCEPT ![s].pending = Tail(pending), ![s].rx = rx, ![s].upto = upto]
      BY <3>3 DEF ReadersInv, SubscriptionsTypeOK
    <3>. HIDE DEF pending, rx, q, upto
    <3>. QED  BY <1>1, <3>1, <3>2, <3>4
  <2>2. CASE pending = <<>>
    <3>1. q = rx
      BY <1>1, <2>2, ConcatEmptySeq DEF Queue
    <3>2. rx # <<>> /\ subs' = [subs EXCEPT ![s].rx = Tail(rx), ![s].upto = upto]
      BY <2>2, <3>1 DEF Deliver, TryNext
    <3>3. Tail(rx) \in Seq(Event) /\ <<>> \o Tail(rx) = Tail(rx) /\ <<>> \in Seq(Event)
      BY <1>1, <3>2, HeadTailProperties, ConcatEmptySeq, EmptySeq
    <3>4. subs' = [subs EXCEPT ![s].pending = <<>>, ![s].rx = Tail(rx), ![s].upto = upto]
      BY <2>2, <3>2 DEF ReadersInv, SubscriptionsTypeOK
    <3>. HIDE DEF pending, rx, q, upto
    <3>. QED  BY <3>1, <3>2, <3>3, <3>4
  <2>. QED  BY <2>1, <2>2
<1>4. PICK left \in Seq(Event), more \in Seq(Event) :
        /\ q # <<>> /\ left \o more = Tail(q)
        /\ subs' = [subs EXCEPT ![s].pending = left, ![s].rx = more, ![s].upto = upto]
  BY <1>3
<1>. HIDE DEF pending, rx, q
<1>5. upto \in 0 .. latest /\ Owes(Tail(q), upto, latest, log, Wants[s])
  BY <1>1, <1>4, OwesTake
<1>. HIDE DEF upto
<1>6. upto \in Nat /\ upto <= latest
  BY <1>1, <1>5
<1>7. SubscriptionsTypeOK'
  BY <1>4, <1>6 DEF ReadersInv, SubscriptionsTypeOK
<1>8. subs'[s].pending = left /\ subs'[s].rx = more /\ subs'[s].upto = upto
  BY <1>4 DEF ReadersInv, SubscriptionsTypeOK
<1>9. \A r \in Subscriber : r # s => subs'[r] = subs[r]
  BY <1>4 DEF ReadersInv, SubscriptionsTypeOK
<1>10. \A r \in Subscriber : subs'[r].upto \in Nat => subs'[r].upto <= latest'
  BY <1>2, <1>6, <1>8, <1>9 DEF ReadersInv
<1>11. ASSUME NEW r \in Subscriber, subs'[r].live
       PROVE  Owes(subs'[r].pending \o subs'[r].rx, subs'[r].upto, latest', log', Wants[r])
  <2>1. CASE r = s
    BY <1>2, <1>4, <1>5, <1>8, <2>1
  <2>2. CASE r # s
    BY <1>2, <1>9, <1>11, <2>2 DEF ReadersInv, Queue
  <2>. QED  BY <2>1, <2>2
<1>. QED  BY <1>7, <1>10, <1>11 DEF ReadersInv, Queue

(* A commit appends to the log after everything that is owed.              *)
LEMMA ReadersAtCommit ==
  ASSUME IInv, BacklogIsTheLogsTail, ReadersInv, NEW p \in Proc, Commit(p)
  PROVE  ReadersInv'
<1>1. UNCHANGED <<latest, subs>> /\ latest \in Nat
  BY DEF Commit, fanoutVars, IInv, TypeOK, FanoutTypeOK
<1>2. \A n \in 1 .. latest : log'[n] = log[n]
  <2>1. \A n \in 1 .. Len(log) : log'[n] = log[n]
    BY CommittedLog DEF IInv
  <2>2. Len(log) \in Nat
    BY LenProperties DEF IInv, TypeOK, Announced
  <2>. QED  BY <1>1, <2>1, <2>2 DEF BacklogIsTheLogsTail
<1>3. ASSUME NEW s \in Subscriber, subs[s].live
      PROVE  Owes(Queue(s), subs[s].upto, latest, log', Wants[s])
  <2>. DEFINE longer == log'
  <2>1. \A n \in 1 .. latest : longer[n] = log[n]
    BY <1>2
  <2>2. Owes(Queue(s), subs[s].upto, latest, log, Wants[s])
    BY <1>3 DEF ReadersInv
  <2>. HIDE DEF longer
  <2>3. Owes(Queue(s), subs[s].upto, latest, longer, Wants[s])
    BY <1>1, <2>1, <2>2, OwesSame
  <2>. QED  BY <2>3 DEF longer
<1>. QED  BY <1>1, <1>3 DEF ReadersInv, SubscriptionsTypeOK, Queue

(* A reader that leaves, and a process that dies, leave nobody owed.       *)
LEMMA ReadersAtLeave ==
  ASSUME ReadersInv, NEW s \in Subscriber, Leave(s)
  PROVE  ReadersInv'
<1>1. /\ subs' = [subs EXCEPT ![s] = [@ EXCEPT !.live = FALSE, !.pending = <<>>, !.rx = <<>>]]
      /\ UNCHANGED <<latest, log>>
  BY DEF Leave, Hangup, storeVars
<1>2. <<>> \in Seq(Event)
  BY EmptySeq
<1>3. SubscriptionsTypeOK'
  BY <1>1, <1>2 DEF ReadersInv, SubscriptionsTypeOK
<1>4. ~ subs'[s].live /\ subs'[s].upto = subs[s].upto
  BY <1>1 DEF ReadersInv, SubscriptionsTypeOK
<1>5. \A r \in Subscriber : r # s => subs'[r] = subs[r]
  BY <1>1 DEF ReadersInv, SubscriptionsTypeOK
<1>. QED  BY <1>1, <1>3, <1>4, <1>5 DEF ReadersInv, Queue

LEMMA ReadersAtReopen ==
  ASSUME IInv, BacklogIsTheLogsTail, ReadersInv, Reopen
  PROVE  ReadersInv'
<1>1. /\ subs' = [s \in Subscriber |-> [subs[s] EXCEPT !.live = FALSE, !.pending = <<>>,
                                                       !.rx = <<>>]]
      /\ latest' = seq
  BY DEF Reopen, FanoutOpen
<1>2. latest <= seq /\ latest \in Nat /\ seq \in Nat
  BY DEF BacklogIsTheLogsTail, IInv, TypeOK, FanoutTypeOK, PositionsAreConsecutive
<1>3. <<>> \in Seq(Event)
  BY EmptySeq
<1>4. SubscriptionsTypeOK'
  BY <1>1, <1>3 DEF ReadersInv, SubscriptionsTypeOK
<1>5. \A s \in Subscriber : ~ subs'[s].live /\ subs'[s].upto = subs[s].upto
  BY <1>1 DEF ReadersInv, SubscriptionsTypeOK
<1>6. \A s \in Subscriber : subs'[s].upto \in Nat => subs'[s].upto <= latest'
  <2>1. ASSUME NEW s \in Subscriber, subs[s].upto \in Nat PROVE subs[s].upto <= seq
    BY <1>2, <2>1 DEF ReadersInv
  <2>. QED  BY <1>1, <1>5, <2>1
<1>. QED  BY <1>4, <1>5, <1>6 DEF ReadersInv

LEMMA ReadersStep ==
  IInv /\ BacklogIsTheLogsTail /\ OwedInv /\ ReadersInv /\ [Next]_vars => ReadersInv'
<1>. SUFFICES ASSUME IInv, BacklogIsTheLogsTail, OwedInv, ReadersInv, [Next]_vars
              PROVE  ReadersInv'
  OBVIOUS
<1>0. ASSUME UNCHANGED <<latest, subs, log>> PROVE ReadersInv'
  BY <1>0 DEF ReadersInv, SubscriptionsTypeOK, Queue
<1>1. ASSUME NEW p \in Proc, Handler(p), ~ Commit(p), ~ Publish(p) PROVE ReadersInv'
  <2>1. UNCHANGED <<latest, subs, log>>
    BY <1>1 DEF Handler, Inside, Get, ApplyEmpty, Apply, BeginWrite, Check, Compute, Abort,
                Return, fanoutVars
  <2>. QED  BY <1>0, <2>1
<1>2. ASSUME NEW s \in Subscriber, Watch(s) \/ Deliver(s) \/ Leave(s) PROVE ReadersInv'
  BY <1>2, ReadersAtWatch, ReadersAtDeliver, ReadersAtLeave
<1>3. CASE UNCHANGED vars
  BY <1>0, <1>3 DEF vars, storeVars, fanoutVars
<1>. QED  BY <1>1, <1>2, <1>3, ReadersAtCommit, ReadersAtPublish, ReadersAtReopen DEF Next

LEMMA ReadersInit == Init => ReadersInv
<1>1. NoSeq \notin Nat /\ <<>> \in Seq(Event)
  BY FanoutAssumption, EmptySeq
<1>. QED  BY <1>1 DEF Init, FanoutInit, Closed, ReadersInv, SubscriptionsTypeOK

(* A queue of nothing but updates holds the log's own events, each of the  *)
(* numbers it owes once and in increasing order.                           *)
LEMMA PlainMeans ==
  ASSUME IInv, latest <= Len(log), NEW q \in Seq(Event), NEW from, NEW want,
         Plain(q, from, latest, log, want)
  PROVE  /\ {q[i].seq : i \in 1 .. Len(q)} = Between(from, latest, log, want)
         /\ \A i \in 1 .. Len(q) : ~ q[i].resync /\ q[i] = UpdateEvent(log[q[i].seq])
         /\ \A i \in 1 .. Len(q) - 1 : q[i].seq < q[i + 1].seq
<1>0. latest \in Nat /\ Len(log) \in Nat /\ Len(q) \in Nat
  BY LenProperties DEF IInv, TypeOK, FanoutTypeOK, Announced
<1>1. {q[i].seq : i \in 1 .. Len(q)} = Between(from, latest, log, want)
  BY DEF Plain, Enumerates
<1>2. ASSUME NEW i \in 1 .. Len(q) PROVE ~ q[i].resync /\ q[i] = UpdateEvent(log[q[i].seq])
  <2>. DEFINE e == q[i]
              n == e.seq
  <2>1. ~ e.resync /\ e.key = log[n].key /\ e.value = log[n].value
    BY DEF Plain, Faithful
  <2>2. n \in Between(from, latest, log, want)
    BY DEF Plain, Enumerates
  <2>3. n \in 1 .. Len(log)
    BY <1>0, <2>2 DEF Between
  <2>4. log[n].seq = n
    BY <2>3 DEF IInv, PositionsAreConsecutive
  <2>5. e \in [resync : {FALSE}, seq : Nat, key : Key, value : Slot]
    <3>1. e \in Event
      BY ElementOfSeq
    <3>. HIDE DEF e
    <3>. QED  BY <2>1, <3>1 DEF Event
  <2>. HIDE DEF e
  <2>6. e = [resync |-> FALSE, seq |-> log[n].seq, key |-> log[n].key, value |-> log[n].value]
    BY <2>1, <2>4, <2>5
  <2>. QED  BY <2>1, <2>6 DEF UpdateEvent, e
<1>3. \A i \in 1 .. Len(q) - 1 : q[i].seq < q[i + 1].seq
  <2>1. ASSUME NEW i \in 1 .. Len(q) - 1 PROVE q[i].seq < q[i + 1].seq
    <3>1. i \in 1 .. Len(q) /\ i + 1 \in 1 .. Len(q) /\ i < i + 1
      BY <1>0
    <3>. QED  BY <3>1 DEF Plain, Enumerates
  <2>. QED  BY <2>1
<1>. QED  BY <1>1, <1>2, <1>3

LEMMA ReadersMean == IInv /\ BacklogIsTheLogsTail /\ ReadersInv => NothingLost
<1>. SUFFICES ASSUME IInv, BacklogIsTheLogsTail, ReadersInv PROVE NothingLost
  OBVIOUS
<1>0. latest \in Nat /\ latest <= Len(log)
  BY DEF BacklogIsTheLogsTail, IInv, TypeOK, FanoutTypeOK
<1>. DEFINE Settled(tail, owed) ==
       /\ {tail[i].seq : i \in 1 .. Len(tail)} = owed
       /\ \A i \in 1 .. Len(tail) : ~tail[i].resync /\ tail[i] = UpdateEvent(log[tail[i].seq])
       /\ \A i \in 1 .. Len(tail) - 1 : tail[i].seq < tail[i + 1].seq
<1>1. ASSUME NEW s \in Subscriber, subs[s].live
      PROVE  LET queue == Queue(s)
                 resyncs == queue # <<>> /\ Head(queue).resync
             IN  Settled(IF resyncs THEN Tail(queue) ELSE queue,
                         IF resyncs THEN {i \in Due(s) : i > Head(queue).seq} ELSE Due(s))
  <2>. DEFINE queue == Queue(s)
              upto == subs[s].upto
              want == Wants[s]
              resyncs == queue # <<>> /\ Head(queue).resync
  <2>1. queue \in Seq(Event) /\ Owes(queue, upto, latest, log, want)
    BY <1>1, QueueProperties DEF ReadersInv
  <2>2. Due(s) = Between(upto, latest, log, want)
    BY DEF Due, Between
  <2>. HIDE DEF queue, Settled
  <2>3. CASE upto \in Nat /\ Plain(queue, upto, latest, log, want)
    <3>1. ~ resyncs
      BY <1>0, <2>1, <2>3, PlainShrinks
    <3>2. Settled(queue, Between(upto, latest, log, want))
      BY <1>0, <2>1, <2>3, PlainMeans DEF Settled
    <3>. QED  BY <2>2, <3>1, <3>2 DEF queue
  <2>4. CASE ~ (upto \in Nat /\ Plain(queue, upto, latest, log, want))
    <3>1. /\ resyncs /\ upto \in Nat /\ upto <= Head(queue).seq
          /\ Plain(Tail(queue), Head(queue).seq, latest, log, want)
      BY <2>1, <2>4 DEF Owes
    <3>2. Tail(queue) \in Seq(Event)
      BY <2>1, <3>1, HeadTailProperties
    <3>3. Settled(Tail(queue), Between(Head(queue).seq, latest, log, want))
      BY <1>0, <3>1, <3>2, PlainMeans DEF Settled
    <3>4. Head(queue).seq \in 0 .. latest
      BY <3>1 DEF Plain
    <3>5. {i \in Due(s) : i > Head(queue).seq} = Between(Head(queue).seq, latest, log, want)
      BY <1>0, <2>2, <3>1, <3>4 DEF Between
    <3>. QED  BY <3>1, <3>3, <3>5 DEF queue
  <2>. QED  BY <2>3, <2>4
<1>2. SubscriptionsTypeOK
  BY DEF ReadersInv
<1>. QED  BY <1>1, <1>2 DEF NothingLost

(* With one thread every page gets what it asked for: whenever it is       *)
(* connected, what it has yet to take is exactly the committed updates of  *)
(* its keys after its cursor, each once and in order, or a resync and what *)
(* follows it; for every backlog, cursor, reconnection and restart.        *)
THEOREM NothingIsLost ==
  ASSUME OneThread
  PROVE  Spec => []NothingLost
<1>1. Init => BacklogIsTheLogsTail /\ OwedInv /\ ReadersInv
  BY TailInit, ReadersInit
<1>2. IInv /\ BacklogIsTheLogsTail /\ OwedInv /\ ReadersInv /\ [Next]_vars
        => BacklogIsTheLogsTail' /\ OwedInv' /\ ReadersInv'
  BY TailStep, ReadersStep
<1>. QED  BY <1>1, <1>2, Invariance, ReadersMean, PTL DEF Spec

-----------------------------------------------------------------------------
(* The store implements the contract: what a list of writes comes to.      *)

Started(view) == [status |-> "ok", view |-> view, keys |-> {}, values |-> <<>>]
Run == [status : {"ok", "not_a_number", "out_of_range"}, view : [Key -> Slot],
        keys : SUBSET Key, values : Seq(Slot)]

(* One write takes a run to a run.                                         *)
LEMMA PerformType ==
  ASSUME NEW run \in Run, NEW w \in Write
  PROVE  Contract!Perform(run, w) \in Run
<1>. DEFINE current == run.view[w.key]
<1>0. /\ w.key \in Key /\ current \in Slot /\ run.view \in [Key -> Slot]
      /\ run.keys \in SUBSET Key /\ run.values \in Seq(Slot)
  BY DEF Run, Write
<1>1. ASSUME NEW v \in Slot PROVE Contract!Leaves(run, w.key, v) \in Run
  <2>1. [run.view EXCEPT ![w.key] = v] \in [Key -> Slot]
    BY <1>0, <1>1
  <2>2. Append(run.values, v) \in Seq(Slot)
    BY <1>0, <1>1, AppendProperties
  <2>3. run.keys \cup {w.key} \in SUBSET Key
    BY <1>0
  <2>. QED  BY <2>1, <2>2, <2>3 DEF Contract!Leaves, Run
<1>2. \A why \in {"not_a_number", "out_of_range"} : Contract!Breaks(run, why) \in Run
  BY <1>0 DEF Contract!Breaks, Run
<1>3. CASE run.status # "ok"
  BY <1>3 DEF Contract!Perform
<1>4. CASE run.status = "ok" /\ w.op = "set"
  <2>1. w.arg \in Slot
    BY <1>4 DEF Write, Slot
  <2>. QED  BY <1>1, <1>4, <2>1 DEF Contract!Perform
<1>5. CASE run.status = "ok" /\ w.op = "delete"
  BY <1>1, <1>5 DEF Contract!Perform, Slot
<1>6. CASE run.status = "ok" /\ w.op = "incr"
  <2>1. CASE current = Text
    BY <1>2, <1>6, <2>1 DEF Contract!Perform
  <2>2. CASE current # Text /\ ~ Contract!InRange(Contract!Addend(current) + w.arg)
    BY <1>2, <1>6, <2>2 DEF Contract!Perform
  <2>3. CASE current # Text /\ Contract!InRange(Contract!Addend(current) + w.arg)
    <3>1. Contract!Addend(current) + w.arg \in Slot
      BY <2>3 DEF Contract!InRange, Slot, Json, Number
    <3>. QED  BY <1>1, <1>6, <2>3, <3>1 DEF Contract!Perform
  <2>. QED  BY <2>1, <2>2, <2>3
<1>. QED  BY <1>3, <1>4, <1>5, <1>6 DEF Write

(* The runs start at the view and perform one write after the other.       *)
LEMMA RunsUnfold ==
  ASSUME NEW view \in [Key -> Slot], NEW list \in Seq(Write)
  PROVE  /\ Contract!Runs(view, list)[0] = Started(view)
         /\ \A n \in 1 .. Len(list) :
              Contract!Runs(view, list)[n]
                = Contract!Perform(Contract!Runs(view, list)[n - 1], list[n])
         /\ \A n \in 0 .. Len(list) : Contract!Runs(view, list)[n] \in Run
<1>. DEFINE L == Len(list)
            base == Started(view)
            step == [n \in 1 .. L |-> [run \in Run |-> Contract!Perform(run, list[n])]]
            Def(f) == [n \in 0 .. L |-> IF n = 0 THEN base
                                        ELSE Contract!Perform(f[n - 1], list[n])]
            runs == CHOOSE f : f = Def(f)
<1>0. L \in Nat /\ \A n \in 1 .. L : list[n] \in Write
  BY LenProperties, ElementOfSeq
<1>1. base \in Run
  BY EmptySeq DEF Started, Run
<1>2. step \in [1 .. L -> [Run -> Run]]
  BY <1>0, PerformType
<1>3. PICK run \in [0 .. L -> Run] :
         run[0] = base /\ \A n \in 1 .. L : run[n] = step[n][run[n - 1]]
  <2>1. L \in Nat
    BY <1>0
  <2>2. \E run : Goes(L, Run, base, step, run)
    <3>. HIDE DEF L, base, step
    <3>. QED  BY <1>1, <1>2, <2>1, RunExists
  <2>. QED  BY <2>2 DEF Goes
<1>4. \A n \in 1 .. L : run[n] = Contract!Perform(run[n - 1], list[n])
  <2>1. \A n \in 1 .. L : run[n - 1] \in Run
    BY <1>0
  <2>. QED  BY <1>3, <2>1
<1>5. run = Def(run)
  <2>. HIDE DEF base
  <2>1. \A n \in 0 .. L : n # 0 => n \in 1 .. L
    BY <1>0
  <2>2. \A n \in 0 .. L : run[n] = Def(run)[n]
    BY <1>3, <1>4, <2>1
  <2>. QED  BY <2>2
<1>6. runs = Def(runs)
  <2>. HIDE DEF Def
  <2>. QED  BY <1>5
<1>7. Contract!Runs(view, list) = runs
  BY DEF Contract!Runs, Started
<1>8. /\ runs[0] = base
      /\ \A n \in 1 .. L : runs[n] = Contract!Perform(runs[n - 1], list[n])
  <2>. HIDE DEF runs, base
  <2>1. \A n \in 0 .. L : runs[n] = Def(runs)[n]
    BY <1>6
  <2>2. 0 \in 0 .. L /\ \A n \in 1 .. L : n \in 0 .. L /\ n # 0
    BY <1>0
  <2>. QED  BY <2>1, <2>2
<1>9. \A n \in 0 .. L : runs[n] \in Run
  <2>. HIDE DEF runs, base
  <2>. DEFINE G == {n \in 0 .. L : runs[n] \in Run}
  <2>1. 0 \in G
    BY <1>0, <1>1, <1>8
  <2>2. ASSUME NEW n \in 0 .. L - 1, n \in G PROVE n + 1 \in G
    <3>1. n + 1 \in 1 .. L /\ (n + 1) - 1 = n /\ list[n + 1] \in Write
      BY <1>0, <2>2
    <3>2. runs[n + 1] = Contract!Perform(runs[n], list[n + 1])
      BY <1>8, <3>1
    <3>. QED  BY <2>2, <3>1, <3>2, PerformType
  <2>3. 0 .. L \subseteq G
    <3>. HIDE DEF G
    <3>. QED  BY <1>0, <2>1, <2>2, UpTo
  <2>. QED  BY <2>3
<1>. HIDE DEF runs
<1>. QED  BY <1>7, <1>8, <1>9

(* The contract's meaning of one write is what next_value computes for it.  *)
LEMMA PerformOutcome ==
  ASSUME NEW run \in Run, run.status = "ok", NEW w \in Write
  PROVE  Contract!Perform(run, w)
           = IF Outcome(w, run.view[w.key]).status = "ok"
               THEN Contract!Leaves(run, w.key, Outcome(w, run.view[w.key]).value)
               ELSE Contract!Breaks(run, Outcome(w, run.view[w.key]).status)
<1>. DEFINE current == run.view[w.key]
<1>0. w.key \in Key /\ current \in Slot
  BY DEF Run, Write
<1>1. CASE w.op = "set"
  BY <1>1 DEF Contract!Perform, Outcome
<1>2. CASE w.op = "delete"
  BY <1>2 DEF Contract!Perform, Outcome
<1>3. CASE w.op = "incr"
  <2>1. Base(current) = Contract!Addend(current)
    BY DEF Base, Contract!Addend
  <2>2. 0 \in Number
    BY FanoutAssumption DEF Number
  <2>3. Base(current) \in Number <=> current # Text
    BY <1>0, <2>2, FanoutAssumption DEF Base, Slot, Json, Number
  <2>4. \A n : Contract!InRange(n) <=> n \in Number
    BY DEF Contract!InRange, Number
  <2>. DEFINE sum == Base(current) + w.arg
  <2>5. Outcome(w, current) = IF current = Text THEN Refused("not_a_number")
                              ELSE IF sum \notin Number THEN Refused("out_of_range")
                              ELSE [status |-> "ok", value |-> sum]
    BY <1>3, <2>3 DEF Outcome
  <2>6. Contract!Perform(run, w)
          = IF current = Text THEN Contract!Breaks(run, "not_a_number")
            ELSE IF sum \notin Number THEN Contract!Breaks(run, "out_of_range")
            ELSE Contract!Leaves(run, w.key, sum)
    BY <1>3, <2>1, <2>4 DEF Contract!Perform
  <2>. HIDE DEF sum, current
  <2>7. CASE current = Text
    BY <2>5, <2>6, <2>7 DEF Refused, current
  <2>8. CASE current # Text /\ sum \notin Number
    BY <2>5, <2>6, <2>8 DEF Refused, current
  <2>9. CASE current # Text /\ sum \in Number
    BY <2>5, <2>6, <2>9 DEF current
  <2>. QED  BY <2>7, <2>8, <2>9
<1>. QED  BY <1>1, <1>2, <1>3 DEF Write

(* A run that failed stays as it was to the end of the list.               *)
LEMMA FailureStays ==
  ASSUME NEW view \in [Key -> Slot], NEW list \in Seq(Write), NEW n \in 0 .. Len(list),
         Contract!Runs(view, list)[n].status # "ok"
  PROVE  Contract!RunOn(view, list) = Contract!Runs(view, list)[n]
<1>. DEFINE L == Len(list)
            runs == Contract!Runs(view, list)
            G == {m \in 0 .. L - n : runs[n + m] = runs[n]}
<1>0. L \in Nat /\ L - n \in Nat /\ n \in Nat
  BY LenProperties
<1>1. \A m \in 1 .. L : runs[m] = Contract!Perform(runs[m - 1], list[m])
  BY RunsUnfold
<1>2. Contract!RunOn(view, list) = runs[L]
  BY DEF Contract!RunOn
<1>3. runs[n].status # "ok"
  OBVIOUS
<1>. HIDE DEF runs
<1>4. 0 \in G
  BY <1>0
<1>5. ASSUME NEW m \in 0 .. (L - n) - 1, m \in G PROVE m + 1 \in G
  <2>1. n + (m + 1) \in 1 .. L /\ (n + (m + 1)) - 1 = n + m /\ m + 1 \in 0 .. L - n
    BY <1>0
  <2>2. runs[n + (m + 1)] = Contract!Perform(runs[n + m], list[n + (m + 1)])
    BY <1>1, <2>1
  <2>3. runs[n + m] = runs[n]
    BY <1>5
  <2>4. runs[n + (m + 1)] = runs[n]
    BY <1>3, <2>2, <2>3 DEF Contract!Perform
  <2>. QED  BY <2>1, <2>4
<1>6. 0 .. L - n \subseteq G
  <2>. HIDE DEF G, L
  <2>. QED  BY <1>0, <1>4, <1>5, UpTo
<1>7. runs[n + (L - n)] = runs[n] /\ n + (L - n) = L
  <2>1. L - n \in G
    <3>. HIDE DEF G
    <3>. QED  BY <1>0, <1>6
  <2>. QED  BY <1>0, <2>1
<1>8. Contract!RunOn(view, list) = runs[n]
  BY <1>2, <1>7
<1>. QED  BY <1>8 DEF runs

-----------------------------------------------------------------------------
(* The invariants the refinement needs.                                    *)

\* What the contract's run is when a thread has computed its first writes.
RunOf(p) ==
  [status |-> "ok", view |-> [k \in Key |-> Current(p, k)],
   keys |-> {order[p][i] : i \in 1 .. Len(order[p])}, values |-> outs[p]]

\* What a thread has computed is the contract's run of its first writes.
RunInv ==
  \A p \in Proc : pc[p] = "compute" =>
    Contract!Runs(db, writes[p])[Len(outs[p])] = RunOf(p)

\* A call starts with nothing written.
BlankInv ==
  \A p \in Proc : pc[p] \in {"idle", "begin", "check"} =>
    working[p] = NothingSeen /\ order[p] = <<>>

\* Nothing is announced that was not committed.
LatestInv ==
  /\ latest <= seq
  /\ \A p \in Proc : pc[p] = "publish" =>
       \A i \in 1 .. Len(updates[p]) : updates[p][i].seq <= seq

LEMMA BlankStep == TypeOK /\ BlankInv /\ [Next]_vars => BlankInv'
<1>. SUFFICES ASSUME TypeOK, BlankInv, [Next]_vars PROVE BlankInv'
  OBVIOUS
<1>0. ASSUME UNCHANGED <<working, order>>,
             \A q \in Proc : pc'[q] \in {"idle", "begin", "check"}
                               => pc[q] \in {"idle", "begin", "check"}
      PROVE  BlankInv'
  BY <1>0 DEF BlankInv
<1>1. ASSUME NEW p \in Proc, Compute(p) PROVE BlankInv'
  <2>1. CASE \E why : Abort(p, why)
    BY <1>0, <2>1 DEF Abort, TypeOK
  <2>2. CASE ~ \E why : Abort(p, why)
    <3>1. /\ pc[p] = "compute" /\ UNCHANGED pc
          /\ \E r, o : working' = [working EXCEPT ![p] = r] /\ order' = [order EXCEPT ![p] = o]
      BY <1>1, <2>2 DEF Compute
    <3>. QED  BY <3>1 DEF BlankInv, TypeOK
  <2>. QED  BY <2>1, <2>2
<1>2. ASSUME NEW p \in Proc, Return(p) PROVE BlankInv'
  BY <1>2 DEF Return, TypeOK, BlankInv
<1>3. CASE Reopen
  BY <1>3 DEF Reopen, BlankInv
<1>4. ASSUME NEW s \in Subscriber, Watch(s) \/ Deliver(s) \/ Leave(s) PROVE BlankInv'
  BY <1>0, <1>4, SubscribersLeaveTheStore DEF storeVars
<1>5. CASE UNCHANGED vars
  BY <1>0, <1>5 DEF vars, storeVars
<1>6. ASSUME NEW p \in Proc,
             \/ \E k \in Key : Get(p, k)
             \/ ApplyEmpty(p)
             \/ \E list \in WriteLists : Apply(p, list)
             \/ BeginWrite(p) \/ Check(p) \/ Commit(p) \/ Publish(p)
      PROVE BlankInv'
  <2>1. UNCHANGED <<working, order>>
    BY <1>6 DEF Get, ApplyEmpty, Apply, BeginWrite, Check, Abort, Commit, Publish
  <2>2. \/ UNCHANGED pc
        \/ pc[p] \in {"idle", "begin", "check"} /\ \E at : pc' = [pc EXCEPT ![p] = at]
        \/ \E at \in {"publish", "done"} : pc' = [pc EXCEPT ![p] = at]
    BY <1>6 DEF Get, ApplyEmpty, Apply, BeginWrite, Check, Abort, Commit, Publish
  <2>. QED  BY <1>0, <2>1, <2>2 DEF TypeOK
<1>. QED  BY <1>1, <1>2, <1>3, <1>4, <1>5, <1>6 DEF Next, Handler, Inside

LEMMA LatestStep == IInv /\ LatestInv /\ [Next]_vars => LatestInv'
<1>. SUFFICES ASSUME IInv, LatestInv, [Next]_vars PROVE LatestInv'
  OBVIOUS
<1>0. ASSUME UNCHANGED <<latest, seq>>,
             \A q \in Proc : pc'[q] = "publish" => pc[q] = "publish" /\ updates'[q] = updates[q]
      PROVE  LatestInv'
  BY <1>0 DEF LatestInv
<1>1. ASSUME NEW p \in Proc, Commit(p) PROVE LatestInv'
  <2>. DEFINE m == Len(order[p])
  <2>1. /\ seq' = seq + m /\ latest' = latest
        /\ updates' = [updates EXCEPT ![p] = Announcements(p)]
        /\ pc' = [pc EXCEPT ![p] = "publish"]
    BY <1>1 DEF Commit, fanoutVars
  <2>2. /\ m \in Nat /\ seq \in Nat /\ latest \in Nat
        /\ \A q \in Proc : updates[q] \in Seq(Announcement)
    BY LenProperties DEF IInv, TypeOK, FanoutTypeOK, Announced
  <2>3. /\ Len(Announcements(p)) = m
        /\ \A i \in 1 .. m : Announcements(p)[i].seq = seq + i
    BY AnnouncementsType DEF IInv
  <2>4. \A i \in 1 .. Len(updates'[p]) : updates'[p][i].seq <= seq'
    <3>1. updates'[p] = Announcements(p)
      BY <2>1 DEF IInv, TypeOK
    <3>. HIDE DEF m
    <3>. QED  BY <2>1, <2>2, <2>3, <3>1
  <2>5. ASSUME NEW q \in Proc, q # p, pc'[q] = "publish", NEW i \in 1 .. Len(updates'[q])
        PROVE  updates'[q][i].seq <= seq'
    <3>1. updates'[q] = updates[q] /\ pc[q] = "publish"
      BY <2>1, <2>5 DEF IInv, TypeOK
    <3>2. updates[q][i].seq \in Nat
      <4>1. i \in 1 .. Len(updates[q]) /\ updates[q] \in Seq(Announcement)
        BY <2>2, <2>5, <3>1
      <4>2. updates[q][i] \in Announcement
        BY <4>1, ElementOfSeq
      <4>. QED  BY <4>2 DEF Announcement
    <3>3. updates[q][i].seq <= seq
      BY <2>5, <3>1 DEF LatestInv
    <3>. QED  BY <2>1, <2>2, <3>1, <3>2, <3>3
  <2>6. latest' <= seq'
    BY <2>1, <2>2 DEF LatestInv
  <2>. QED  BY <2>4, <2>5, <2>6 DEF LatestInv
<1>2. ASSUME NEW p \in Proc, Publish(p) PROVE LatestInv'
  <2>1. /\ pc[p] = "publish" /\ UNCHANGED <<seq, updates>>
        /\ pc' = [pc EXCEPT ![p] = "done"]
    BY <1>2 DEF Publish
  <2>2. latest' <= seq'
    <3>1. CASE updates[p] = <<>>
      BY <1>2, <2>1, <3>1 DEF Publish, PublishAll, fanoutVars, LatestInv
    <3>2. CASE updates[p] # <<>>
      <4>1. Len(updates[p]) \in 1 .. Len(updates[p])
        BY <3>2, EmptySeq, LenProperties DEF IInv, TypeOK, Announced
      <4>. QED  BY <1>2, <2>1, <3>2, <4>1 DEF Publish, PublishAll, LatestInv
    <3>. QED  BY <3>1, <3>2
  <2>. QED  BY <2>1, <2>2 DEF IInv, TypeOK, LatestInv
<1>3. ASSUME NEW p \in Proc, Handler(p), ~ Commit(p), ~ Publish(p) PROVE LatestInv'
  <2>1. UNCHANGED <<latest, seq>>
    BY <1>3 DEF Handler, Inside, Get, ApplyEmpty, Apply, BeginWrite, Check, Compute, Abort,
                Return, fanoutVars
  <2>2. CASE Return(p)
    BY <1>0, <2>1, <2>2 DEF Return, IInv, TypeOK
  <2>3. CASE ~ Return(p)
    <3>1. /\ UNCHANGED updates
          /\ \/ UNCHANGED pc
             \/ \E at \in {"begin", "check", "compute", "done"} : pc' = [pc EXCEPT ![p] = at]
      BY <1>3, <2>3 DEF Handler, Inside, Get, ApplyEmpty, Apply, BeginWrite, Check,
                        Compute, Abort
    <3>. QED  BY <1>0, <2>1, <3>1 DEF IInv, TypeOK
  <2>. QED  BY <2>2, <2>3
<1>4. ASSUME NEW s \in Subscriber, Watch(s) \/ Deliver(s) \/ Leave(s) PROVE LatestInv'
  <2>1. UNCHANGED latest
    BY <1>4 DEF Watch, Deliver, Leave, Subscribe, TryNext, Hangup
  <2>. QED  BY <1>0, <1>4, <2>1, SubscribersLeaveTheStore DEF storeVars
<1>5. CASE Reopen
  <2>1. latest' = seq /\ seq' = seq /\ seq \in Nat /\ \A p \in Proc : pc'[p] = "idle"
    BY <1>5 DEF Reopen, FanoutOpen, IInv, TypeOK
  <2>. QED  BY <2>1 DEF LatestInv
<1>6. CASE UNCHANGED vars
  BY <1>0, <1>6 DEF vars, storeVars, fanoutVars
<1>. QED  BY <1>1, <1>2, <1>3, <1>4, <1>5, <1>6 DEF Next

(* The next write of a call takes its run where next_value says.           *)
LEMMA NextRun ==
  ASSUME IInv, RunInv, NEW p \in Proc, pc[p] = "compute", ~ Computed(p)
  PROVE  LET w == NextWrite(p)
             n == Len(outs[p])
             next == Outcome(w, Current(p, w.key))
         IN  /\ w \in Write /\ w.key \in Key /\ n \in Nat /\ n + 1 \in 1 .. Len(writes[p])
             /\ db \in [Key -> Slot] /\ writes[p] \in Seq(Write)
             /\ next.status = "ok" => next.value \in Slot
             /\ Contract!Runs(db, writes[p])[n + 1]
                  = IF next.status = "ok" THEN Contract!Leaves(RunOf(p), w.key, next.value)
                    ELSE Contract!Breaks(RunOf(p), next.status)
<1>. DEFINE w == NextWrite(p)
            n == Len(outs[p])
            next == Outcome(w, Current(p, w.key))
            runs == Contract!Runs(db, writes[p])
<1>1. /\ db \in [Key -> Slot] /\ writes[p] \in Seq(Write) /\ outs[p] \in Seq(Slot)
      /\ n \in Nat /\ Len(writes[p]) \in Nat
  BY LenProperties DEF IInv, TypeOK
<1>2. n + 1 \in 1 .. Len(writes[p])
  BY <1>1 DEF Computed, IInv, ProgressInv
<1>3. w \in Write /\ w.key \in Key
  <2>1. w \in Write
    BY <1>1, <1>2, ElementOfSeq DEF NextWrite
  <2>. QED  BY <2>1 DEF Write
<1>4. Current(p, w.key) \in Slot
  BY <1>3, CurrentType DEF IInv
<1>5. next.status = "ok" => next.value \in Slot
  BY <1>3, <1>4, OutcomeType DEF Refused
<1>6. runs[n] = RunOf(p)
  BY DEF RunInv, RunOf
<1>7. runs[n + 1] = Contract!Perform(runs[n], w) /\ runs[n] \in Run
  <2>1. /\ \A m \in 1 .. Len(writes[p]) : runs[m] = Contract!Perform(runs[m - 1], writes[p][m])
        /\ \A m \in 0 .. Len(writes[p]) : runs[m] \in Run
    BY <1>1, RunsUnfold
  <2>2. (n + 1) - 1 = n /\ n \in 0 .. Len(writes[p]) /\ w = writes[p][n + 1]
    BY <1>1, <1>2 DEF NextWrite
  <2>. QED  BY <1>2, <2>1, <2>2
<1>8. RunOf(p) \in Run /\ RunOf(p).status = "ok" /\ RunOf(p).view[w.key] = Current(p, w.key)
  <2>1. RunOf(p) \in Run
    BY <1>6, <1>7
  <2>. QED  BY <1>3, <2>1 DEF RunOf
<1>9. Contract!Perform(RunOf(p), w)
        = IF next.status = "ok" THEN Contract!Leaves(RunOf(p), w.key, next.value)
          ELSE Contract!Breaks(RunOf(p), next.status)
  <2>. HIDE DEF w
  <2>. QED  BY <1>3, <1>8, PerformOutcome
<1>. QED  BY <1>1, <1>2, <1>3, <1>5, <1>6, <1>7, <1>9

LEMMA RunAtCompute ==
  ASSUME IInv, RunInv, NEW p \in Proc, Compute(p), ~ \E why : Abort(p, why)
  PROVE  RunInv'
<1>. DEFINE w == NextWrite(p)
            k == w.key
            n == Len(outs[p])
            next == Outcome(w, Current(p, w.key))
            v == next.value
<1>1. pc[p] = "compute" /\ ~ Computed(p) /\ next.status = "ok"
  BY DEF Compute
<1>2. /\ order' = [order EXCEPT ![p] = IF working[p][k] = Unread THEN Append(@, k) ELSE @]
      /\ working' = [working EXCEPT ![p][k] = v]
      /\ outs' = [outs EXCEPT ![p] = Append(@, v)]
      /\ UNCHANGED <<db, pc, writes>>
  BY DEF Compute
<1>3. /\ k \in Key /\ n \in Nat /\ v \in Slot
      /\ Contract!Runs(db, writes[p])[n + 1] = Contract!Leaves(RunOf(p), k, v)
  BY <1>1, NextRun
<1>4. v # Unread
  BY <1>3, StoreAssumption
<1>. HIDE DEF w, k, n, next, v
<1>5. outs'[p] = Append(outs[p], v) /\ Len(outs'[p]) = n + 1
  <2>1. outs'[p] = Append(outs[p], v) /\ outs[p] \in Seq(Slot)
    BY <1>2 DEF IInv, TypeOK
  <2>. QED  BY <1>3, <2>1, AppendProperties DEF n
<1>6. [j \in Key |-> Current(p, j)'] = [[j \in Key |-> Current(p, j)] EXCEPT ![k] = v]
  <2>1. \A j \in Key : Current(p, j)' = IF j = k THEN v ELSE Current(p, j)
    BY <1>2, <1>3, <1>4 DEF Current, IInv, TypeOK
  <2>. QED  BY <1>3, <2>1
<1>7. {order'[p][i] : i \in 1 .. Len(order'[p])}
        = {order[p][i] : i \in 1 .. Len(order[p])} \cup {k}
  <2>1. order[p] \in Seq(Key) /\ Len(order[p]) \in Nat
    BY LenProperties DEF IInv, TypeOK
  <2>2. CASE working[p][k] = Unread
    <3>1. order'[p] = Append(order[p], k)
      BY <1>2, <2>2 DEF IInv, TypeOK
    <3>2. /\ Len(order'[p]) = Len(order[p]) + 1
          /\ \A i \in 1 .. Len(order[p]) : order'[p][i] = order[p][i]
          /\ order'[p][Len(order[p]) + 1] = k
      BY <1>3, <2>1, <3>1, AppendProperties
    <3>. DEFINE m == Len(order[p])
                old == order[p]
                new == order'[p]
    <3>3. /\ m \in Nat /\ Len(new) = m + 1 /\ new[m + 1] = k
          /\ \A i \in 1 .. m : new[i] = old[i]
      BY <2>1, <3>2
    <3>. HIDE DEF m, old, new
    <3>4. {new[i] : i \in 1 .. m + 1} = {old[i] : i \in 1 .. m} \cup {k}
      BY <3>3
    <3>. QED  BY <3>3, <3>4 DEF m, old, new
  <2>3. CASE working[p][k] # Unread
    <3>1. order'[p] = order[p]
      BY <1>2, <2>3 DEF IInv, TypeOK
    <3>2. k \in {order[p][i] : i \in 1 .. Len(order[p])}
      BY <1>3, <2>3 DEF IInv, OrderInv
    <3>. QED  BY <3>1, <3>2
  <2>. QED  BY <2>2, <2>3
<1>8. RunOf(p)' = Contract!Leaves(RunOf(p), k, v)
  <2>1. RunOf(p)' = [status |-> "ok", view |-> [j \in Key |-> Current(p, j)'],
                     keys |-> {order'[p][i] : i \in 1 .. Len(order'[p])}, values |-> outs'[p]]
    BY DEF RunOf
  <2>. QED  BY <1>5, <1>6, <1>7, <2>1 DEF RunOf, Contract!Leaves
<1>9. Contract!Runs(db', writes'[p])[Len(outs'[p])] = RunOf(p)'
  BY <1>2, <1>3, <1>5, <1>8
<1>10. ASSUME NEW q \in Proc, q # p, pc'[q] = "compute" PROVE FALSE
  BY <1>1, <1>2, <1>10 DEF IInv, LockInv
<1>11. ASSUME NEW q \in Proc, pc'[q] = "compute"
       PROVE  Contract!Runs(db', writes'[q])[Len(outs'[q])] = RunOf(q)'
  <2>1. q = p
    BY <1>10, <1>11
  <2>. QED  BY <1>9, <2>1
<1>. QED  BY <1>11 DEF RunInv

LEMMA RunStep == IInv /\ BlankInv /\ RunInv /\ [Next]_vars => RunInv'
<1>. SUFFICES ASSUME IInv, BlankInv, RunInv, [Next]_vars PROVE RunInv'
  OBVIOUS
<1>0. ASSUME UNCHANGED <<db, working, order, outs, writes>>,
             \A q \in Proc : pc'[q] = "compute" => pc[q] = "compute"
      PROVE  RunInv'
  <2>1. \A q \in Proc, k \in Key : Current(q, k)' = Current(q, k)
    BY <1>0 DEF Current
  <2>2. \A q \in Proc : [k \in Key |-> Current(q, k)'] = [k \in Key |-> Current(q, k)]
    BY <2>1
  <2>. QED  BY <1>0, <2>2 DEF RunInv, RunOf
<1>1. ASSUME NEW p \in Proc, Compute(p) PROVE RunInv'
  <2>1. CASE \E why : Abort(p, why)
    BY <1>0, <1>1, <2>1 DEF Compute, Abort, IInv, TypeOK
  <2>. QED  BY <1>1, <2>1, RunAtCompute
<1>2. ASSUME NEW p \in Proc, Check(p) PROVE RunInv'
  <2>1. CASE \E why : Abort(p, why)
    BY <1>0, <2>1 DEF Abort, IInv, TypeOK
  <2>2. CASE ~ \E why : Abort(p, why)
    <3>1. /\ pc[p] = "check" /\ pc' = [pc EXCEPT ![p] = "compute"]
          /\ UNCHANGED <<db, writes, working, order, outs>>
      BY <1>2, <2>2 DEF Check
    <3>2. working[p] = NothingSeen /\ order[p] = <<>> /\ outs[p] = <<>>
      BY <3>1 DEF BlankInv, IInv, ProgressInv
    <3>3. RunOf(p)' = Started(db)
      <4>1. \A k \in Key : Current(p, k)' = db[k]
        BY <3>1, <3>2 DEF Current, NothingSeen
      <4>2. [k \in Key |-> Current(p, k)'] = db
        BY <4>1 DEF IInv, TypeOK
      <4>3. {order'[p][i] : i \in 1 .. Len(order'[p])} = {}
        BY <3>1, <3>2, EmptySeq
      <4>4. outs'[p] = <<>>
        BY <3>1, <3>2
      <4>5. RunOf(p)' = [status |-> "ok", view |-> [k \in Key |-> Current(p, k)'],
                         keys |-> {order'[p][i] : i \in 1 .. Len(order'[p])}, values |-> outs'[p]]
        BY DEF RunOf
      <4>. QED  BY <4>2, <4>3, <4>4, <4>5 DEF Started
    <3>4. Contract!Runs(db, writes[p])[0] = Started(db)
      BY RunsUnfold DEF IInv, TypeOK
    <3>5. Len(outs'[p]) = 0
      BY <3>1, <3>2, EmptySeq
    <3>6. Contract!Runs(db', writes'[p])[Len(outs'[p])] = RunOf(p)'
      BY <3>1, <3>3, <3>4, <3>5
    <3>7. ASSUME NEW q \in Proc, q # p, pc'[q] = "compute" PROVE FALSE
      BY <3>1, <3>7 DEF IInv, TypeOK, LockInv
    <3>8. ASSUME NEW q \in Proc, pc'[q] = "compute"
          PROVE  Contract!Runs(db', writes'[q])[Len(outs'[q])] = RunOf(q)'
      <4>1. q = p
        BY <3>7, <3>8
      <4>. QED  BY <3>6, <4>1
    <3>. QED  BY <3>8 DEF RunInv
  <2>. QED  BY <2>1, <2>2
<1>3. ASSUME NEW p \in Proc, Commit(p) PROVE RunInv'
  <2>1. pc[p] = "compute" /\ pc' = [pc EXCEPT ![p] = "publish"]
    BY <1>3 DEF Commit
  <2>2. \A q \in Proc : pc'[q] # "compute"
    BY <2>1 DEF IInv, TypeOK, LockInv
  <2>. QED  BY <2>2 DEF RunInv
<1>4. ASSUME NEW p \in Proc, Return(p) PROVE RunInv'
  <2>1. ASSUME NEW q \in Proc, pc'[q] = "compute"
        PROVE  /\ pc[q] = "compute" /\ db' = db /\ writes'[q] = writes[q] /\ outs'[q] = outs[q]
               /\ order'[q] = order[q] /\ working'[q] = working[q]
    BY <1>4, <2>1 DEF Return, IInv, TypeOK
  <2>2. ASSUME NEW q \in Proc, pc'[q] = "compute" PROVE RunOf(q)' = RunOf(q)
    <3>1. \A k \in Key : Current(q, k)' = Current(q, k)
      BY <2>1, <2>2 DEF Current
    <3>2. [k \in Key |-> Current(q, k)'] = [k \in Key |-> Current(q, k)]
      BY <3>1
    <3>3. RunOf(q)' = [status |-> "ok", view |-> [k \in Key |-> Current(q, k)'],
                       keys |-> {order'[q][i] : i \in 1 .. Len(order'[q])}, values |-> outs'[q]]
      BY DEF RunOf
    <3>. QED  BY <2>1, <2>2, <3>2, <3>3 DEF RunOf
  <2>. QED  BY <2>1, <2>2 DEF RunInv, RunOf
<1>5. CASE Reopen
  <2>1. \A q \in Proc : pc'[q] # "compute"
    BY <1>5 DEF Reopen
  <2>. QED  BY <2>1 DEF RunInv
<1>6. ASSUME NEW s \in Subscriber, Watch(s) \/ Deliver(s) \/ Leave(s) PROVE RunInv'
  BY <1>0, <1>6, SubscribersLeaveTheStore DEF storeVars
<1>7. CASE UNCHANGED vars
  BY <1>0, <1>7 DEF vars, storeVars
<1>8. ASSUME NEW p \in Proc,
             (\E k \in Key : Get(p, k)) \/ ApplyEmpty(p) \/ BeginWrite(p) \/ Publish(p)
      PROVE RunInv'
  BY <1>0, <1>8 DEF Get, ApplyEmpty, BeginWrite, Publish, IInv, TypeOK
<1>9. ASSUME NEW p \in Proc, NEW list \in WriteLists, Apply(p, list) PROVE RunInv'
  <2>1. /\ pc' = [pc EXCEPT ![p] = "begin"] /\ writes' = [writes EXCEPT ![p] = list]
        /\ UNCHANGED <<db, working, order, outs>>
    BY <1>9 DEF Apply
  <2>2. \A q \in Proc, k \in Key : Current(q, k)' = Current(q, k)
    BY <2>1 DEF Current
  <2>3. \A q \in Proc : [k \in Key |-> Current(q, k)'] = [k \in Key |-> Current(q, k)]
    BY <2>2
  <2>4. \A q \in Proc : pc'[q] = "compute" => pc[q] = "compute" /\ writes'[q] = writes[q]
    BY <2>1 DEF IInv, TypeOK
  <2>. QED  BY <2>1, <2>3, <2>4 DEF RunInv, RunOf
<1>. QED  BY <1>1, <1>2, <1>3, <1>4, <1>5, <1>6, <1>7, <1>8, <1>9 DEF Next, Handler, Inside

-----------------------------------------------------------------------------
(* Each step is a step of the contract, or none.                           *)

\* Where the contract sees the threads, when one of them moves.
LEMMA PhasesMove ==
  ASSUME TypeOK, NEW p \in Proc, NEW at, pc' = [pc EXCEPT ![p] = at]
  PROVE  /\ Phases' = [Phases EXCEPT ![p] = PhaseAt(at)]
         /\ Phases[p] = PhaseAt(pc[p])
<1>1. Phases' = [q \in Proc |-> PhaseAt(pc'[q])]
  BY DEF Phases
<1>2. \A q \in Proc : pc'[q] = IF q = p THEN at ELSE pc[q]
  BY DEF TypeOK
<1>3. \A q \in Proc : PhaseAt(pc'[q]) = IF q = p THEN PhaseAt(at) ELSE Phases[q]
  BY <1>2 DEF Phases
<1>4. Phases' = [q \in Proc |-> IF q = p THEN PhaseAt(at) ELSE Phases[q]]
  BY <1>1, <1>3, Zenon
<1>5. [Phases EXCEPT ![p] = PhaseAt(at)] = [q \in Proc |-> IF q = p THEN PhaseAt(at) ELSE Phases[q]]
  BY DEF Phases
<1>6. Phases[p] = PhaseAt(pc[p])
  BY DEF Phases
<1>. QED  BY <1>4, <1>5, <1>6

\* A move inside a phase is no move of the contract.
LEMMA PhasesStay ==
  ASSUME TypeOK, NEW p \in Proc, NEW at, pc' = [pc EXCEPT ![p] = at],
         PhaseAt(at) = PhaseAt(pc[p])
  PROVE  Phases' = Phases
<1>1. Phases' = [Phases EXCEPT ![p] = Phases[p]]
  BY PhasesMove
<1>. QED  BY <1>1 DEF Phases

LEMMA PhaseNames ==
  /\ PhaseAt("idle") = "reading"
  /\ PhaseAt("begin") = "called" /\ PhaseAt("check") = "called" /\ PhaseAt("compute") = "called"
  /\ PhaseAt("publish") = "answered" /\ PhaseAt("done") = "answered"
BY DEF PhaseAt

\* The contract's fresh reads are those the check found current.
LEMMA FreshReads ==
  ASSUME NEW p \in Proc
  PROVE  Contract!Fresh(p) <=> StaleReads(p) = {}
BY DEF Contract!Fresh, StaleReads

(* A refusal is the contract's, when a read was stale.                     *)
LEMMA CheckImplements ==
  ASSUME IInv, NEW p \in Proc, Check(p)
  PROVE  Contract!Next \/ UNCHANGED Contract!avars
<1>1. CASE StaleReads(p) # {} /\ Abort(p, "conflict")
  <2>1. /\ pc[p] = "check" /\ pc' = [pc EXCEPT ![p] = "done"]
        /\ answer' = [answer EXCEPT ![p] = [status |-> "conflict"]]
        /\ UNCHANGED <<db, seq, seen, writes>>
    BY <1>1 DEF Check, Abort, Refused
  <2>2. Phases[p] = "called" /\ Phases' = [Phases EXCEPT ![p] = "answered"]
    <3>1. Phases' = [Phases EXCEPT ![p] = PhaseAt("done")] /\ Phases[p] = PhaseAt(pc[p])
      BY <2>1, PhasesMove DEF IInv
    <3>. QED  BY <2>1, <3>1, PhaseNames
  <2>3. ~ Contract!Fresh(p)
    BY <1>1, FreshReads
  <2>4. Contract!Refuse(p)
    BY <2>1, <2>2, <2>3 DEF Contract!Refuse, Contract!Answers
  <2>. QED  BY <2>4 DEF Contract!Next
<1>2. CASE ~ (StaleReads(p) # {} /\ Abort(p, "conflict"))
  <2>1. /\ pc[p] = "check" /\ pc' = [pc EXCEPT ![p] = "compute"]
        /\ UNCHANGED <<db, seq, seen, writes, answer>>
    BY <1>2 DEF Check
  <2>2. PhaseAt("compute") = PhaseAt(pc[p])
    BY <2>1, PhaseNames
  <2>3. Phases' = Phases
    BY <2>1, <2>2, PhasesStay DEF IInv
  <2>. QED  BY <2>1, <2>3 DEF Contract!avars
<1>. QED  BY <1>1, <1>2

(* A failing write is the contract's whole transaction failing.            *)
LEMMA ComputeImplements ==
  ASSUME IInv, RunInv, NEW p \in Proc, Compute(p)
  PROVE  Contract!Next \/ UNCHANGED Contract!avars
<1>. DEFINE w == NextWrite(p)
            n == Len(outs[p])
            next == Outcome(w, Current(p, w.key))
            why == next.status
<1>1. CASE next.status # "ok" /\ Abort(p, next.status)
  <2>1. /\ pc[p] = "compute" /\ ~ Computed(p) /\ pc' = [pc EXCEPT ![p] = "done"]
        /\ answer' = [answer EXCEPT ![p] = [status |-> why]]
        /\ UNCHANGED <<db, seq, seen, writes>>
    BY <1>1 DEF Compute, Abort, Refused
  <2>2. /\ n \in Nat /\ n + 1 \in 1 .. Len(writes[p])
        /\ db \in [Key -> Slot] /\ writes[p] \in Seq(Write)
        /\ Contract!Runs(db, writes[p])[n + 1]
             = IF next.status = "ok" THEN Contract!Leaves(RunOf(p), w.key, next.value)
               ELSE Contract!Breaks(RunOf(p), next.status)
    BY <2>1, NextRun
  <2>. HIDE DEF w, n, next
  <2>3. Contract!Runs(db, writes[p])[n + 1].status = why /\ why # "ok"
    BY <1>1, <2>2 DEF Contract!Breaks
  <2>4. n + 1 \in 0 .. Len(writes[p])
    BY <2>2
  <2>. HIDE DEF why
  <2>5. Contract!RunOn(db, writes[p]).status = why
    BY <2>2, <2>3, <2>4, FailureStays
  <2>6. Phases[p] = "called" /\ Phases' = [Phases EXCEPT ![p] = "answered"]
    <3>1. Phases' = [Phases EXCEPT ![p] = PhaseAt("done")] /\ Phases[p] = PhaseAt(pc[p])
      BY <2>1, PhasesMove DEF IInv
    <3>. QED  BY <2>1, <3>1, PhaseNames
  <2>7. Contract!Fresh(p)
    BY <2>1, FreshReads DEF IInv, ReadsInv
  <2>8. Contract!Execute(p)
    BY <2>1, <2>3, <2>5, <2>6, <2>7 DEF Contract!Execute, Contract!Answers
  <2>. QED  BY <2>8 DEF Contract!Next
<1>2. CASE ~ (next.status # "ok" /\ Abort(p, next.status))
  <2>1. UNCHANGED <<db, seq, pc, seen, writes, answer>>
    BY <1>2 DEF Compute
  <2>. QED  BY <2>1 DEF Contract!avars, Phases
<1>. QED  BY <1>1, <1>2

(* The positions spent are one for each key written.                       *)
LEMMA KeysCounted ==
  ASSUME IInv, NEW p \in Proc
  PROVE  Cardinality({order[p][i] : i \in 1 .. Len(order[p])}) = Len(order[p])
<1>. DEFINE m == Len(order[p])
            o == order[p]
            K == {o[i] : i \in 1 .. m}
            f == [i \in 1 .. m |-> o[i]]
<1>1. m \in Nat
  BY LenProperties DEF IInv, TypeOK
<1>2. \A i, j \in 1 .. m : o[i] = o[j] => i = j
  BY DEF IInv, OrderInv
<1>. HIDE DEF m, o
<1>3. f \in Bijection(1 .. m, K)
  <2>1. f \in Injection(1 .. m, K)
    BY <1>2, Zenon DEF Injection, IsInjective
  <2>2. \A t \in K : \E s \in 1 .. m : f[s] = t
    OBVIOUS
  <2>3. f \in Surjection(1 .. m, K)
    BY <2>2, Zenon DEF Surjection
  <2>. QED  BY <2>1, <2>3 DEF Bijection
<1>4. Cardinality(K) = m
  <2>1. ExistsBijection(1 .. m, K)
    BY <1>3 DEF ExistsBijection
  <2>. HIDE DEF K
  <2>. QED  BY <1>1, <2>1, FS_CountingElements
<1>. QED  BY <1>4 DEF K, m, o

(* The commit is the contract's indivisible step.                          *)
LEMMA CommitImplements ==
  ASSUME IInv, RunInv, NEW p \in Proc, Commit(p)
  PROVE  Contract!Next
<1>. DEFINE run == Contract!RunOn(db, writes[p])
            keys == {order[p][i] : i \in 1 .. Len(order[p])}
<1>1. /\ pc[p] = "compute" /\ Computed(p) /\ pc' = [pc EXCEPT ![p] = "publish"]
      /\ db' = [k \in Key |-> Current(p, k)]
      /\ seq' = seq + Len(order[p])
      /\ answer' = [answer EXCEPT ![p] = [status |-> "ok", seq |-> seq + Len(order[p]),
                                          values |-> outs[p]]]
      /\ UNCHANGED <<seen, writes>>
  BY DEF Commit, Applied
<1>2. run = RunOf(p)
  BY <1>1 DEF RunInv, Contract!RunOn, Computed
<1>3. run.status = "ok" /\ run.view = db' /\ run.keys = keys /\ run.values = outs[p]
  BY <1>1, <1>2 DEF RunOf
<1>4. seq' = seq + Cardinality(run.keys)
  BY <1>1, <1>3, KeysCounted
<1>5. answer' = [answer EXCEPT ![p] = [status |-> "ok", seq |-> seq', values |-> run.values]]
  BY <1>1, <1>3
<1>6. Phases[p] = "called" /\ Phases' = [Phases EXCEPT ![p] = "answered"]
  <2>1. Phases' = [Phases EXCEPT ![p] = PhaseAt("publish")] /\ Phases[p] = PhaseAt(pc[p])
    BY <1>1, PhasesMove DEF IInv
  <2>. QED  BY <1>1, <2>1, PhaseNames
<1>7. Contract!Fresh(p)
  BY <1>1, FreshReads DEF IInv, ReadsInv
<1>8. Contract!Execute(p)
  <2>1. Contract!Answers(p, [status |-> "ok", seq |-> seq', values |-> run.values])
    BY <1>1, <1>5, <1>6 DEF Contract!Answers
  <2>2. run.status = "ok" /\ db' = run.view
    BY <1>3
  <2>3. Cardinality(run.keys) = Contract!Cardinality(run.keys)
    BY DEF Cardinality, Contract!Cardinality
  <2>. HIDE DEF run
  <2>4. seq' = seq + Contract!Cardinality(run.keys)
    BY <1>4, <2>3
  <2>. QED  BY <2>4, <1>6, <1>7, <2>1, <2>2, Zenon DEF Contract!Execute, run
<1>. QED  BY <1>8 DEF Contract!Next

LEMMA StepImplements ==
  IInv /\ RunInv /\ LatestInv /\ [Next]_vars => [Contract!Next]_(Contract!avars)
<1>. SUFFICES ASSUME IInv, RunInv, LatestInv, [Next]_vars
              PROVE  Contract!Next \/ UNCHANGED Contract!avars
  OBVIOUS
<1>0. TypeOK
  BY DEF IInv
<1>1. ASSUME NEW p \in Proc, NEW k \in Key, Get(p, k) PROVE Contract!Next
  <2>1. Phases[p] = "reading" /\ Phases' = Phases
    BY <1>1, PhaseNames DEF Get, Phases
  <2>2. Contract!Get(p, k)
    BY <1>1, <2>1 DEF Get, Contract!Get
  <2>. QED  BY <2>2 DEF Contract!Next
<1>2. ASSUME NEW p \in Proc, ApplyEmpty(p) PROVE Contract!Next
  <2>1. Phases[p] = "reading" /\ Phases' = [Phases EXCEPT ![p] = "answered"]
    <3>1. pc' = [pc EXCEPT ![p] = "done"] /\ pc[p] = "idle"
      BY <1>2 DEF ApplyEmpty
    <3>2. Phases' = [Phases EXCEPT ![p] = PhaseAt("done")] /\ Phases[p] = PhaseAt(pc[p])
      BY <1>0, <3>1, PhasesMove
    <3>. QED  BY <3>1, <3>2, PhaseNames
  <2>2. latest \in 0 .. seq
    BY <1>0 DEF LatestInv, TypeOK, FanoutTypeOK
  <2>3. Contract!Nothing(p)
    BY <1>2, <2>1, <2>2 DEF ApplyEmpty, Applied, Contract!Nothing, Contract!Answers
  <2>. QED  BY <2>3 DEF Contract!Next
<1>3. ASSUME NEW p \in Proc, NEW list \in WriteLists, Apply(p, list) PROVE Contract!Next
  <2>1. Phases[p] = "reading" /\ Phases' = [Phases EXCEPT ![p] = "called"]
    <3>1. pc' = [pc EXCEPT ![p] = "begin"] /\ pc[p] = "idle"
      BY <1>3 DEF Apply
    <3>2. Phases' = [Phases EXCEPT ![p] = PhaseAt("begin")] /\ Phases[p] = PhaseAt(pc[p])
      BY <1>0, <3>1, PhasesMove
    <3>. QED  BY <3>1, <3>2, PhaseNames
  <2>2. Contract!Call(p, list)
    BY <1>3, <2>1 DEF Apply, Contract!Call
  <2>. QED  BY <2>2 DEF Contract!Next
<1>4. ASSUME NEW p \in Proc, BeginWrite(p) PROVE UNCHANGED Contract!avars
  <2>1. PhaseAt("check") = PhaseAt(pc[p]) /\ pc' = [pc EXCEPT ![p] = "check"]
    BY <1>4, PhaseNames DEF BeginWrite
  <2>2. Phases' = Phases
    BY <1>0, <2>1, PhasesStay
  <2>. QED  BY <1>4, <2>2 DEF BeginWrite, Contract!avars
<1>5. ASSUME NEW p \in Proc, Publish(p) PROVE UNCHANGED Contract!avars
  <2>1. PhaseAt("done") = PhaseAt(pc[p]) /\ pc' = [pc EXCEPT ![p] = "done"]
    BY <1>5, PhaseNames DEF Publish
  <2>2. Phases' = Phases
    BY <1>0, <2>1, PhasesStay
  <2>. QED  BY <1>5, <2>2 DEF Publish, Contract!avars
<1>6. ASSUME NEW p \in Proc, Return(p) PROVE Contract!Next
  <2>1. Phases[p] = "answered" /\ Phases' = [Phases EXCEPT ![p] = "reading"]
    <3>1. pc' = [pc EXCEPT ![p] = "idle"] /\ pc[p] = "done"
      BY <1>6 DEF Return
    <3>2. Phases' = [Phases EXCEPT ![p] = PhaseAt("idle")] /\ Phases[p] = PhaseAt(pc[p])
      BY <1>0, <3>1, PhasesMove
    <3>. QED  BY <3>1, <3>2, PhaseNames
  <2>2. Contract!Finish(p)
    BY <1>6, <2>1 DEF Return, Contract!Finish, NothingSeen, NoAnswer
  <2>. QED  BY <2>2 DEF Contract!Next
<1>7. CASE Reopen
  <2>1. Phases' = [p \in Proc |-> "reading"]
    BY <1>7, PhaseNames DEF Reopen, Phases
  <2>2. Contract!Die
    BY <1>7, <2>1 DEF Reopen, Contract!Die, NothingSeen, NoAnswer
  <2>. QED  BY <2>2 DEF Contract!Next
<1>8. ASSUME NEW s \in Subscriber, Watch(s) \/ Deliver(s) \/ Leave(s)
      PROVE  UNCHANGED Contract!avars
  BY <1>8, SubscribersLeaveTheStore DEF storeVars, Contract!avars, Phases
<1>9. CASE UNCHANGED vars
  BY <1>9 DEF vars, storeVars, Contract!avars, Phases
<1>. QED  BY <1>1, <1>2, <1>3, <1>4, <1>5, <1>6, <1>7, <1>8, <1>9, CheckImplements,
             ComputeImplements, CommitImplements DEF Next, Handler, Inside

(* The threads, the lock, the phases, the announcements and the crashes    *)
(* give a handler what the trait promises: its writes are one indivisible  *)
(* step over reads that are still current, or nothing, for every number of *)
(* threads, keys and writes.                                               *)
THEOREM ContractKept == Spec => ImplementsContract
<1>1. Init => BlankInv /\ RunInv /\ LatestInv /\ Contract!Init
  <2>. SUFFICES ASSUME Init PROVE BlankInv /\ RunInv /\ LatestInv /\ Contract!Init
    OBVIOUS
  <2>1. BlankInv /\ RunInv /\ LatestInv
    BY DEF Init, FanoutInit, BlankInv, RunInv, LatestInv
  <2>2. Phases = [p \in Proc |-> "reading"]
    BY PhaseNames DEF Init, Phases
  <2>3. Contract!Init
    BY <2>2 DEF Init, Contract!Init, NothingSeen, NoAnswer
  <2>. QED  BY <2>1, <2>3
<1>2. IInv /\ BlankInv /\ RunInv /\ LatestInv /\ [Next]_vars
        => BlankInv' /\ RunInv' /\ LatestInv'
  BY BlankStep, RunStep, LatestStep DEF IInv
<1>. QED  BY <1>1, <1>2, StepImplements, Invariance, PTL
          DEF Spec, ImplementsContract, Contract!Spec

=============================================================================
