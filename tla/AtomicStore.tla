---------------------------- MODULE AtomicStore ----------------------------
(***************************************************************************)
(* What zdc-store promises a handler (trait DurableStore,                  *)
(* src/crates/zdc-store/src/lib.rs): `get` reads one key, and `apply` is   *)
(* one indivisible step that either commits every write in order over      *)
(* reads that are still current, or changes nothing at all.                *)
(*                                                                         *)
(* The writes are folded over the table in one step (Transactions), so     *)
(* this module says what a call does without saying how it is computed.    *)
(***************************************************************************)
EXTENDS Transactions, FiniteSets

CONSTANTS Key, Unread, Proc, WriteLists, MaxSeq

VARIABLES
  db,      \* the committed value of every key
  seq,     \* the store's single position counter
  phase,   \* where each handler is: reading, called, answered
  seen,    \* what it has read
  writes,  \* the writes it asked for
  answer   \* what it was told

avars == <<db, seq, phase, seen, writes, answer>>

Fresh(p) == \A k \in Key : seen[p][k] \in {Unread, db[k]}

Init ==
  /\ db = [k \in Key |-> None]
  /\ seq = 0
  /\ phase = [p \in Proc |-> "reading"]
  /\ seen = [p \in Proc |-> [k \in Key |-> Unread]]
  /\ writes = [p \in Proc |-> <<>>]
  /\ answer = [p \in Proc |-> [status |-> "none"]]

Get(p, k) ==
  /\ phase[p] = "reading" /\ seen[p][k] = Unread
  /\ seen' = [seen EXCEPT ![p][k] = db[k]]
  /\ UNCHANGED <<db, seq, phase, writes, answer>>

Call(p, list) ==
  /\ phase[p] = "reading" /\ seq < MaxSeq
  /\ phase' = [phase EXCEPT ![p] = "called"]
  /\ writes' = [writes EXCEPT ![p] = list]
  /\ UNCHANGED <<db, seq, seen, answer>>

Answers(p, what) ==
  /\ phase' = [phase EXCEPT ![p] = "answered"]
  /\ answer' = [answer EXCEPT ![p] = what]
  /\ UNCHANGED <<seen, writes>>

\* Condition 4: a read-only handler moves nothing, whatever it read.
Nothing(p) ==
  /\ phase[p] = "reading"
  /\ \E position \in 0 .. seq :
       Answers(p, [status |-> "ok", seq |-> position, values |-> <<>>])
  /\ UNCHANGED <<db, seq>>

\* Condition 3: a key changed since it was read, so nothing is applied.
Refuse(p) ==
  /\ phase[p] = "called" /\ ~Fresh(p)
  /\ Answers(p, [status |-> "conflict"])
  /\ UNCHANGED <<db, seq>>

\* Conditions 1 and 2: every write in order, or none and no position spent.
Execute(p) ==
  /\ phase[p] = "called" /\ Fresh(p)
  /\ LET run == RunOn(db, writes[p])
     IN \/ /\ run.status # "ok"
           /\ Answers(p, [status |-> run.status])
           /\ UNCHANGED <<db, seq>>
        \/ /\ run.status = "ok"
           /\ db' = run.view
           /\ seq' = seq + Cardinality(run.keys)
           /\ Answers(p, [status |-> "ok", seq |-> seq', values |-> run.values])

Finish(p) ==
  /\ phase[p] = "answered"
  /\ phase' = [phase EXCEPT ![p] = "reading"]
  /\ seen' = [seen EXCEPT ![p] = [k \in Key |-> Unread]]
  /\ writes' = [writes EXCEPT ![p] = <<>>]
  /\ answer' = [answer EXCEPT ![p] = [status |-> "none"]]
  /\ UNCHANGED <<db, seq>>

\* The process dies: every handler is forgotten, every commit is kept.
Die ==
  /\ phase' = [p \in Proc |-> "reading"]
  /\ seen' = [p \in Proc |-> [k \in Key |-> Unread]]
  /\ writes' = [p \in Proc |-> <<>>]
  /\ answer' = [p \in Proc |-> [status |-> "none"]]
  /\ UNCHANGED <<db, seq>>

Next ==
  \/ \E p \in Proc :
       \/ \E k \in Key : Get(p, k)
       \/ Nothing(p)
       \/ \E list \in WriteLists : Call(p, list)
       \/ Refuse(p) \/ Execute(p) \/ Finish(p)
  \/ Die

Spec == Init /\ [][Next]_avars
=============================================================================
