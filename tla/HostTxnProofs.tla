--------------------------- MODULE HostTxnProofs ---------------------------
(***************************************************************************)
(* HostTxn for any set of threads, keys and requests and any number of     *)
(* attempts: a conflict is always somebody else's progress, and a blind    *)
(* write never meets one.                                                  *)
(***************************************************************************)
EXTENDS HostTxn, ListsProofs, TLAPS

\* What a recording is, as far as EXCEPT needs to know.
Recording(record) ==
  /\ DOMAIN record = {"reads", "view", "writes"}
  /\ DOMAIN record.reads = Key

Shape ==
  /\ DOMAIN pending = Proc /\ DOMAIN answer = Proc
  /\ DOMAIN request = Proc
  /\ \A p \in Proc : Recording(pending[p])
  /\ phase \in [Proc -> {"idle", "running", "done"}]
  /\ attempt \in [Proc -> 1 .. ATTEMPTS]
  /\ position \in [Proc -> Nat]
  /\ rivals \in [Proc -> Nat]
  /\ \A p \in Proc : Len(request[p].calls) \in Nat /\ position[p] <= Len(request[p].calls)

\* Every key p read holds what p read there.
Fresh(p) == \A k \in Key : pending[p].reads[k] \in {Unread, db[k]}

\* A run that met no commit of another since the last conflict is fresh.
Progress ==
  \A p \in Proc :
    /\ phase[p] = "running" =>
         /\ rivals[p] >= attempt[p] - 1
         /\ rivals[p] = attempt[p] - 1 => Fresh(p)
    /\ answer[p].status = "contended" => phase[p] = "done" /\ rivals[p] >= ATTEMPTS

\* A blind handler reads nothing, so it is on its first run.
BlindReadsNothing ==
  \A p \in Proc : Blind(request[p]) =>
    /\ attempt[p] = 1
    /\ answer[p].status # "contended"
    /\ phase[p] = "running" => \A k \in Key : pending[p].reads[k] = Unread

IInv == Shape /\ Progress /\ BlindReadsNothing

LEMMA NoPendingIsBlank ==
  Recording(NoPending) /\ \A k \in Key : NoPending.reads[k] = Unread
BY DEF Recording, NoPending

LEMMA InitIInv == ASSUME Init PROVE IInv
<1>1. Len(NoRequest.calls) = 0
  BY DEF NoRequest
<1>2. \A p \in Proc : request[p] = NoRequest /\ answer[p].status = "ok" /\ pending[p] = NoPending
  BY DEF Init, Null
<1>3. Shape
  BY <1>1, <1>2, NoPendingIsBlank, HostAssumption DEF Init, Shape
<1>4. Progress /\ BlindReadsNothing
  BY <1>2, HostAssumption DEF Init, Progress, BlindReadsNothing
<1> QED BY <1>3, <1>4 DEF IInv

-----------------------------------------------------------------------------
(* What a native call records.                                             *)

\* A recorded read is of the store as it is; what was read before stays.
LEMMA RecordedReads ==
  ASSUME NEW p, NEW k, Recording(pending[p])
  PROVE  /\ Recording(Recorded(p, k))
         /\ \A j \in Key : Recorded(p, k).reads[j] \in {pending[p].reads[j], db[j]}
BY DEF Recording, Recorded

\* A write of the recording store leaves its reads alone.
LEMMA WroteReads ==
  ASSUME NEW record, NEW w, NEW v, Recording(record)
  PROVE  Recording(Wrote(record, w, v)) /\ Wrote(record, w, v).reads = record.reads
BY DEF Recording, Wrote

\* A native call adds to the reads only what the store holds, and the blind
\* verbs add nothing.
LEMMA NativeReads ==
  ASSUME NEW p, NEW call, Recording(pending[p]), ~Native(p, call).failed
  PROVE  LET record == Native(p, call).record
         IN  /\ Recording(record)
             /\ \A k \in Key : record.reads[k] \in {pending[p].reads[k], db[k]}
             /\ call.verb \in {"set", "incr", "delete"} => record.reads = pending[p].reads
<1>1. CASE call.verb = "get"
  BY <1>1, RecordedReads DEF Native, Getting, Gives
<1>2. CASE call.verb = "set"
  BY <1>2, WroteReads DEF Native, Setting, Gives
<1>3. CASE call.verb = "delete"
  BY <1>3, WroteReads DEF Native, Deleting, Gives
<1>4. CASE call.verb = "incr"
  <2>1. Native(p, call).record
          = [pending[p] EXCEPT !.writes = Append(@, Incr(call.key, call.arg))]
    BY <1>4 DEF Native, Incrementing, Gives, Fails
  <2> QED BY <2>1 DEF Recording
<1>5. CASE call.verb \notin {"get", "set", "delete", "incr"}
  <2> DEFINE next == Changed(call, Items(Peek(p, call.key)))
  <2>1. Native(p, call).record = Wrote(Recorded(p, call.key), Set(call.key, next), next)
    BY <1>5 DEF Native, Changing, Gives, Fails
  <2> QED BY <1>5, <2>1, RecordedReads, WroteReads
<1> QED BY <1>1, <1>2, <1>3, <1>4, <1>5

-----------------------------------------------------------------------------
(* Each step.                                                              *)

\* What a step of p leaves of every other invocation.
OthersKept(p) ==
  \A q \in Proc \ {p} :
    /\ request'[q] = request[q] /\ phase'[q] = phase[q] /\ attempt'[q] = attempt[q]
    /\ position'[q] = position[q] /\ pending'[q] = pending[q] /\ answer'[q] = answer[q]

Domains ==
  /\ DOMAIN pending' = Proc /\ DOMAIN answer' = Proc /\ DOMAIN request' = Proc
  /\ phase' \in [Proc -> {"idle", "running", "done"}]
  /\ attempt' \in [Proc -> 1 .. ATTEMPTS]
  /\ position' \in [Proc -> Nat]
  /\ rivals' \in [Proc -> Nat]

\* A step of p that commits nothing keeps the invariant of the others.
LEMMA Local ==
  ASSUME IInv, NEW p \in Proc, Domains, OthersKept(p),
         db' = db, \A q \in Proc \ {p} : rivals'[q] = rivals[q],
         Recording(pending'[p]),
         Len(request'[p].calls) \in Nat, position'[p] <= Len(request'[p].calls),
         phase'[p] = "running" =>
           /\ rivals'[p] >= attempt'[p] - 1
           /\ rivals'[p] = attempt'[p] - 1 => Fresh(p)',
         answer'[p].status = "contended" => phase'[p] = "done" /\ rivals'[p] >= ATTEMPTS,
         Blind(request[p])' =>
           /\ attempt'[p] = 1
           /\ answer'[p].status # "contended"
           /\ phase'[p] = "running" => \A k \in Key : pending'[p].reads[k] = Unread
  PROVE  IInv'
<1>1. Shape'
  BY DEF IInv, Shape, Domains, OthersKept
<1>2. Progress'
  BY DEF IInv, Progress, OthersKept, Fresh
<1>3. BlindReadsNothing'
  BY DEF IInv, BlindReadsNothing, OthersKept, Blind
<1> QED BY <1>1, <1>2, <1>3 DEF IInv

LEMMA ArriveKeeps ==
  ASSUME IInv, NEW p \in Proc, NEW r \in Invocations, Arrive(p, r) PROVE IInv'
<1>1. /\ request'[p] = r /\ attempt'[p] = 1 /\ position'[p] = 0 /\ rivals'[p] = 0
      /\ pending'[p] = NoPending /\ db' = db /\ phase[p] = "idle"
      /\ \A q \in Proc \ {p} : rivals'[q] = rivals[q]
  BY DEF Arrive, IInv, Shape
<1>2. Domains /\ OthersKept(p)
  <2>1. 1 \in 1 .. ATTEMPTS
    BY HostAssumption
  <2> QED BY <2>1 DEF Arrive, IInv, Shape, Domains, OthersKept
<1>3. answer'[p].status # "contended"
  BY <1>1 DEF Arrive, IInv, Shape, Progress, Null, Refusal
<1> QED BY <1>1, <1>2, <1>3, Local, NoPendingIsBlank, HostAssumption DEF Fresh

\* Answering: the recording is dropped, and what was refused was contended
\* for as many runs as there are attempts.
LEMMA RespondKeeps ==
  ASSUME IInv, NEW p \in Proc, NEW what, Respond(p, what),
         db' = db, rivals' = rivals,
         what.status = "contended" => rivals[p] >= ATTEMPTS /\ ~Blind(request[p]),
         phase[p] = "running"
  PROVE  IInv'
<1>1. /\ phase'[p] = "done" /\ answer'[p] = what /\ pending'[p] = NoPending
      /\ UNCHANGED <<request, attempt, position>>
  BY DEF Respond, IInv, Shape
<1>2. Domains /\ OthersKept(p)
  BY DEF Respond, IInv, Shape, Domains, OthersKept
<1>3. Len(request'[p].calls) \in Nat /\ position'[p] <= Len(request'[p].calls)
  BY <1>1 DEF IInv, Shape
<1>4. Blind(request[p])' => attempt'[p] = 1 /\ answer'[p].status # "contended"
  BY <1>1 DEF IInv, BlindReadsNothing
<1> QED BY <1>1, <1>2, <1>3, <1>4, Local, NoPendingIsBlank

LEMMA RunOneKeeps == ASSUME IInv, NEW p \in Proc, RunOne(p) PROVE IInv'
<1> DEFINE call == request[p].calls[position[p] + 1]
           result == Native(p, call)
<1>1. phase[p] = "running" /\ db' = db /\ rivals' = rivals
  BY DEF RunOne
<1>2. CASE result.failed /\ Respond(p, Refusal("failed"))
  BY <1>1, <1>2, RespondKeeps DEF Refusal
<1>3. CASE ~(result.failed /\ Respond(p, Refusal("failed")))
  <2>1. /\ ~result.failed
        /\ pending' = [pending EXCEPT ![p] = result.record]
        /\ position' = [position EXCEPT ![p] = @ + 1]
        /\ UNCHANGED <<phase, request, attempt, answer>>
    BY <1>3 DEF RunOne
  <2>2. position[p] + 1 \in 1 .. Len(request[p].calls)
    BY DEF RunOne, MadeAllCalls, IInv, Shape
  <2>3. /\ Recording(result.record)
        /\ \A k \in Key : result.record.reads[k] \in {pending[p].reads[k], db[k]}
        /\ call.verb \in {"set", "incr", "delete"} => result.record.reads = pending[p].reads
    BY <2>1, NativeReads DEF IInv, Shape
  <2>4. pending'[p] = result.record /\ position'[p] = position[p] + 1
    BY <2>1 DEF IInv, Shape
  <2>5. Domains /\ OthersKept(p)
    BY <1>1, <2>1 DEF IInv, Shape, Domains, OthersKept
  <2>6. /\ rivals'[p] >= attempt'[p] - 1
        /\ rivals'[p] = attempt'[p] - 1 => Fresh(p)'
    BY <1>1, <2>1, <2>3, <2>4 DEF IInv, Progress, Fresh
  <2>7. answer'[p].status # "contended"
    BY <1>1, <2>1 DEF IInv, Progress
  <2>8. Blind(request[p])' => attempt'[p] = 1 /\ \A k \in Key : pending'[p].reads[k] = Unread
    BY <1>1, <2>1, <2>2, <2>3, <2>4 DEF IInv, BlindReadsNothing, Blind
  <2>9. Len(request'[p].calls) \in Nat /\ position'[p] <= Len(request'[p].calls)
    BY <2>1, <2>2, <2>4 DEF IInv, Shape
  <2>10. Recording(pending'[p])
    BY <2>3, <2>4
  <2> HIDE DEF result, call
  <2> QED BY <1>1, <2>5, <2>6, <2>7, <2>8, <2>9, <2>10, Local
<1> QED BY <1>2, <1>3

\* A stale recording means a commit since the run began.
LEMMA StaleMeansRivals ==
  ASSUME IInv, NEW p \in Proc, phase[p] = "running", Stale(p)
  PROVE  rivals[p] >= attempt[p] /\ ~Blind(request[p])
<1>1. attempt[p] \in Nat /\ rivals[p] \in Nat
  BY DEF IInv, Shape
<1>2. ~Fresh(p) /\ rivals[p] >= attempt[p] - 1 /\ rivals[p] # attempt[p] - 1
  BY DEF IInv, Progress, Fresh, Stale
<1>3. ~Blind(request[p])
  BY DEF IInv, BlindReadsNothing, Stale
<1> QED BY <1>1, <1>2, <1>3

LEMMA RerunKeeps == ASSUME IInv, NEW p \in Proc, Rerun(p) PROVE IInv'
<1>1. /\ phase[p] = "running" /\ Stale(p) /\ attempt[p] < ATTEMPTS /\ attempt[p] \in Nat
      /\ attempt'[p] = attempt[p] + 1 /\ position'[p] = 0 /\ pending'[p] = NoPending
      /\ UNCHANGED <<db, phase, request, answer, rivals>>
  BY DEF Rerun, Committing, IInv, Shape
<1>2. rivals[p] >= attempt[p] /\ ~Blind(request[p])
  BY <1>1, StaleMeansRivals
<1>3. Domains /\ OthersKept(p)
  BY HostAssumption, <1>1 DEF Rerun, IInv, Shape, Domains, OthersKept
<1>4. Len(request'[p].calls) \in Nat /\ answer'[p].status # "contended"
  BY <1>1 DEF IInv, Shape, Progress
<1>5. rivals'[p] >= attempt'[p] - 1
  BY <1>1, <1>2
<1>6. Fresh(p)'
  BY <1>1, NoPendingIsBlank DEF Fresh
<1>7. ~Blind(request[p])'
  BY <1>1, <1>2
<1> QED BY <1>1, <1>3, <1>4, <1>5, <1>6, <1>7, Local, NoPendingIsBlank

LEMMA GiveUpKeeps == ASSUME IInv, NEW p \in Proc, GiveUp(p) PROVE IInv'
<1>1. phase[p] = "running" /\ Stale(p) /\ attempt[p] = ATTEMPTS /\ db' = db /\ rivals' = rivals
  BY HostAssumption DEF GiveUp, Committing, IInv, Shape
<1>2. rivals[p] >= ATTEMPTS /\ ~Blind(request[p])
  BY <1>1, StaleMeansRivals
<1> QED BY <1>1, <1>2, RespondKeeps DEF GiveUp

\* A commit is one more commit of another for everybody else, so nobody
\* else needs to be fresh.
LEMMA CommitKeeps == ASSUME IInv, NEW p \in Proc, Commit(p) PROVE IInv'
<1> DEFINE run == RunOn(db, pending[p].writes)
<1>1. phase[p] = "running"
  BY DEF Commit, Committing
<1>2. CASE run.status # "ok" /\ Respond(p, Refusal("failed")) /\ UNCHANGED <<db, rivals>>
  BY <1>1, <1>2, RespondKeeps DEF Refusal
<1>3. CASE /\ rivals' = [q \in Proc |-> IF q = p THEN rivals[q] ELSE rivals[q] + 1]
           /\ Respond(p, CommandAnswer(p, run.values))
  <2>1. /\ phase'[p] = "done" /\ answer'[p] = CommandAnswer(p, run.values)
        /\ pending'[p] = NoPending /\ UNCHANGED <<request, attempt, position>>
    BY <1>3 DEF Respond, IInv, Shape
  <2>2. answer'[p].status = "ok"
    BY <2>1 DEF CommandAnswer, Ok, Null
  <2>3. Domains /\ OthersKept(p)
    BY <1>3 DEF Respond, IInv, Shape, Domains, OthersKept
  <2>4. Shape'
    BY <2>1, <2>3, NoPendingIsBlank DEF IInv, Shape, Domains, OthersKept
  <2>5. \A q \in Proc \ {p} : rivals'[q] = rivals[q] + 1 /\ rivals[q] \in Nat /\ attempt[q] \in Nat
    BY <1>3 DEF IInv, Shape
  <2>6. Progress'
    <3> SUFFICES ASSUME NEW q \in Proc
                 PROVE  /\ phase'[q] = "running" =>
                             /\ rivals'[q] >= attempt'[q] - 1
                             /\ rivals'[q] = attempt'[q] - 1 => Fresh(q)'
                        /\ answer'[q].status = "contended"
                             => phase'[q] = "done" /\ rivals'[q] >= ATTEMPTS
      BY DEF Progress
    <3>1. CASE q = p
      BY <3>1, <2>1, <2>2
    <3>2. CASE q # p
      <4>1. /\ phase'[q] = phase[q] /\ attempt'[q] = attempt[q] /\ answer'[q] = answer[q]
            /\ rivals'[q] = rivals[q] + 1 /\ rivals[q] \in Nat /\ attempt[q] \in Nat
        BY <3>2, <2>3, <2>5 DEF OthersKept
      <4>2. phase[q] = "running" => rivals[q] >= attempt[q] - 1
        BY DEF IInv, Progress
      <4>3. answer[q].status = "contended" => phase[q] = "done" /\ rivals[q] >= ATTEMPTS
        BY DEF IInv, Progress
      <4> QED BY <4>1, <4>2, <4>3, HostAssumption
    <3> QED BY <3>1, <3>2
  <2>7. BlindReadsNothing'
    BY <2>1, <2>2, <2>3 DEF IInv, BlindReadsNothing, OthersKept, Blind
  <2> QED BY <2>4, <2>6, <2>7 DEF IInv
<1> QED BY <1>2, <1>3 DEF Commit

LEMMA ReturnKeeps == ASSUME IInv, NEW p \in Proc, Return(p) PROVE IInv'
<1>1. /\ phase'[p] = "idle" /\ request'[p] = NoRequest /\ attempt'[p] = 1 /\ position'[p] = 0
      /\ answer'[p] = Null /\ rivals'[p] = 0 /\ pending' = pending /\ db' = db
      /\ \A q \in Proc \ {p} : rivals'[q] = rivals[q]
  BY DEF Return, IInv, Shape
<1>2. Domains /\ OthersKept(p)
  BY HostAssumption DEF Return, IInv, Shape, Domains, OthersKept
<1>3. Recording(pending'[p]) /\ Len(request'[p].calls) = 0 /\ answer'[p].status = "ok"
  BY <1>1 DEF IInv, Shape, NoRequest, Null
<1> QED BY <1>1, <1>2, <1>3, Local

LEMMA NextIInv == ASSUME IInv, [Next]_vars PROVE IInv'
<1>1. ASSUME UNCHANGED vars PROVE IInv'
  BY <1>1 DEF vars, IInv, Shape, Progress, BlindReadsNothing, Fresh, Blind, Recording
<1>2. ASSUME NEW p \in Proc, AnswerRead(p) PROVE IInv'
  <2>1. phase[p] = "running" /\ UNCHANGED <<db, rivals>>
    BY <1>2 DEF AnswerRead
  <2> DEFINE what == IF request[p].shape = "batch" THEN Null ELSE Ok(out[p][2])
  <2>2. Respond(p, what) /\ what.status = "ok"
    BY <1>2 DEF AnswerRead, Null, Ok
  <2> QED BY <2>1, <2>2, RespondKeeps
<1> QED BY <1>1, <1>2, ArriveKeeps, RunOneKeeps, RerunKeeps, GiveUpKeeps, CommitKeeps, ReturnKeeps
        DEF Next, Serve

LEMMA Invariance == Spec => []IInv
BY InitIInv, NextIInv, PTL DEF Spec

-----------------------------------------------------------------------------
(* What the store, a recording and the two ways to run a request may hold. *)

Value == {None, Text} \cup (-MaxNum .. MaxNum) \cup Seq(Proc)
Stored == {f \in [Key -> Value] : \A k \in Key : Holds(k, f[k])}

\* The writes a native call records.
Write == {w \in [op : {"set"}, key : Key, arg : Value] : Holds(w.key, w.arg)}
           \cup [op : {"incr"}, key : Counter, arg : Int]
           \cup [op : {"delete"}, key : Key]

Run == [status : {"ok", "not_a_number", "out_of_range"}, view : Stored,
        keys : SUBSET Key, values : Seq(Value)]

\* Without the store's range, which only the store enforces.
Loosely(k, v) == v \in {None, Text} \/ (k \in Counter /\ v \in Int) \/ (k \in List /\ v \in Seq(Proc))
Wide == {None, Text} \cup Int \cup Seq(Proc)
Lone == {state \in [view : [Key -> Wide], last : Wide, ok : BOOLEAN] :
           \A k \in Key : Loosely(k, state.view[k])}

\* A call a run can reach: one the type checker let through, and resolved.
Callable(call) == Typed(call) /\ call.verb # "unknown"

LEMMA HeldValues ==
  /\ \A k, v : Holds(k, v) => v \in Value /\ Loosely(k, v)
  /\ \A k, v : Loosely(k, v) => v \in Wide
  /\ \A k \in Key : Holds(k, None) /\ Loosely(k, None) /\ ~ Holds(k, Unread)
BY HostAssumption DEF Holds, Loosely, Value, Wide, InRange

\* Storing what a key may hold.
LEMMA StoredUpdate ==
  ASSUME NEW f \in Stored, NEW k \in Key, NEW v, Holds(k, v)
  PROVE  [f EXCEPT ![k] = v] \in Stored
<1>1. v \in Value
  BY HeldValues
<1>2. f \in [Key -> Value] /\ \A j \in Key : Holds(j, f[j])
  BY DEF Stored
<1> DEFINE g == [f EXCEPT ![k] = v]
<1>3. g \in [Key -> Value]
  BY <1>1, <1>2
<1>4. \A j \in Key : g[j] = IF j = k THEN v ELSE f[j]
  BY <1>2
<1>5. \A j \in Key : Holds(j, g[j])
  BY <1>2, <1>4
<1> HIDE DEF g
<1>6. g \in Stored
  BY <1>3, <1>5 DEF Stored
<1> QED BY <1>6 DEF g

\* What a list verb makes of a list is a list.
LEMMA ChangedIsAList ==
  ASSUME NEW call, call.verb \in {"append", "remove"}, Typed(call), NEW items \in Seq(Proc)
  PROVE  Changed(call, items) \in Seq(Proc)
<1>1. call.arg \in Proc
  BY DEF Typed
<1>2. CASE call.verb = "append"
  BY <1>1, <1>2, AppendProperties DEF Changed
<1>3. CASE call.verb = "remove"
  <2> DEFINE kept == {i \in 1 .. Len(items) : items[i] # call.arg}
  <2>1. Pick(items, kept) \in Seq(Proc)
    BY PickProperties
  <2> QED BY <1>3, <2>1 DEF Changed
<1> QED BY <1>2, <1>3

LEMMA ItemsOfAList ==
  ASSUME NEW k \in List, NEW v, Loosely(k, v), v # Text
  PROVE  Items(v) \in Seq(Proc)
<1>1. k \notin Counter
  BY HostAssumption
<1> QED BY <1>1, EmptySeq DEF Loosely, Items

(* One write of the store takes a run to a run.                            *)
LEMMA PerformType ==
  ASSUME NEW run \in Run, NEW w \in Write
  PROVE  Perform(run, w) \in Run
<1> DEFINE current == run.view[w.key]
<1>0. /\ w.key \in Key /\ run.view \in Stored /\ Holds(w.key, current)
      /\ run.keys \in SUBSET Key /\ run.values \in Seq(Value)
      /\ w.op \in {"set", "incr", "delete"}
  BY DEF Run, Write, Key, Stored
<1>1. ASSUME NEW v, Holds(w.key, v) PROVE Leaves(run, w.key, v) \in Run
  <2>1. [run.view EXCEPT ![w.key] = v] \in Stored
    BY <1>0, <1>1, StoredUpdate
  <2>2. Append(run.values, v) \in Seq(Value)
    BY <1>0, <1>1, AppendProperties, HeldValues
  <2>3. run.keys \cup {w.key} \in SUBSET Key
    BY <1>0
  <2> QED BY <2>1, <2>2, <2>3 DEF Leaves, Run
<1>2. \A why \in {"not_a_number", "out_of_range"} : Breaks(run, why) \in Run
  BY <1>0 DEF Breaks, Run
<1>3. CASE run.status # "ok"
  BY <1>3 DEF Perform
<1>4. CASE run.status = "ok" /\ w.op = "set"
  <2>1. Holds(w.key, w.arg)
    BY <1>4 DEF Write
  <2> QED BY <1>1, <1>4, <2>1 DEF Perform
<1>5. CASE run.status = "ok" /\ w.op = "delete"
  BY <1>0, <1>1, <1>5, HeldValues DEF Perform
<1>6. CASE run.status = "ok" /\ w.op = "incr"
  <2>0. w.key \in Counter
    BY <1>6 DEF Write
  <2>1. CASE current = Text
    BY <1>2, <1>6, <2>1 DEF Perform
  <2>2. CASE current # Text /\ ~ InRange(Addend(current) + w.arg)
    BY <1>2, <1>6, <2>2 DEF Perform
  <2>3. CASE current # Text /\ InRange(Addend(current) + w.arg)
    <3>1. Holds(w.key, Addend(current) + w.arg)
      BY <2>0, <2>3 DEF Holds
    <3> QED BY <1>1, <1>6, <2>3, <3>1 DEF Perform
  <2> QED BY <2>1, <2>2, <2>3
<1> QED BY <1>0, <1>3, <1>4, <1>5, <1>6

(* One verb takes a request run alone to a request run alone.              *)
LEMMA VerbType ==
  ASSUME NEW state \in Lone, NEW call, Callable(call)
  PROVE  Verb(state, call) \in Lone
<1> DEFINE now == state.view[call.key]
<1>0. call.key \in Key /\ call.verb \in {"get", "set", "delete", "incr", "append", "remove"}
  BY DEF Callable, Typed, Key
<1>1. /\ state = [view |-> state.view, last |-> state.last, ok |-> state.ok]
      /\ state.view \in [Key -> Wide] /\ state.last \in Wide /\ state.ok \in BOOLEAN
      /\ \A k \in Key : Loosely(k, state.view[k])
  BY DEF Lone
<1>2. Loosely(call.key, now) /\ now \in Wide
  BY <1>0, <1>1
<1>3. ASSUME NEW v, Loosely(call.key, v)
      PROVE  [view |-> [state.view EXCEPT ![call.key] = v], last |-> v, ok |-> state.ok] \in Lone
  <2> DEFINE g == [state.view EXCEPT ![call.key] = v]
  <2>1. v \in Wide
    BY <1>3, HeldValues
  <2>2. g \in [Key -> Wide]
    BY <1>1, <2>1
  <2>3. \A k \in Key : g[k] = IF k = call.key THEN v ELSE state.view[k]
    BY <1>1
  <2>4. \A k \in Key : Loosely(k, g[k])
    BY <1>1, <1>3, <2>3
  <2> HIDE DEF g
  <2>5. [view |-> g, last |-> v, ok |-> state.ok] \in Lone
    BY <1>1, <2>1, <2>2, <2>4 DEF Lone
  <2> QED BY <2>5 DEF g
<1>4. [state EXCEPT !.ok = FALSE] \in Lone /\ [state EXCEPT !.last = now] \in Lone
  BY <1>1, <1>2 DEF Lone
<1>5. CASE call.verb = "get"
  BY <1>4, <1>5 DEF Verb
<1>6. CASE call.verb = "set"
  <2>1. Loosely(call.key, call.arg)
    BY <1>6, HeldValues DEF Callable, Typed
  <2> QED BY <1>3, <1>6, <2>1 DEF Verb
<1>7. CASE call.verb = "delete"
  BY <1>0, <1>3, <1>7, HeldValues DEF Verb
<1>8. CASE call.verb = "incr"
  <2>1. call.key \in Counter /\ call.arg \in Int /\ call.key \notin List
    BY <1>8, HostAssumption DEF Callable, Typed
  <2>2. CASE now = Text
    BY <1>4, <1>8, <2>2 DEF Verb
  <2>3. CASE now # Text
    <3>1. Addend(now) \in Int
      BY <1>2, <2>1, <2>3 DEF Loosely, Addend
    <3>2. Loosely(call.key, Addend(now) + call.arg)
      BY <2>1, <3>1 DEF Loosely
    <3> QED BY <1>3, <1>8, <2>3, <3>2 DEF Verb
  <2> QED BY <2>2, <2>3
<1>9. CASE call.verb \in {"append", "remove"}
  <2>1. call.key \in List /\ Typed(call)
    BY <1>9 DEF Callable, Typed
  <2>2. CASE now = Text
    BY <1>4, <1>9, <2>2 DEF Verb
  <2>3. CASE now # Text
    <3>1. Items(now) \in Seq(Proc)
      BY <1>2, <2>1, <2>3, ItemsOfAList
    <3>2. Changed(call, Items(now)) \in Seq(Proc)
      BY <1>9, <2>1, <3>1, ChangedIsAList
    <3>3. Loosely(call.key, Changed(call, Items(now)))
      BY <2>1, <3>2 DEF Loosely
    <3> QED BY <1>3, <1>9, <2>3, <3>3 DEF Verb
  <2> QED BY <2>2, <2>3
<1> QED BY <1>0, <1>5, <1>6, <1>7, <1>8, <1>9

-----------------------------------------------------------------------------
(* The two ways to run a request, one call after the other.                *)

Started(view) == [status |-> "ok", view |-> view, keys |-> {}, values |-> <<>>]
Asked(store) == [view |-> store, last |-> None, ok |-> TRUE]

(* A run of the store starts at the view and performs one write at a time.  *)
LEMMA RunsUnfold ==
  ASSUME NEW view \in Stored, NEW list \in Seq(Write)
  PROVE  /\ Runs(view, list)[0] = Started(view)
         /\ \A n \in 1 .. Len(list) :
              Runs(view, list)[n] = Perform(Runs(view, list)[n - 1], list[n])
         /\ \A n \in 0 .. Len(list) : Runs(view, list)[n] \in Run
<1> DEFINE L == Len(list)
           base == [status |-> "ok", view |-> view, keys |-> {}, values |-> <<>>]
           step == [n \in 1 .. L |-> [was \in Run |-> Perform(was, list[n])]]
           Def(f) == [n \in 0 .. L |-> IF n = 0 THEN base ELSE Perform(f[n - 1], list[n])]
           all == CHOOSE f : f = Def(f)
<1>0. L \in Nat /\ \A n \in 1 .. L : list[n] \in Write
  BY LenProperties, ElementOfSeq
<1>1. base \in Run
  BY EmptySeq DEF Run
<1>2. step \in [1 .. L -> [Run -> Run]]
  BY <1>0, PerformType
<1>3. PICK some : Goes(L, Run, base, step, some)
  <2>1. L \in Nat
    BY <1>0
  <2> HIDE DEF L, base, step
  <2> QED BY <1>1, <1>2, <2>1, RunExists
<1>4. /\ some \in [0 .. L -> Run] /\ some[0] = base
      /\ \A n \in 1 .. L : some[n] = step[n][some[n - 1]]
  BY <1>3 DEF Goes
<1>5. \A n \in 1 .. L : some[n] = Perform(some[n - 1], list[n])
  <2>1. \A n \in 1 .. L : some[n - 1] \in Run
    BY <1>0, <1>4
  <2> QED BY <1>4, <2>1
<1>6. some = Def(some)
  <2> HIDE DEF base
  <2>1. \A n \in 0 .. L : n # 0 => n \in 1 .. L
    BY <1>0
  <2>2. \A n \in 0 .. L : some[n] = Def(some)[n]
    BY <1>4, <1>5, <2>1
  <2> QED BY <1>4, <2>2
<1>7. all = Def(all)
  <2> HIDE DEF Def
  <2> QED BY <1>6
<1>8. Runs(view, list) = all
  BY DEF Runs
<1>9. all[0] = base /\ \A n \in 1 .. L : all[n] = Perform(all[n - 1], list[n])
  <2> HIDE DEF all, base
  <2>1. \A n \in 0 .. L : all[n] = Def(all)[n]
    BY <1>7
  <2>2. 0 \in 0 .. L /\ \A n \in 1 .. L : n \in 0 .. L /\ n # 0
    BY <1>0
  <2> QED BY <2>1, <2>2
<1>10. \A n \in 0 .. L : all[n] \in Run
  <2> HIDE DEF all, base
  <2> DEFINE G == {n \in 0 .. L : all[n] \in Run}
  <2>1. 0 \in G
    BY <1>0, <1>1, <1>9
  <2>2. ASSUME NEW n \in 0 .. L - 1, n \in G PROVE n + 1 \in G
    <3>1. n + 1 \in 1 .. L /\ (n + 1) - 1 = n
      BY <1>0, <2>2
    <3>2. all[n + 1] = Perform(all[n], list[n + 1])
      BY <1>9, <3>1
    <3> QED BY <1>0, <2>2, <3>1, <3>2, PerformType
  <2>3. 0 .. L \subseteq G
    <3> HIDE DEF G
    <3> QED BY <1>0, <2>1, <2>2, UpTo
  <2> QED BY <2>3
<1> HIDE DEF all
<1> QED BY <1>8, <1>9, <1>10 DEF Started

(* A request run alone starts at the store and takes one verb at a time.    *)
LEMMA AfterEachUnfolds ==
  ASSUME NEW store \in Stored, NEW calls, Len(calls) \in Nat,
         \A i \in 1 .. Len(calls) : Callable(calls[i])
  PROVE  /\ AfterEach(store, calls)[0] = Asked(store)
         /\ \A n \in 1 .. Len(calls) :
              AfterEach(store, calls)[n] = Verb(AfterEach(store, calls)[n - 1], calls[n])
         /\ \A n \in 0 .. Len(calls) : AfterEach(store, calls)[n] \in Lone
<1> DEFINE L == Len(calls)
           base == [view |-> store, last |-> None, ok |-> TRUE]
           step == [n \in 1 .. L |-> [was \in Lone |-> Verb(was, calls[n])]]
           Def(f) == [n \in 0 .. L |-> IF n = 0 THEN base ELSE Verb(f[n - 1], calls[n])]
           all == CHOOSE f : f = Def(f)
<1>0. L \in Nat /\ \A n \in 1 .. L : Callable(calls[n])
  OBVIOUS
<1>1. base \in Lone
  BY HeldValues DEF Lone, Stored, Wide
<1>2. step \in [1 .. L -> [Lone -> Lone]]
  BY <1>0, VerbType
<1>3. PICK some : Goes(L, Lone, base, step, some)
  <2>1. L \in Nat
    BY <1>0
  <2> HIDE DEF L, base, step
  <2> QED BY <1>1, <1>2, <2>1, RunExists
<1>4. /\ some \in [0 .. L -> Lone] /\ some[0] = base
      /\ \A n \in 1 .. L : some[n] = step[n][some[n - 1]]
  BY <1>3 DEF Goes
<1>5. \A n \in 1 .. L : some[n] = Verb(some[n - 1], calls[n])
  <2>1. \A n \in 1 .. L : some[n - 1] \in Lone
    BY <1>0, <1>4
  <2> QED BY <1>4, <2>1
<1>6. some = Def(some)
  <2> HIDE DEF base
  <2>1. \A n \in 0 .. L : n # 0 => n \in 1 .. L
    BY <1>0
  <2>2. \A n \in 0 .. L : some[n] = Def(some)[n]
    BY <1>4, <1>5, <2>1
  <2> QED BY <1>4, <2>2
<1>7. all = Def(all)
  <2> HIDE DEF Def
  <2> QED BY <1>6
<1>8. AfterEach(store, calls) = all
  BY DEF AfterEach
<1>9. all[0] = base /\ \A n \in 1 .. L : all[n] = Verb(all[n - 1], calls[n])
  <2> HIDE DEF all, base
  <2>1. \A n \in 0 .. L : all[n] = Def(all)[n]
    BY <1>7
  <2>2. 0 \in 0 .. L /\ \A n \in 1 .. L : n \in 0 .. L /\ n # 0
    BY <1>0
  <2> QED BY <2>1, <2>2
<1>10. \A n \in 0 .. L : all[n] \in Lone
  <2> HIDE DEF all, base
  <2> DEFINE G == {n \in 0 .. L : all[n] \in Lone}
  <2>1. 0 \in G
    BY <1>0, <1>1, <1>9
  <2>2. ASSUME NEW n \in 0 .. L - 1, n \in G PROVE n + 1 \in G
    <3>1. n + 1 \in 1 .. L /\ (n + 1) - 1 = n
      BY <1>0, <2>2
    <3>2. all[n + 1] = Verb(all[n], calls[n + 1])
      BY <1>9, <3>1
    <3> QED BY <1>0, <2>2, <3>1, <3>2, VerbType
  <2>3. 0 .. L \subseteq G
    <3> HIDE DEF G
    <3> QED BY <1>0, <2>1, <2>2, UpTo
  <2> QED BY <2>3
<1> HIDE DEF all
<1> QED BY <1>8, <1>9, <1>10 DEF Asked

(* Recording one write more performs one write more.                       *)
LEMMA RunGrows ==
  ASSUME NEW view \in Stored, NEW list \in Seq(Write), NEW w \in Write
  PROVE  RunOn(view, Append(list, w)) = Perform(RunOn(view, list), w)
<1> DEFINE more == Append(list, w)
           L == Len(list)
           G == {n \in 0 .. L : Runs(view, more)[n] = Runs(view, list)[n]}
<1>1. /\ more \in Seq(Write) /\ Len(more) = L + 1 /\ L \in Nat /\ more[L + 1] = w
      /\ \A n \in 1 .. L : more[n] = list[n]
  BY AppendProperties, LenProperties
<1> HIDE DEF more
<1>2. /\ Runs(view, list)[0] = Started(view)
      /\ \A n \in 1 .. L : Runs(view, list)[n] = Perform(Runs(view, list)[n - 1], list[n])
  BY RunsUnfold
<1>3. /\ Runs(view, more)[0] = Started(view)
      /\ \A n \in 1 .. L + 1 : Runs(view, more)[n] = Perform(Runs(view, more)[n - 1], more[n])
  BY <1>1, RunsUnfold
<1>4. 0 \in G
  BY <1>1, <1>2, <1>3
<1>5. ASSUME NEW n \in 0 .. L - 1, n \in G PROVE n + 1 \in G
  <2>1. n + 1 \in 1 .. L /\ n + 1 \in 1 .. L + 1 /\ (n + 1) - 1 = n /\ n + 1 \in 0 .. L
    BY <1>1
  <2>2. Runs(view, more)[n + 1] = Perform(Runs(view, more)[n], more[n + 1])
    BY <1>3, <2>1
  <2>3. Runs(view, list)[n + 1] = Perform(Runs(view, list)[n], list[n + 1])
    BY <1>2, <2>1
  <2> QED BY <1>1, <1>5, <2>1, <2>2, <2>3
<1>6. L \in G
  <2>1. 0 .. L \subseteq G
    <3> HIDE DEF G, L
    <3> QED BY <1>1, <1>4, <1>5, UpTo
  <2> HIDE DEF G
  <2> QED BY <1>1, <2>1
<1>7. Runs(view, more)[L + 1] = Perform(Runs(view, more)[L], w)
  <2>1. L + 1 \in 1 .. L + 1 /\ (L + 1) - 1 = L
    BY <1>1
  <2> QED BY <1>1, <1>3, <2>1
<1> QED BY <1>1, <1>6, <1>7 DEF RunOn, more

LEMMA RunOnType ==
  ASSUME NEW view \in Stored, NEW list \in Seq(Write)
  PROVE  RunOn(view, list) \in Run /\ RunOn(view, <<>>) = Started(view)
<1>1. RunOn(view, list) \in Run
  BY RunsUnfold, LenProperties DEF RunOn
<1>2. <<>> \in Seq(Write) /\ Len(<<>>) = 0
  BY EmptySeq
<1>3. Runs(view, <<>>)[0] = Started(view)
  BY <1>2, RunsUnfold
<1> QED BY <1>1, <1>2, <1>3 DEF RunOn

-----------------------------------------------------------------------------
(* A recording, and what it says of every store it could be committed on.  *)

\* What a recording holds; a key not in its view was not read either.
Recorder(record) ==
  /\ DOMAIN record = {"reads", "view", "writes"}
  /\ DOMAIN record.reads = Key /\ DOMAIN record.view = Key
  /\ \A k \in Key :
       /\ record.reads[k] = Unread \/ Holds(k, record.reads[k])
       /\ record.view[k] = Unread \/ Holds(k, record.view[k])
       /\ record.view[k] = Unread => record.reads[k] = Unread
  /\ record.writes \in Seq(Write)

\* The stores on which nothing the run read has changed.
Agrees(record, S) == \A k \in Key : record.reads[k] \in {Unread, S[k]}

\* The recorded writes, committed, leave what the verbs run alone leave; and
\* where the run computes from what it read, the lists, its view is that.
Matches(record, S, run, alone) ==
  run.status = "ok" =>
    /\ alone.ok /\ alone.view = run.view
    /\ \A k \in List : run.view[k] = IF record.view[k] = Unread THEN S[k] ELSE record.view[k]

\* The last verb left the last value.
LastIsLast(run, alone) ==
  run.status = "ok" => run.values # <<>> /\ alone.last = run.values[Len(run.values)]

\* What a run believes a key holds is something the key may hold.
LEMMA PeekHolds ==
  ASSUME NEW p \in Proc, NEW k \in Key, Recorder(pending[p]), db \in Stored
  PROVE  Holds(k, Peek(p, k))
BY DEF Recorder, Stored, Peek

LEMMA RecordedRecorder ==
  ASSUME NEW p \in Proc, NEW k \in Key, Recorder(pending[p]), db \in Stored
  PROVE  /\ Recorder(Recorded(p, k))
         /\ Recorded(p, k).writes = pending[p].writes
         /\ Recorded(p, k).view[k] = Peek(p, k) /\ Recorded(p, k).view[k] # Unread
         /\ \A j \in Key \ {k} : Recorded(p, k).view[j] = pending[p].view[j]
         /\ \A S : Agrees(Recorded(p, k), S) => Agrees(pending[p], S)
         /\ \A S : Agrees(Recorded(p, k), S) /\ pending[p].view[k] = Unread => S[k] = db[k]
<1>1. Holds(k, db[k]) /\ db[k] # Unread
  BY HeldValues DEF Stored
<1>2. CASE pending[p].view[k] # Unread
  BY <1>2 DEF Recorded, Peek
<1>3. CASE pending[p].view[k] = Unread
  <2> DEFINE record == Recorded(p, k)
  <2>1. /\ DOMAIN record = {"reads", "view", "writes"} /\ record.writes = pending[p].writes
        /\ record.reads = [pending[p].reads EXCEPT ![k] = db[k]]
        /\ record.view = [pending[p].view EXCEPT ![k] = db[k]]
    BY <1>3 DEF Recorded, Recorder
  <2>2. \A j \in Key : /\ record.reads[j] = IF j = k THEN db[k] ELSE pending[p].reads[j]
                       /\ record.view[j] = IF j = k THEN db[k] ELSE pending[p].view[j]
    BY <2>1 DEF Recorder
  <2>3. pending[p].reads[k] = Unread
    BY <1>3 DEF Recorder
  <2>4. DOMAIN record.reads = Key /\ DOMAIN record.view = Key
    BY <2>1 DEF Recorder
  <2> HIDE DEF record
  <2>5. Recorder(record)
    BY <1>1, <2>1, <2>2, <2>4 DEF Recorder
  <2>6. \A S : Agrees(record, S) => Agrees(pending[p], S) /\ S[k] = db[k]
    BY <1>1, <2>2, <2>3 DEF Agrees
  <2>7. record.view[k] = Peek(p, k) /\ record.view[k] # Unread
    BY <1>1, <1>3, <2>2 DEF Peek
  <2> QED BY <2>1, <2>2, <2>5, <2>6, <2>7 DEF record
<1> QED BY <1>2, <1>3

LEMMA WroteRecorder ==
  ASSUME NEW record, Recorder(record), NEW w \in Write, NEW v, Holds(w.key, v)
  PROVE  /\ Recorder(Wrote(record, w, v))
         /\ Wrote(record, w, v).writes = Append(record.writes, w)
         /\ Wrote(record, w, v).reads = record.reads
         /\ \A j \in Key : Wrote(record, w, v).view[j] = IF j = w.key THEN v ELSE record.view[j]
<1> DEFINE next == Wrote(record, w, v)
<1>0. w.key \in Key /\ v # Unread
  BY HeldValues DEF Write, Key
<1>1. /\ DOMAIN next = {"reads", "view", "writes"} /\ next.writes = Append(record.writes, w)
      /\ next.reads = record.reads /\ next.view = [record.view EXCEPT ![w.key] = v]
  BY DEF Wrote, Recorder
<1>2. \A j \in Key : next.view[j] = IF j = w.key THEN v ELSE record.view[j]
  BY <1>1 DEF Recorder
<1>3. next.writes \in Seq(Write) /\ DOMAIN next.view = Key /\ DOMAIN next.reads = Key
  BY <1>1, AppendProperties DEF Recorder
<1> HIDE DEF next
<1>4. Recorder(next)
  BY <1>0, <1>1, <1>2, <1>3 DEF Recorder
<1> QED BY <1>1, <1>2, <1>4 DEF next

\* A store write of what a verb stores too keeps the two runs matched.
LEMMA StoringMatches ==
  ASSUME NEW run \in Run, NEW alone \in Lone, NEW record, NEW next, NEW S, NEW k \in Key, NEW v,
         Matches(record, S, run, alone),
         run.status = "ok",
         \A j \in List : next.view[j] = IF j = k THEN v ELSE record.view[j],
         k \in List => v # Unread
  PROVE  LET stored == Leaves(run, k, v)
             verb == [view |-> [alone.view EXCEPT ![k] = v], last |-> v, ok |-> alone.ok]
         IN  Matches(next, S, stored, verb) /\ LastIsLast(stored, verb)
<1> DEFINE stored == Leaves(run, k, v)
           verb == [view |-> [alone.view EXCEPT ![k] = v], last |-> v, ok |-> alone.ok]
<1>1. run.view \in [Key -> Value] /\ run.values \in Seq(Value)
  BY DEF Run, Stored
<1>2. \A j \in Key : stored.view[j] = IF j = k THEN v ELSE run.view[j]
  BY <1>1 DEF Leaves
<1>3. alone.ok /\ alone.view = run.view
  BY DEF Matches
<1>4. \A j \in List : run.view[j] = IF record.view[j] = Unread THEN S[j] ELSE record.view[j]
  BY DEF Matches
<1>5. \A j \in List : stored.view[j] = IF next.view[j] = Unread THEN S[j] ELSE next.view[j]
  BY <1>2, <1>4 DEF Key
<1>6. verb.ok /\ verb.view = stored.view
  BY <1>3 DEF Leaves
<1>7. stored.values # <<>> /\ stored.values[Len(stored.values)] = v
  BY <1>1 DEF Leaves
<1>8. verb.last = v
  OBVIOUS
<1> HIDE DEF stored, verb
<1>9. Matches(next, S, stored, verb) /\ LastIsLast(stored, verb)
  BY <1>5, <1>6, <1>7, <1>8 DEF Matches, LastIsLast
<1> QED BY <1>9 DEF stored, verb

-----------------------------------------------------------------------------
(* One native call, and the verb it stands for.                            *)

\* The call only read, and its verb leaves the store alone.
OnlyReads(p, call, record) ==
  /\ record.writes = pending[p].writes
  /\ \A S \in Stored, run \in Run, alone \in Lone :
       Agrees(record, S) /\ Matches(pending[p], S, run, alone)
         => Matches(record, S, run, Verb(alone, call))

\* The call recorded one write, which performs what its verb does.
Writes(p, call, record) ==
  \E w \in Write :
    /\ record.writes = Append(pending[p].writes, w)
    /\ \A S \in Stored, run \in Run, alone \in Lone :
         Agrees(record, S) /\ Matches(pending[p], S, run, alone)
           => /\ Matches(record, S, Perform(run, w), Verb(alone, call))
              /\ LastIsLast(Perform(run, w), Verb(alone, call))

Follows(p, call, record) ==
  /\ Recorder(record)
  /\ \A S : Agrees(record, S) => Agrees(pending[p], S)
  /\ IF call.verb = "get" THEN OnlyReads(p, call, record) ELSE Writes(p, call, record)

LEMMA GettingFollows ==
  ASSUME NEW p \in Proc, NEW call, Callable(call), call.verb = "get",
         Recorder(pending[p]), db \in Stored
  PROVE  Follows(p, call, Recorded(p, call.key))
<1> DEFINE k == call.key
           record == Recorded(p, k)
<1>1. k \in Key
  BY DEF Callable, Typed
<1>2. /\ Recorder(record) /\ record.writes = pending[p].writes
      /\ record.view[k] = Peek(p, k) /\ record.view[k] # Unread
      /\ \A j \in Key \ {k} : record.view[j] = pending[p].view[j]
      /\ \A S : Agrees(record, S) => Agrees(pending[p], S)
      /\ \A S : Agrees(record, S) /\ pending[p].view[k] = Unread => S[k] = db[k]
  BY <1>1, RecordedRecorder
<1> HIDE DEF record, k
<1>3. ASSUME NEW S \in Stored, NEW run \in Run, NEW alone \in Lone,
             Agrees(record, S), Matches(pending[p], S, run, alone)
      PROVE  Matches(record, S, run, Verb(alone, call))
  <2>1. Verb(alone, call).ok = alone.ok /\ Verb(alone, call).view = alone.view
    BY DEF Verb, Lone
  <2>2. SUFFICES ASSUME run.status = "ok"
                 PROVE  \A j \in List : run.view[j] = IF record.view[j] = Unread THEN S[j]
                                                      ELSE record.view[j]
    BY <1>3, <2>1 DEF Matches
  <2>3. \A j \in List : run.view[j] = IF pending[p].view[j] = Unread THEN S[j]
                                      ELSE pending[p].view[j]
    BY <1>3, <2>2 DEF Matches
  <2>4. k \in List => run.view[k] = Peek(p, k)
    BY <1>2, <1>3, <2>3 DEF Peek
  <2> QED BY <1>2, <2>3, <2>4 DEF Key
<1>4. OnlyReads(p, call, record)
  BY <1>2, <1>3 DEF OnlyReads
<1> QED BY <1>2, <1>4 DEF Follows, record, k

\* The write and the verb both store v under the call's key.
Stores(call, w, v) ==
  /\ \A run : Perform(run, w) = IF run.status # "ok" THEN run ELSE Leaves(run, call.key, v)
  /\ \A alone : Verb(alone, call)
                  = [view |-> [alone.view EXCEPT ![call.key] = v], last |-> v, ok |-> alone.ok]

\* set and delete: the verb stores what the write does.
LEMMA StoringFollows ==
  ASSUME NEW p \in Proc, NEW call, Callable(call), call.verb \in {"set", "delete"},
         Recorder(pending[p]), db \in Stored,
         NEW w \in Write, NEW v, w.key = call.key, Holds(call.key, v), Stores(call, w, v)
  PROVE  Follows(p, call, Wrote(pending[p], w, v))
<1> DEFINE k == call.key
           record == Wrote(pending[p], w, v)
<1>1. k \in Key /\ v # Unread
  BY HeldValues DEF Callable, Typed, Key
<1>2. /\ Recorder(record) /\ record.writes = Append(pending[p].writes, w)
      /\ record.reads = pending[p].reads
      /\ \A j \in Key : record.view[j] = IF j = k THEN v ELSE pending[p].view[j]
  <2>1. Holds(w.key, v) /\ w.key = k
    OBVIOUS
  <2>2. /\ Recorder(record) /\ record.writes = Append(pending[p].writes, w)
        /\ record.reads = pending[p].reads
        /\ \A j \in Key : record.view[j] = IF j = w.key THEN v ELSE pending[p].view[j]
    BY <2>1, WroteRecorder
  <2> QED BY <2>1, <2>2
<1>3. \A S : Agrees(record, S) => Agrees(pending[p], S)
  BY <1>2 DEF Agrees
<1> HIDE DEF record, k
<1>4. ASSUME NEW S \in Stored, NEW run \in Run, NEW alone \in Lone,
             Agrees(record, S), Matches(pending[p], S, run, alone)
      PROVE  /\ Matches(record, S, Perform(run, w), Verb(alone, call))
             /\ LastIsLast(Perform(run, w), Verb(alone, call))
  <2>1. CASE run.status # "ok"
    <3>1. Perform(run, w) = run
      BY <2>1 DEF Stores
    <3> QED BY <2>1, <3>1 DEF Matches, LastIsLast
  <2>2. CASE run.status = "ok"
    <3>1. \A j \in List : record.view[j] = IF j = k THEN v ELSE pending[p].view[j]
      BY <1>2 DEF Key
    <3>2. /\ Perform(run, w) = Leaves(run, k, v)
          /\ Verb(alone, call)
               = [view |-> [alone.view EXCEPT ![k] = v], last |-> v, ok |-> alone.ok]
      BY <2>2 DEF k, Stores
    <3> DEFINE verb == [view |-> [alone.view EXCEPT ![k] = v], last |-> v, ok |-> alone.ok]
    <3>3. Matches(record, S, Leaves(run, k, v), verb) /\ LastIsLast(Leaves(run, k, v), verb)
      BY <1>1, <1>4, <2>2, <3>1, StoringMatches
    <3> HIDE DEF verb
    <3>4. Verb(alone, call) = verb
      BY <3>2 DEF verb
    <3> QED BY <3>2, <3>3, <3>4
  <2> QED BY <2>1, <2>2
<1>5. Writes(p, call, record)
  BY <1>2, <1>4 DEF Writes
<1> QED BY <1>2, <1>3, <1>5 DEF Follows, record

LEMMA SettingFollows ==
  ASSUME NEW p \in Proc, NEW call, Callable(call), call.verb = "set",
         Recorder(pending[p]), db \in Stored
  PROVE  Follows(p, call, Wrote(pending[p], Set(call.key, call.arg), call.arg))
<1>1. call.key \in Key /\ Holds(call.key, call.arg) /\ call.arg \in Value
  BY HeldValues DEF Callable, Typed
<1>2. Set(call.key, call.arg) \in Write /\ Set(call.key, call.arg).key = call.key
  BY <1>1 DEF Set, Write
<1>3. \A run : Perform(run, Set(call.key, call.arg))
                 = IF run.status # "ok" THEN run ELSE Leaves(run, call.key, call.arg)
  BY DEF Perform, Set
<1>4. \A alone : Verb(alone, call) = [view |-> [alone.view EXCEPT ![call.key] = call.arg],
                                      last |-> call.arg, ok |-> alone.ok]
  BY DEF Verb
<1>5. Stores(call, Set(call.key, call.arg), call.arg)
  BY <1>3, <1>4 DEF Stores
<1> QED BY <1>1, <1>2, <1>5, StoringFollows

LEMMA DeletingFollows ==
  ASSUME NEW p \in Proc, NEW call, Callable(call), call.verb = "delete",
         Recorder(pending[p]), db \in Stored
  PROVE  Follows(p, call, Wrote(pending[p], Delete(call.key), None))
<1>1. call.key \in Key /\ Holds(call.key, None)
  BY HeldValues DEF Callable, Typed
<1>2. Delete(call.key) \in Write /\ Delete(call.key).key = call.key
  BY <1>1 DEF Delete, Write
<1>3. \A run : Perform(run, Delete(call.key))
                 = IF run.status # "ok" THEN run ELSE Leaves(run, call.key, None)
  BY DEF Perform, Delete
<1>4. \A alone : Verb(alone, call) = [view |-> [alone.view EXCEPT ![call.key] = None],
                                      last |-> None, ok |-> alone.ok]
  BY DEF Verb
<1>5. Stores(call, Delete(call.key), None)
  BY <1>3, <1>4 DEF Stores
<1> QED BY <1>1, <1>2, <1>5, StoringFollows

\* incr: a counter is no list, so the projection is of no consequence.
LEMMA IncrementingFollows ==
  ASSUME NEW p \in Proc, NEW call, Callable(call), call.verb = "incr",
         Recorder(pending[p]), db \in Stored
  PROVE  Follows(p, call, [pending[p] EXCEPT !.writes = Append(@, Incr(call.key, call.arg))])
<1> DEFINE k == call.key
           w == Incr(k, call.arg)
           record == [pending[p] EXCEPT !.writes = Append(@, w)]
<1>1. k \in Counter /\ k \in Key /\ k \notin List /\ call.arg \in Int
  BY HostAssumption DEF Callable, Typed, Key
<1>2. w \in Write
  BY <1>1 DEF Incr, Write
<1>3. /\ DOMAIN record = {"reads", "view", "writes"}
      /\ record.writes = Append(pending[p].writes, w)
      /\ record.reads = pending[p].reads /\ record.view = pending[p].view
  BY DEF Recorder
<1>4. record.writes \in Seq(Write)
  BY <1>2, <1>3, AppendProperties DEF Recorder
<1>w. /\ w.op = "incr" /\ w.key = k /\ w.arg = call.arg
  BY DEF Incr
<1> HIDE DEF record, w
<1>5. Recorder(record)
  BY <1>3, <1>4 DEF Recorder
<1>6. \A S : Agrees(record, S) => Agrees(pending[p], S)
  BY <1>3 DEF Agrees
<1>7. ASSUME NEW S \in Stored, NEW run \in Run, NEW alone \in Lone,
             Agrees(record, S), Matches(pending[p], S, run, alone)
      PROVE  /\ Matches(record, S, Perform(run, w), Verb(alone, call))
             /\ LastIsLast(Perform(run, w), Verb(alone, call))
  <2> DEFINE now == run.view[k]
             v == Addend(now) + call.arg
  <2>1. CASE run.status # "ok"
    <3>1. Perform(run, w) = run
      BY <2>1 DEF Perform
    <3> QED BY <2>1, <3>1 DEF Matches, LastIsLast
  <2>2. CASE run.status = "ok" /\ now = Text
    <3>1. Perform(run, w).status # "ok"
      BY <1>w, <2>2 DEF Perform, Breaks
    <3> QED BY <3>1 DEF Matches, LastIsLast
  <2>3. CASE run.status = "ok" /\ now # Text /\ ~ InRange(v)
    <3>1. Perform(run, w).status # "ok"
      BY <1>w, <2>3 DEF Perform, Breaks
    <3> QED BY <3>1 DEF Matches, LastIsLast
  <2>4. CASE run.status = "ok" /\ now # Text /\ InRange(v)
    <3>1. Perform(run, w) = Leaves(run, k, v)
      BY <1>w, <2>4 DEF Perform
    <3>2. alone.view[k] = now
      BY <1>7, <2>4 DEF Matches
    <3>3. Verb(alone, call) = [view |-> [alone.view EXCEPT ![k] = v], last |-> v, ok |-> alone.ok]
      BY <2>4, <3>2 DEF Verb
    <3>4. \A j \in List : record.view[j] = IF j = k THEN v ELSE pending[p].view[j]
      BY <1>1, <1>3
    <3> HIDE DEF v, k, now
    <3> QED BY <1>1, <1>7, <2>4, <3>1, <3>3, <3>4, StoringMatches
  <2> QED BY <2>1, <2>2, <2>3, <2>4
<1>8. Writes(p, call, record)
  BY <1>2, <1>3, <1>7 DEF Writes
<1> QED BY <1>5, <1>6, <1>8 DEF Follows, record, w

\* append and remove: what they read is recorded, so it is still there.
LEMMA ChangingFollows ==
  ASSUME NEW p \in Proc, NEW call, Callable(call), call.verb \in {"append", "remove"},
         Recorder(pending[p]), db \in Stored, Peek(p, call.key) # Text,
         NEW next, next = Changed(call, Items(Peek(p, call.key)))
  PROVE  Follows(p, call, Wrote(Recorded(p, call.key), Set(call.key, next), next))
<1> DEFINE k == call.key
           read == Recorded(p, k)
           w == Set(k, next)
           record == Wrote(read, w, next)
<1>1. k \in List /\ k \in Key /\ Typed(call)
  BY DEF Callable, Typed, Key
<1>2. Holds(k, next) /\ next # Unread /\ next \in Value
  <2>1. Loosely(k, Peek(p, k))
    BY <1>1, PeekHolds, HeldValues
  <2>2. Items(Peek(p, k)) \in Seq(Proc)
    BY <1>1, <2>1, ItemsOfAList
  <2>3. next \in Seq(Proc)
    BY <1>1, <2>2, ChangedIsAList
  <2>4. Holds(k, next)
    BY <1>1, <2>3 DEF Holds
  <2> QED BY <1>1, <2>4, HeldValues
<1>3. w \in Write /\ w.key = k /\ w.op = "set" /\ w.arg = next
  BY <1>1, <1>2 DEF Set, Write
<1>4. /\ Recorder(read) /\ read.writes = pending[p].writes
      /\ \A j \in Key \ {k} : read.view[j] = pending[p].view[j]
      /\ \A S : Agrees(read, S) => Agrees(pending[p], S)
      /\ \A S : Agrees(read, S) /\ pending[p].view[k] = Unread => S[k] = db[k]
  BY <1>1, RecordedRecorder
<1> HIDE DEF w, read, k
<1>5. /\ Recorder(record) /\ record.writes = Append(pending[p].writes, w)
      /\ record.reads = read.reads
      /\ \A j \in Key : record.view[j] = IF j = k THEN next ELSE read.view[j]
  BY <1>2, <1>3, <1>4, WroteRecorder
<1> HIDE DEF record
<1>6. \A S : Agrees(record, S) => Agrees(read, S)
  BY <1>5 DEF Agrees
<1>7. ASSUME NEW S \in Stored, NEW run \in Run, NEW alone \in Lone,
             Agrees(record, S), Matches(pending[p], S, run, alone)
      PROVE  /\ Matches(record, S, Perform(run, w), Verb(alone, call))
             /\ LastIsLast(Perform(run, w), Verb(alone, call))
  <2>1. CASE run.status # "ok"
    <3>1. Perform(run, w) = run
      BY <2>1 DEF Perform
    <3> QED BY <2>1, <3>1 DEF Matches, LastIsLast
  <2>2. CASE run.status = "ok"
    <3>1. Perform(run, w) = Leaves(run, k, next)
      BY <1>3, <2>2 DEF Perform
    <3>2. run.view[k] = Peek(p, k)
      BY <1>1, <1>4, <1>6, <1>7, <2>2 DEF Matches, Peek
    <3>3. alone.view[k] = Peek(p, k)
      BY <1>7, <2>2, <3>2 DEF Matches
    <3>4. Verb(alone, call)
            = [view |-> [alone.view EXCEPT ![k] = next], last |-> next, ok |-> alone.ok]
      BY <3>3 DEF Verb, k
    <3>5. \A j \in List : record.view[j] = IF j = k THEN next ELSE pending[p].view[j]
      BY <1>4, <1>5 DEF Key
    <3> QED BY <1>1, <1>2, <1>7, <2>2, <3>1, <3>4, <3>5, StoringMatches
  <2> QED BY <2>1, <2>2
<1>8. Writes(p, call, record)
  BY <1>3, <1>5, <1>7 DEF Writes
<1> QED BY <1>4, <1>5, <1>6, <1>8 DEF Follows, record, w, read, k

LEMMA NativeFollows ==
  ASSUME NEW p \in Proc, NEW call, Callable(call), ~ Native(p, call).failed,
         Recorder(pending[p]), db \in Stored
  PROVE  Follows(p, call, Native(p, call).record)
<1>1. CASE call.verb = "get"
  BY <1>1, GettingFollows DEF Native, Getting, Gives
<1>2. CASE call.verb = "set"
  BY <1>2, SettingFollows DEF Native, Setting, Gives
<1>3. CASE call.verb = "delete"
  BY <1>3, DeletingFollows DEF Native, Deleting, Gives
<1>4. CASE call.verb = "incr"
  <2>1. Native(p, call).record
          = [pending[p] EXCEPT !.writes = Append(@, Incr(call.key, call.arg))]
    BY <1>4 DEF Native, Incrementing, Gives, Fails
  <2> QED BY <1>4, <2>1, IncrementingFollows
<1>5. CASE call.verb \notin {"get", "set", "delete", "incr"}
  <2>1. call.verb \in {"append", "remove"}
    BY <1>5 DEF Callable, Typed
  <2> DEFINE next == Changed(call, Items(Peek(p, call.key)))
  <2>2. /\ Peek(p, call.key) # Text
        /\ Native(p, call).record = Wrote(Recorded(p, call.key), Set(call.key, next), next)
    BY <1>5 DEF Native, Changing, Gives, Fails
  <2> HIDE DEF next
  <2>3. next = Changed(call, Items(Peek(p, call.key)))
    BY DEF next
  <2> QED BY <2>1, <2>2, <2>3, ChangingFollows
<1> QED BY <1>1, <1>2, <1>3, <1>4, <1>5

-----------------------------------------------------------------------------
(* The recording of a run, at every moment of it.                          *)

\* On any store that agrees with what was read, the writes so far leave what
\* the calls so far leave alone.
Serial(calls, made, record) ==
  /\ (\A i \in 1 .. made : calls[i].verb = "get") => record.writes = <<>>
  /\ \A S \in Stored : Agrees(record, S) =>
       /\ Matches(record, S, RunOn(S, record.writes), AfterEach(S, calls)[made])
       /\ made > 0 /\ calls[made].verb # "get"
            => LastIsLast(RunOn(S, record.writes), AfterEach(S, calls)[made])

Sound(p) ==
  /\ Recorder(pending[p])
  /\ phase[p] = "running" =>
       /\ request[p] \in Invocations /\ Resolves(request[p])
       /\ Serial(request[p].calls, position[p], pending[p])

SerialInv ==
  /\ db \in Stored
  /\ started \in 0 .. MaxStarted
  /\ \A p \in Proc : Sound(p)

LEMMA CallsAreCallable ==
  ASSUME NEW r \in Invocations, Resolves(r)
  PROVE  Len(r.calls) \in Nat /\ \A i \in 1 .. Len(r.calls) : Callable(r.calls[i])
BY HostAssumption DEF Requestable, Resolves, Callable

LEMMA NoPendingRecorder == Recorder(NoPending)
BY EmptySeq DEF Recorder, NoPending

\* Nothing made yet, nothing recorded.
LEMMA BlankIsSerial ==
  ASSUME NEW r \in Invocations, Resolves(r)
  PROVE  Serial(r.calls, 0, NoPending)
<1>1. NoPending.writes = <<>> /\ \A k \in Key : NoPending.view[k] = Unread
  BY DEF NoPending
<1>2. ASSUME NEW S \in Stored
      PROVE  Matches(NoPending, S, RunOn(S, <<>>), AfterEach(S, r.calls)[0])
  <2>1. RunOn(S, <<>>) = Started(S)
    BY RunOnType, EmptySeq
  <2>2. AfterEach(S, r.calls)[0] = Asked(S)
    BY CallsAreCallable, AfterEachUnfolds
  <2> QED BY <1>1, <2>1, <2>2 DEF Matches, Started, Asked, Key
<1> QED BY <1>1, <1>2 DEF Serial

\* One call more.
LEMMA SerialGrows ==
  ASSUME NEW p \in Proc, NEW r \in Invocations, Resolves(r), NEW n \in 0 .. Len(r.calls) - 1,
         Recorder(pending[p]), db \in Stored, Serial(r.calls, n, pending[p]),
         NEW record, Follows(p, r.calls[n + 1], record)
  PROVE  Serial(r.calls, n + 1, record)
<1> DEFINE calls == r.calls
           call == calls[n + 1]
<1>1. Len(calls) \in Nat /\ \A i \in 1 .. Len(calls) : Callable(calls[i])
  BY CallsAreCallable
<1>2. n \in 0 .. Len(calls) /\ n + 1 \in 1 .. Len(calls) /\ n + 1 \in 0 .. Len(calls)
      /\ (n + 1) - 1 = n /\ n + 1 > 0
  BY <1>1
<1> HIDE DEF calls
<1>3. \A S \in Stored : /\ AfterEach(S, calls)[n + 1] = Verb(AfterEach(S, calls)[n], call)
                        /\ AfterEach(S, calls)[n] \in Lone
  BY <1>1, <1>2, AfterEachUnfolds
<1>4. pending[p].writes \in Seq(Write)
  BY DEF Recorder
<1>5. \A S \in Stored : RunOn(S, pending[p].writes) \in Run
  BY <1>4, RunOnType
<1>f. Follows(p, call, record) /\ Serial(calls, n, pending[p])
  BY DEF calls
<1> HIDE DEF call
<1>6. \A S \in Stored : Agrees(record, S) =>
        Matches(pending[p], S, RunOn(S, pending[p].writes), AfterEach(S, calls)[n])
  BY <1>f DEF Follows, Serial
<1>7. CASE call.verb = "get"
  <2>1. /\ record.writes = pending[p].writes
        /\ \A S \in Stored, run \in Run, alone \in Lone :
             Agrees(record, S) /\ Matches(pending[p], S, run, alone)
               => Matches(record, S, run, Verb(alone, call))
    BY <1>f, <1>7 DEF Follows, OnlyReads
  <2>2. (\A i \in 1 .. n + 1 : calls[i].verb = "get") => record.writes = <<>>
    BY <1>2, <1>f, <2>1 DEF Serial
  <2>3. \A S \in Stored : Agrees(record, S) =>
          Matches(record, S, RunOn(S, record.writes), AfterEach(S, calls)[n + 1])
    BY <1>3, <1>5, <1>6, <2>1
  <2>4. ~ (calls[n + 1].verb # "get")
    BY <1>7 DEF call
  <2>5. Serial(calls, n + 1, record)
    BY <2>2, <2>3, <2>4 DEF Serial
  <2> QED BY <2>5 DEF calls
<1>8. CASE call.verb # "get"
  <2>1. PICK w \in Write :
          /\ record.writes = Append(pending[p].writes, w)
          /\ \A S \in Stored, run \in Run, alone \in Lone :
               Agrees(record, S) /\ Matches(pending[p], S, run, alone)
                 => /\ Matches(record, S, Perform(run, w), Verb(alone, call))
                    /\ LastIsLast(Perform(run, w), Verb(alone, call))
    BY <1>f, <1>8 DEF Follows, Writes
  <2>2. \A S \in Stored : RunOn(S, record.writes) = Perform(RunOn(S, pending[p].writes), w)
    BY <1>4, <2>1, RunGrows
  <2>3. \A S \in Stored : Agrees(record, S) =>
          /\ Matches(record, S, RunOn(S, record.writes), AfterEach(S, calls)[n + 1])
          /\ LastIsLast(RunOn(S, record.writes), AfterEach(S, calls)[n + 1])
    BY <1>3, <1>5, <1>6, <2>1, <2>2
  <2>4. n + 1 \in 1 .. n + 1 /\ calls[n + 1].verb # "get"
    BY <1>2, <1>8 DEF call
  <2>5. Serial(calls, n + 1, record)
    BY <2>3, <2>4 DEF Serial
  <2> QED BY <2>5 DEF calls
<1> QED BY <1>7, <1>8

LEMMA SerialInit == Init => SerialInv
<1> SUFFICES ASSUME Init PROVE SerialInv
  OBVIOUS
<1>1. db \in Stored
  BY HeldValues DEF Init, Stored, Value, Holds
<1>2. \A p \in Proc : pending[p] = NoPending /\ phase[p] = "idle"
  BY DEF Init
<1> QED BY <1>1, <1>2, NoPendingRecorder, HostAssumption DEF Init, SerialInv, Sound

\* A step is one thread's.
LEMMA StepsAreLocal ==
  ASSUME IInv, NEW p \in Proc, (\E r \in Invocations : Arrive(p, r)) \/ Serve(p) \/ Return(p)
  PROVE  OthersKept(p)
<1>1. ASSUME NEW r \in Invocations, Arrive(p, r) PROVE OthersKept(p)
  BY <1>1 DEF Arrive, OthersKept, IInv, Shape
<1>2. ASSUME NEW what, Respond(p, what) PROVE OthersKept(p)
  BY <1>2 DEF Respond, OthersKept, IInv, Shape
<1>3. CASE RunOne(p)
  BY <1>2, <1>3 DEF RunOne, OthersKept, IInv, Shape
<1>4. CASE Rerun(p)
  BY <1>4 DEF Rerun, OthersKept, IInv, Shape
<1>5. CASE Return(p)
  BY <1>5 DEF Return, OthersKept, IInv, Shape
<1>6. CASE AnswerRead(p) \/ GiveUp(p) \/ Commit(p)
  BY <1>2, <1>6 DEF AnswerRead, GiveUp, Commit
<1> QED BY <1>1, <1>3, <1>4, <1>5, <1>6 DEF Serve

LEMMA SerialLocal ==
  ASSUME IInv, SerialInv, NEW p \in Proc, OthersKept(p),
         db' \in Stored, started' \in 0 .. MaxStarted, Sound(p)'
  PROVE  SerialInv'
<1>1. ASSUME NEW q \in Proc PROVE Sound(q)'
  <2>1. CASE q = p
    BY <2>1
  <2>2. CASE q # p
    BY <2>2 DEF OthersKept, SerialInv, Sound
  <2> QED BY <2>1, <2>2
<1> QED BY <1>1 DEF SerialInv

\* A thread that is not running has nothing to show but a recording.
LEMMA SerialDone ==
  ASSUME IInv, SerialInv, NEW p \in Proc, NEW what, Respond(p, what), db' \in Stored
  PROVE  SerialInv'
<1>1. pending'[p] = NoPending /\ phase'[p] = "done" /\ started' = started
  BY DEF Respond, IInv, Shape
<1>2. Sound(p)'
  BY <1>1, NoPendingRecorder DEF Sound
<1>3. OthersKept(p)
  BY DEF Respond, OthersKept, IInv, Shape
<1> QED BY <1>1, <1>2, <1>3, SerialLocal DEF SerialInv

LEMMA SerialStep == IInv /\ SerialInv /\ [Next]_vars => SerialInv'
<1> SUFFICES ASSUME IInv, SerialInv, [Next]_vars PROVE SerialInv'
  OBVIOUS
<1>0. db \in Stored /\ started \in 0 .. MaxStarted /\ \A p \in Proc : Sound(p)
  BY DEF SerialInv
<1>1. ASSUME NEW p \in Proc, NEW r \in Invocations, Arrive(p, r) PROVE SerialInv'
  <2>1. /\ pending'[p] = NoPending /\ request'[p] = r /\ position'[p] = 0 /\ db' = db
        /\ started' \in 0 .. MaxStarted /\ (phase'[p] = "running" => Resolves(r))
    BY <1>0, <1>1, HostAssumption DEF Arrive, IInv, Shape
  <2>2. Sound(p)'
    <3>1. Resolves(r) => Serial(r.calls, 0, NoPending)
      BY BlankIsSerial
    <3> QED BY <2>1, <3>1, NoPendingRecorder DEF Sound
  <2> QED BY <1>0, <1>1, <2>1, <2>2, StepsAreLocal, SerialLocal
<1>2. ASSUME NEW p \in Proc, RunOne(p) PROVE SerialInv'
  <2> DEFINE r == request[p]
             n == position[p]
             call == r.calls[n + 1]
             record == Native(p, call).record
  <2>1. /\ phase[p] = "running" /\ ~ MadeAllCalls(p) /\ db' = db
        /\ r \in Invocations /\ Resolves(r) /\ Serial(r.calls, n, pending[p])
        /\ Recorder(pending[p])
    BY <1>0, <1>2 DEF RunOne, Sound
  <2>2. CASE Native(p, call).failed /\ Respond(p, Refusal("failed"))
    BY <1>0, <2>1, <2>2, SerialDone
  <2>3. CASE ~ (Native(p, call).failed /\ Respond(p, Refusal("failed")))
    <3>1. /\ ~ Native(p, call).failed /\ pending' = [pending EXCEPT ![p] = record]
          /\ position' = [position EXCEPT ![p] = @ + 1]
          /\ UNCHANGED <<phase, request, started>>
      BY <1>2, <2>3 DEF RunOne
    <3>2. /\ n \in 0 .. Len(r.calls) - 1 /\ n + 1 \in 1 .. Len(r.calls)
          /\ pending'[p] = record /\ position'[p] = n + 1
      BY <2>1, <3>1 DEF MadeAllCalls, IInv, Shape
    <3>3. Callable(call)
      BY <2>1, <3>2, CallsAreCallable
    <3> HIDE DEF call
    <3>4. Follows(p, call, record)
      BY <1>0, <2>1, <3>1, <3>3, NativeFollows
    <3> HIDE DEF record, n
    <3>5. Serial(r.calls, n + 1, record)
      BY <1>0, <2>1, <3>2, <3>4, SerialGrows DEF call
    <3>6. Recorder(record)
      BY <3>4 DEF Follows
    <3>7. Sound(p)'
      BY <2>1, <3>1, <3>2, <3>5, <3>6 DEF Sound
    <3> QED BY <1>0, <1>2, <2>1, <3>1, <3>7, StepsAreLocal, SerialLocal DEF Serve
  <2> QED BY <2>2, <2>3
<1>3. ASSUME NEW p \in Proc, Rerun(p) PROVE SerialInv'
  <2>1. /\ pending'[p] = NoPending /\ position'[p] = 0
        /\ UNCHANGED <<db, phase, request, started>> /\ phase[p] = "running"
    BY <1>3 DEF Rerun, Committing, IInv, Shape
  <2>2. Serial(request[p].calls, 0, NoPending)
    BY <1>0, <2>1, BlankIsSerial DEF Sound
  <2>3. Sound(p)'
    BY <1>0, <2>1, <2>2, NoPendingRecorder DEF Sound
  <2> QED BY <1>0, <1>3, <2>1, <2>3, StepsAreLocal, SerialLocal DEF Serve
<1>4. ASSUME NEW p \in Proc, AnswerRead(p) \/ GiveUp(p) PROVE SerialInv'
  BY <1>0, <1>4, SerialDone DEF AnswerRead, GiveUp
<1>5. ASSUME NEW p \in Proc, Commit(p) PROVE SerialInv'
  <2>1. pending[p].writes \in Seq(Write)
    BY <1>0 DEF Sound, Recorder
  <2>2. RunOn(db, pending[p].writes).view \in Stored
    BY <1>0, <2>1, RunOnType DEF Run
  <2>3. db' \in Stored /\ \E what : Respond(p, what)
    BY <1>0, <1>5, <2>2 DEF Commit
  <2> QED BY <2>3, SerialDone
<1>6. ASSUME NEW p \in Proc, Return(p) PROVE SerialInv'
  <2>1. phase'[p] = "idle" /\ UNCHANGED <<db, pending, started>>
    BY <1>6 DEF Return, IInv, Shape
  <2>2. Sound(p)'
    BY <1>0, <2>1 DEF Sound
  <2> QED BY <1>0, <1>6, <2>1, <2>2, StepsAreLocal, SerialLocal
<1>7. CASE UNCHANGED vars
  BY <1>0, <1>7 DEF vars, SerialInv, Sound
<1> QED BY <1>1, <1>2, <1>3, <1>4, <1>5, <1>6, <1>7 DEF Next, Serve

LEMMA SerialAlways == Spec => []SerialInv
BY SerialInit, SerialStep, Invariance, PTL DEF Spec

-----------------------------------------------------------------------------
(* Results.                                                                *)

\* A handler is run again, or refused for contention, only as often as other
\* handlers committed while it ran (bindings.rs, `ATTEMPTS` and the loop of
\* `run_all`).
THEOREM ConflictsAreProgressAlways == Spec => []ConflictsAreProgress
<1>1. IInv => ConflictsAreProgress
  BY DEF IInv, Progress, ConflictsAreProgress
<1> QED BY <1>1, Invariance, PTL

\* A handler that only sets, deletes and increments commits on its first run,
\* however many threads write the same keys (bindings.rs, `$zdIncr`).
THEOREM BlindWritesGetThrough == Spec => []BlindWritesNeverConflict
<1>1. IInv => BlindWritesNeverConflict
  BY DEF IInv, BlindReadsNothing, BlindWritesNeverConflict
<1> QED BY <1>1, Invariance, PTL

\* Every key holds what it was declared to hold, or what an older program left
\* there, and a run sees no more than that (bindings.rs, `Pending`).
THEOREM TypeCorrect == Spec => []TypeOK
<1>1. IInv /\ SerialInv => TypeOK
  BY DEF IInv, Shape, SerialInv, Sound, Recorder, Stored, TypeOK
<1> QED BY <1>1, Invariance, SerialAlways, PTL

\* A commit is the whole handler run alone on the store as it is then, for any
\* threads, keys, requests and number of runs (bindings.rs, `attempt_once`).
THEOREM CommitsAreSerialAlways == Spec => CommitsAreSerial
<1> DEFINE Does(p) ==
      phase[p] = "running" /\ phase'[p] = "done" /\ pending[p].writes # <<>>
          /\ answer'[p].status = "ok"
        => LET alone == Alone(db, request[p].calls)
           IN  /\ alone.ok /\ db' = alone.view
               /\ request[p].shape # "batch" => answer'[p].value = alone.last
<1>1. ASSUME IInv, SerialInv, [Next]_vars, NEW p \in Proc PROVE Does(p)
  <2> SUFFICES ASSUME phase[p] = "running", phase'[p] = "done", pending[p].writes # <<>>,
                      answer'[p].status = "ok"
               PROVE  LET alone == Alone(db, request[p].calls)
                      IN  /\ alone.ok /\ db' = alone.view
                          /\ request[p].shape # "batch" => answer'[p].value = alone.last
    OBVIOUS
  <2> DEFINE run == RunOn(db, pending[p].writes)
             calls == request[p].calls
             alone == AfterEach(db, calls)[Len(calls)]
  <2>1. Commit(p)
    <3>1. PICK q \in Proc : (\E r \in Invocations : Arrive(q, r)) \/ Serve(q) \/ Return(q)
      BY <1>1 DEF Next, vars
    <3>2. q = p
      BY <1>1, <3>1, StepsAreLocal DEF OthersKept
    <3>3. ~ Return(p) /\ \A r \in Invocations : ~ Arrive(p, r)
      BY DEF Return, Arrive
    <3>4. \A what : Respond(p, what) => answer'[p] = what
      BY <1>1 DEF Respond, IInv, Shape
    <3>5. ~ RunOne(p) /\ ~ GiveUp(p)
      BY <3>4 DEF RunOne, GiveUp, Refusal
    <3>6. ~ Rerun(p) /\ ~ AnswerRead(p)
      BY DEF Rerun, AnswerRead
    <3> QED BY <3>1, <3>2, <3>3, <3>5, <3>6 DEF Serve
  <2>2. \A what : Respond(p, what) => answer'[p] = what
    BY <1>1 DEF Respond, IInv, Shape
  <2>3. /\ run.status = "ok" /\ db' = run.view /\ answer'[p] = CommandAnswer(p, run.values)
        /\ position[p] = Len(calls) /\ ~ Stale(p)
    BY <2>1, <2>2 DEF Commit, Committing, MadeAllCalls, Refusal
  <2>4. /\ db \in Stored /\ request[p] \in Invocations /\ Resolves(request[p])
        /\ Serial(calls, Len(calls), pending[p])
    BY <1>1, <2>3 DEF SerialInv, Sound
  <2>5. Agrees(pending[p], db)
    BY <2>3 DEF Stale, Agrees
  <2>6. Matches(pending[p], db, run, alone)
    BY <2>4, <2>5 DEF Serial
  <2>7. Len(calls) > 0 /\ calls[Len(calls)].verb # "get" => LastIsLast(run, alone)
    BY <2>4, <2>5 DEF Serial
  <2>8. alone.ok /\ db' = alone.view
    BY <2>3, <2>6 DEF Matches
  <2>9. request[p].shape # "batch" => answer'[p].value = alone.last
    <3> SUFFICES ASSUME request[p].shape # "batch" PROVE answer'[p].value = alone.last
      OBVIOUS
    <3>1. request[p].shape = "command" \/ \A i \in 1 .. Len(calls) : calls[i].verb = "get"
      BY <2>4, HostAssumption DEF Requestable
    <3>2. ~ \A i \in 1 .. Len(calls) : calls[i].verb = "get"
      BY <2>4 DEF Serial
    <3>3. Len(calls) = 1 /\ calls[1].verb # "get"
      BY <2>4, <3>1, <3>2, HostAssumption DEF Requestable
    <3>4. LastIsLast(run, alone)
      BY <2>7, <3>3
    <3>5. answer'[p].value = run.values[Len(run.values)]
      BY <2>3 DEF CommandAnswer, Ok
    <3> QED BY <2>3, <3>4, <3>5 DEF LastIsLast
  <2> QED BY <2>8, <2>9 DEF Alone
<1>2. IInv /\ SerialInv /\ [Next]_vars => [\A p \in Proc : Does(p)]_vars
  BY <1>1
<1> QED BY <1>2, Invariance, SerialAlways, PTL DEF Spec, CommitsAreSerial
=============================================================================
