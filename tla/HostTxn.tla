------------------------------ MODULE HostTxn ------------------------------
(***************************************************************************)
(* zdc-host (src/crates/zdc-host/src/bindings.rs and lib.rs): invocations  *)
(* run concurrently, each against one recording `$store`, and each commits *)
(* in one `apply`, which is one indivisible step of the store below        *)
(* (StoreRefinement shows the embedded store's apply to be one).           *)
(*                                                                         *)
(* Each native store call is a step of its own: `$zdGet` and the projection *)
(* of `$zdIncr` read the committed store in a read transaction of their    *)
(* own, so another invocation may commit between any two of them.          *)
(*                                                                         *)
(* A key is a counter or a list, as its declaration says; a text under a   *)
(* counter or a list is what an older program left in the store file.      *)
(***************************************************************************)
EXTENDS Transactions, Lists, FiniteSets

CONSTANTS
  Proc,         \* the threads requests run on
  Counter,      \* durable keys declared as numbers
  List,         \* durable keys declared as lists
  Unread,       \* a key the invocation neither read nor wrote
  Invocations,  \* the requests browsers send
  ATTEMPTS,     \* how many runs an invocation refused for a conflict gets
  MaxStarted    \* how many requests arrive in all

VARIABLES
  db,           \* the committed store
  phase,        \* idle, running, done
  request,      \* the request each thread serves
  attempt,      \* which run of it this is, from 1
  position,     \* how many of its calls this run has made
  pending,      \* what this run recorded: reads, writes, view
  out,          \* the last call's key and its own answer
  answer,       \* the response
  started,      \* how many requests have arrived
  rivals        \* history: commits by others since the request's first run

vars == <<db, phase, request, attempt, position, pending, out, answer, started,
          rivals>>

Key == Counter \cup List

\* What the store may hold under a key: nothing, a text, or what it declares.
Holds(k, v) == v \in {None, Text} \/ (k \in Counter /\ InRange(v)) \/ (k \in List /\ v \in Seq(Proc))

\* A call as the type checker lets it be emitted.
Typed(call) ==
  CASE call.verb = "set" -> call.key \in Key /\ Holds(call.key, call.arg)
    [] call.verb = "incr" -> call.key \in Counter /\ call.arg \in Int
    [] call.verb \in {"append", "remove"} -> call.key \in List /\ call.arg \in Proc
    [] OTHER -> call.key \in Key /\ call.verb \in {"get", "delete", "unknown"}

\* A request: a command endpoint is one write and a value endpoint only reads,
\* as they are emitted; a batch is whatever list of calls a browser posts.
Requestable(r) ==
  /\ \A i \in 1 .. Len(r.calls) : Typed(r.calls[i])
  /\ \/ r.shape = "command" /\ Len(r.calls) = 1 /\ r.calls[1].verb # "get"
     \/ r.shape = "value" /\ \A i \in 1 .. Len(r.calls) : r.calls[i].verb = "get"
     \/ r.shape = "batch"

ASSUME HostAssumption ==
  /\ Counter \cap List = {}
  /\ \A k \in Key : ~Holds(k, Unread)
  /\ MaxNum \in Nat
  /\ \A r \in Invocations : Len(r.calls) \in Nat /\ Requestable(r)
  /\ ATTEMPTS \in Nat \ {0}
  /\ MaxStarted \in Nat

NoPending == [reads |-> [k \in Key |-> Unread],
              view |-> [k \in Key |-> Unread],
              writes |-> <<>>]
NoRequest == [shape |-> "none", calls |-> <<>>]

Null == [status |-> "ok", value |-> None]
Ok(v) == [status |-> "ok", value |-> v]
Refusal(why) == [status |-> why]

-----------------------------------------------------------------------------
(* The recording store of one run.                                         *)

\* What the run believes key k holds: its view, or the committed value.
Peek(p, k) == IF pending[p].view[k] = Unread THEN db[k] ELSE pending[p].view[k]

\* Pending::read: a key asked for the first time joins the recorded reads.
Recorded(p, k) ==
  IF pending[p].view[k] = Unread
    THEN [pending[p] EXCEPT !.reads[k] = db[k], !.view[k] = db[k]]
    ELSE pending[p]

Wrote(record, w, v) ==
  [record EXCEPT !.writes = Append(@, w), !.view[w.key] = v]

Set(k, v) == [op |-> "set", key |-> k, arg |-> v]
Incr(k, n) == [op |-> "incr", key |-> k, arg |-> n]
Delete(k) == [op |-> "delete", key |-> k]

Items(v) == IF v = None THEN <<>> ELSE v

\* What each list verb makes of the list it read.
Changed(call, items) ==
  IF call.verb = "append"
    THEN Append(items, call.arg)
    ELSE Pick(items, {i \in 1 .. Len(items) : items[i] # call.arg})

\* The outcome of one native call: an error, or the record and the value.
Fails == [failed |-> TRUE]
Gives(record, v) == [failed |-> FALSE, record |-> record, value |-> v]

Getting(p, call) == Gives(Recorded(p, call.key), Peek(p, call.key))

Setting(p, call) == Gives(Wrote(pending[p], Set(call.key, call.arg), call.arg), call.arg)

Deleting(p, call) == Gives(Wrote(pending[p], Delete(call.key), None), None)

\* Mutants: the projection joins the recorded reads.
IncrementingRecorded(p, call) ==
  LET current == Peek(p, call.key)
      record == Recorded(p, call.key)
  IN  IF current = Text \/ ~InRange(Addend(current) + call.arg)
        THEN Fails
        ELSE Gives([record EXCEPT !.writes = Append(@, Incr(call.key, call.arg))],
                   Addend(current) + call.arg)

\* A blind delta: projected to catch errors early, never recorded as a read.
Incrementing(p, call) ==
  LET current == Peek(p, call.key)
  IN  IF current = Text \/ ~InRange(Addend(current) + call.arg)
        THEN Fails
        ELSE Gives([pending[p] EXCEPT !.writes = Append(@, Incr(call.key, call.arg))],
                   Addend(current) + call.arg)

\* Mutant: the list verbs read the store without recording what they saw.
ChangingUnrecorded(p, call) ==
  IF Peek(p, call.key) = Text
    THEN Fails
    ELSE LET next == Changed(call, Items(Peek(p, call.key)))
         IN  Gives(Wrote(pending[p], Set(call.key, next), next), next)

\* A list verb is a read-modify-write: a recorded get and a set.
Changing(p, call) ==
  IF Peek(p, call.key) = Text
    THEN Fails
    ELSE LET next == Changed(call, Items(Peek(p, call.key)))
         IN  Gives(Wrote(Recorded(p, call.key), Set(call.key, next), next), next)

Native(p, call) ==
  CASE call.verb = "get" -> Getting(p, call)
    [] call.verb = "set" -> Setting(p, call)
    [] call.verb = "delete" -> Deleting(p, call)
    [] call.verb = "incr" -> Incrementing(p, call)
    [] OTHER -> Changing(p, call)

-----------------------------------------------------------------------------
(* One invocation.                                                         *)

\* Names are resolved before anything runs; a batch may only name commands.
Resolves(r) ==
  \A i \in 1 .. Len(r.calls) :
    /\ r.calls[i].verb # "unknown"
    /\ r.shape = "batch" => r.calls[i].verb # "get"

Arrive(p, r) ==
  /\ phase[p] = "idle" /\ started < MaxStarted
  /\ started' = started + 1
  /\ request' = [request EXCEPT ![p] = r]
  /\ attempt' = [attempt EXCEPT ![p] = 1]
  /\ position' = [position EXCEPT ![p] = 0]
  /\ pending' = [pending EXCEPT ![p] = NoPending]
  /\ out' = [out EXCEPT ![p] = None]
  /\ rivals' = [rivals EXCEPT ![p] = 0]
  /\ \/ /\ Resolves(r) /\ r.calls # <<>>
        /\ phase' = [phase EXCEPT ![p] = "running"]
        /\ UNCHANGED answer
     \/ /\ Resolves(r) /\ r.calls = <<>>
        /\ phase' = [phase EXCEPT ![p] = "done"]
        /\ answer' = [answer EXCEPT ![p] = Null]
     \/ /\ ~Resolves(r)
        /\ phase' = [phase EXCEPT ![p] = "done"]
        /\ answer' = [answer EXCEPT ![p] = Refusal("unresolved")]
  /\ UNCHANGED db

Respond(p, what) ==
  /\ phase' = [phase EXCEPT ![p] = "done"]
  /\ answer' = [answer EXCEPT ![p] = what]
  /\ pending' = [pending EXCEPT ![p] = NoPending]
  /\ UNCHANGED <<request, attempt, position, out, started>>

MadeAllCalls(p) == position[p] = Len(request[p].calls)

\* run_one: the next call of the run, in the one context they all share.
RunOne(p) ==
  /\ phase[p] = "running" /\ ~MadeAllCalls(p)
  /\ LET call == request[p].calls[position[p] + 1]
         result == Native(p, call)
     IN \/ result.failed /\ Respond(p, Refusal("failed"))
        \/ /\ ~result.failed
           /\ pending' = [pending EXCEPT ![p] = result.record]
           /\ out' = [out EXCEPT ![p] = <<call.key, result.value>>]
           /\ position' = [position EXCEPT ![p] = @ + 1]
           /\ UNCHANGED <<phase, request, attempt, answer, started>>
  /\ UNCHANGED <<db, rivals>>

\* A run that wrote nothing answers without reaching the store.
AnswerRead(p) ==
  /\ phase[p] = "running" /\ MadeAllCalls(p) /\ pending[p].writes = <<>>
  /\ Respond(p, IF request[p].shape = "batch" THEN Null ELSE Ok(out[p][2]))
  /\ UNCHANGED <<db, rivals>>

Committing(p) == phase[p] = "running" /\ MadeAllCalls(p) /\ pending[p].writes # <<>>

Stale(p) == \E k \in Key : pending[p].reads[k] \notin {Unread, db[k]}

\* Mutant: the next run keeps what the refused one recorded.
RerunKeeping(p) ==
  /\ Committing(p) /\ Stale(p) /\ attempt[p] < ATTEMPTS
  /\ attempt' = [attempt EXCEPT ![p] = @ + 1]
  /\ UNCHANGED <<db, phase, request, position, pending, out, answer, started, rivals>>

\* Mutant: the refused recording is offered again, without a run or a limit.
RerunForEver(p) ==
  /\ Committing(p) /\ Stale(p)
  /\ UNCHANGED vars

\* Mutant: one run more than the limit.
RerunOnceMore(p) ==
  /\ Committing(p) /\ Stale(p) /\ attempt[p] <= ATTEMPTS
  /\ attempt' = [attempt EXCEPT ![p] = @ + 1]
  /\ position' = [position EXCEPT ![p] = 0]
  /\ pending' = [pending EXCEPT ![p] = NoPending]
  /\ out' = [out EXCEPT ![p] = None]
  /\ UNCHANGED <<db, phase, request, answer, started, rivals>>

\* A refused run left nothing: run again, in a fresh context.
Rerun(p) ==
  /\ Committing(p) /\ Stale(p) /\ attempt[p] < ATTEMPTS
  /\ attempt' = [attempt EXCEPT ![p] = @ + 1]
  /\ position' = [position EXCEPT ![p] = 0]
  /\ pending' = [pending EXCEPT ![p] = NoPending]
  /\ out' = [out EXCEPT ![p] = None]
  /\ UNCHANGED <<db, phase, request, answer, started, rivals>>

\* The last run was refused too: the write is refused, not applied.
GiveUp(p) ==
  /\ Committing(p) /\ Stale(p) /\ attempt[p] >= ATTEMPTS
  /\ Respond(p, Refusal("contended"))
  /\ UNCHANGED <<db, rivals>>

\* A command answers with what committed; a batch answers with nothing.
CommandAnswer(p, values) ==
  IF request[p].shape = "batch" THEN Null ELSE Ok(values[Len(values)])

\* apply succeeded, or failed for a reason that running again cannot cure.
Commit(p) ==
  /\ Committing(p) /\ ~Stale(p)
  /\ LET run == RunOn(db, pending[p].writes)
     IN \/ /\ run.status = "ok"
           /\ db' = run.view
           /\ rivals' = [q \in Proc |-> IF q = p THEN rivals[q] ELSE rivals[q] + 1]
           /\ Respond(p, CommandAnswer(p, run.values))
        \/ /\ run.status # "ok"
           /\ Respond(p, Refusal("failed"))
           /\ UNCHANGED <<db, rivals>>

Return(p) ==
  /\ phase[p] = "done"
  /\ phase' = [phase EXCEPT ![p] = "idle"]
  /\ request' = [request EXCEPT ![p] = NoRequest]
  /\ attempt' = [attempt EXCEPT ![p] = 1]
  /\ position' = [position EXCEPT ![p] = 0]
  /\ out' = [out EXCEPT ![p] = None]
  /\ answer' = [answer EXCEPT ![p] = Null]
  /\ rivals' = [rivals EXCEPT ![p] = 0]
  /\ UNCHANGED <<db, pending, started>>

-----------------------------------------------------------------------------

Init ==
  /\ db \in [Key -> {None, Text}]
  /\ phase = [p \in Proc |-> "idle"]
  /\ request = [p \in Proc |-> NoRequest]
  /\ attempt = [p \in Proc |-> 1]
  /\ position = [p \in Proc |-> 0]
  /\ pending = [p \in Proc |-> NoPending]
  /\ out = [p \in Proc |-> None]
  /\ answer = [p \in Proc |-> Null]
  /\ started = 0
  /\ rivals = [p \in Proc |-> 0]

Serve(p) == RunOne(p) \/ AnswerRead(p) \/ Rerun(p) \/ GiveUp(p) \/ Commit(p)

Next == \E p \in Proc :
  \/ \E r \in Invocations : Arrive(p, r)
  \/ Serve(p)
  \/ Return(p)

\* A thread serving a request is scheduled until it has answered.
Spec == Init /\ [][Next]_vars /\ \A p \in Proc : WF_vars(Serve(p))

-----------------------------------------------------------------------------
(* The type invariant.                                                     *)

TypeOK ==
  /\ \A k \in Key : Holds(k, db[k])
  /\ phase \in [Proc -> {"idle", "running", "done"}]
  /\ attempt \in [Proc -> 1 .. ATTEMPTS]
  /\ \A p \in Proc : position[p] \in 0 .. Len(request[p].calls)
  /\ \A p \in Proc, k \in Key :
       /\ pending[p].reads[k] = Unread \/ Holds(k, pending[p].reads[k])
       /\ pending[p].view[k] = Unread \/ Holds(k, pending[p].view[k])
  /\ started \in 0 .. MaxStarted

-----------------------------------------------------------------------------
(* What an invocation means when nothing else runs: each verb on the       *)
(* store itself, one after the other.  Written from the verbs' meaning,    *)
(* with no recording, projection, view or retry.                           *)

Verb(state, call) ==
  LET now == state.view[call.key]
      Stores(v) == [view |-> [state.view EXCEPT ![call.key] = v], last |-> v, ok |-> state.ok]
      Bad == [state EXCEPT !.ok = FALSE]
  IN  CASE call.verb = "get" -> [state EXCEPT !.last = now]
        [] call.verb = "set" -> Stores(call.arg)
        [] call.verb = "delete" -> Stores(None)
        [] call.verb = "incr" -> IF now = Text THEN Bad ELSE Stores(Addend(now) + call.arg)
        [] OTHER -> IF now = Text THEN Bad ELSE Stores(Changed(call, Items(now)))

\* The verbs of a request one after the other, from the first.
AfterEach(store, calls) ==
  LET after[i \in 0 .. Len(calls)] ==
        IF i = 0 THEN [view |-> store, last |-> None, ok |-> TRUE]
        ELSE Verb(after[i - 1], calls[i])
  IN  after

Alone(store, calls) == AfterEach(store, calls)[Len(calls)]

(* Every commit is the whole handler run alone on the store as it is at    *)
(* that moment: no append is lost, no increment is lost, a handler sees    *)
(* its own writes, and a single command answers what it left behind.       *)
CommitsAreSerial ==
  [][\A p \in Proc :
       phase[p] = "running" /\ phase'[p] = "done" /\ pending[p].writes # <<>>
         /\ answer'[p].status = "ok"
       => LET alone == Alone(db, request[p].calls)
          IN  /\ alone.ok /\ db' = alone.view
              /\ request[p].shape # "batch" => answer'[p].value = alone.last]_vars

\* An invocation none of whose verbs reads the store to compute its write.
Blind(r) == \A i \in 1 .. Len(r.calls) : r.calls[i].verb \in {"set", "incr", "delete"}

(* A blind delta is never refused for contention, however many invocations *)
(* write the same key: two visitors incrementing at once both get through. *)
BlindWritesNeverConflict ==
  \A p \in Proc : Blind(request[p]) => attempt[p] = 1 /\ answer[p].status # "contended"

(* Every conflict is somebody else's progress: an invocation is on run n   *)
(* only if n - 1 commits of others happened while it ran, and it gives up  *)
(* only after as many commits as it had runs.                              *)
ConflictsAreProgress ==
  \A p \in Proc :
    /\ phase[p] = "running" => rivals[p] >= attempt[p] - 1
    /\ answer[p].status = "contended" => rivals[p] >= ATTEMPTS

(* Every request is answered: a conflicting handler is run again a bounded *)
(* number of times and then refused.                                       *)
EveryRequestIsAnswered == \A p \in Proc : phase[p] = "running" ~> phase[p] = "done"
=============================================================================
