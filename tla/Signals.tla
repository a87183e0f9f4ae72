------------------------------- MODULE Signals -------------------------------
(***************************************************************************)
(* The browser's reactivity core                                           *)
(* (src/crates/zdc-runtime/runtime/signal.js) with the conditional region  *)
(* of branch.js, its heaviest user.                                        *)
(*                                                                         *)
(* Signals hold values, deriveds are computed from them on demand, effects *)
(* run now and again whenever something they read changed.  Dependencies   *)
(* are discovered by reading.  Everything runs on one thread, so the state *)
(* includes the JavaScript stack: a body reads, writes and mounts in steps *)
(* of its own, and a read of a stale derived runs that derived's body in   *)
(* the middle of the reader's.                                             *)
(*                                                                         *)
(* What a body does is a program: it tests one cell, and the value found   *)
(* chooses the operations that follow, in order.                           *)
(*   <<"read", c>>       read the cell c                                   *)
(*   <<"set", s, v>>     write v to the signal s                           *)
(*   <<"throw">>         throw                                             *)
(*   <<"swap", t, ts>>   show the arm tagged t, whose effects are ts       *)
(* A value is kept as what it was computed from, so two values are equal   *)
(* only if they come from equal readings.                                  *)
(***************************************************************************)
EXTENDS Integers, SequencesExt, Lists

CONSTANTS
  Signal, Derived,  \* the cells
  Effect,           \* instances of effects, reused when nothing holds them
  Val,              \* what a signal can hold
  NoTag,            \* no arm
  Page,             \* code outside every computation: a render, a handler
  STEP_LIMIT,       \* computations one update may run
  Programs,         \* the programs of a run
  MaxFaults         \* bound: how often a value is written that makes a body throw

VARIABLES
  program,   \* the program, chosen at the start
  value,     \* value[s]: what the signal s holds
  memo,      \* memo[d]: what the derived d computed last
  stale,     \* the deriveds that will compute before they answer
  readers,   \* readers[c]: the computations subscribed to c, in order
  pending,   \* computations marked stale, in order
  ready,     \* the drain's snapshot of pending
  flushing,  \* a drain is in progress,
  base,      \*   entered with so many bodies on the stack,
  steps,     \*   has run so many computations,
  failure,   \*   and one of them threw
  batched,   \* an event handler is running
  stack,     \* the bodies that are running, innermost last
  live,      \* the effects not disposed
  bodyOf,    \* bodyOf[e]: which effect of the program e is an instance of
  shown,     \* shown[e]: what the last complete run of e read
  tag, arm,  \* the arm the conditional region shows, and its effects
  home,      \* home[e]: the arm e was mounted in
  \* History, which no step reads.
  torn,      \* effects whose last run was cut short by a throw
  halfArm,   \* an arm threw while it was being mounted
  overrun,   \* the step limit was reached
  faults     \* how many such values were written

Cell == Signal \cup Derived

Computation == Derived \cup Effect

\* The bodies of effects, and the cells a body may read.
Names(p) == DOMAIN p.body \ Derived
Readable(p) == Signal \cup (Derived \cap DOMAIN p.body)

\* What the compiler emits: a derived is an expression and only reads; a
\* binding also writes; only the effect of the region swaps, and its arms
\* mount bindings.  (A region inside an arm has a tag of its own; its effect
\* is a binding here, and its arms are left out.)
Pure(p) == ({"read"} \X Readable(p)) \cup {<<"throw">>}
Binding(p) == Pure(p) \cup ({"set"} \X Signal \X Val)
Bindings(p) == {n \in Names(p) : p.body[n].then \in [Val -> Seq(Binding(p))]}
Swaps(p) == {"swap"} \X {p.tagOf[v] : v \in Val} \X Seq(Bindings(p))

Compiled(p) ==
  /\ p.roots \in Seq(Names(p))
  /\ \A n \in DOMAIN p.body : p.body[n].test \in Readable(p)
  /\ \A d \in Derived \cap DOMAIN p.body : p.body[d].then \in [Val -> Seq(Pure(p))]
  /\ \A n \in Names(p) : p.body[n].then \in [Val -> Seq(Binding(p) \cup Swaps(p))]

ASSUME SignalsAssumption ==
  /\ Signal \cap Derived = {} /\ Cell \cap Effect = {}
  /\ Page \notin Cell \cup Effect
  /\ 0 \in Val
  /\ STEP_LIMIT \in Nat /\ MaxFaults \in Nat

ASSUME ProgramsAssumption == \A p \in Programs : Compiled(p)

drainVars == <<pending, ready, flushing, base, steps, failure>>
regionVars == <<tag, arm, home, bodyOf>>
historyVars == <<torn, halfArm, overrun, faults>>
vars == <<program, value, memo, stale, readers, batched, stack, live, shown,
          drainVars, regionVars, historyVars>>

-----------------------------------------------------------------------------
(* Bodies and frames.                                                      *)

Reading(c) == IF c \in Signal THEN [key |-> value[c], from |-> <<>>] ELSE memo[c]

Frame(node, todo, first) ==
  [node |-> node, todo |-> todo, first |-> first, seen |-> <<>>, made |-> <<>>]
BodyFrame(node, name, first) ==
  Frame(node, <<<<"test", program.body[name].test>>>>, first)

Top == Last(stack)
Op == Head(Top.todo)
Caller == stack[Len(stack) - 1]
OnTop(frame) == [stack EXCEPT ![Len(stack)] = frame]
Done == [Top EXCEPT !.todo = Tail(@)]

\* A body is running, as opposed to the drain that is about to run the next.
Running == stack # <<>> /\ (flushing => Len(stack) > base)
Next1(kind) == Running /\ Top.todo # <<>> /\ Op[1] = kind

Idle == stack = <<>> /\ ~flushing

Held == live \cup ToSet(pending) \cup ToSet(ready)
        \cup {stack[i].node : i \in 1 .. Len(stack)}
Fresh == Effect \ Held

(* clearSources: `sources` of a node is where it occurs in `readers`.      *)
Cleared(rs, nodes) ==
  [c \in Cell |-> Pick(rs[c], {i \in DOMAIN rs[c] : rs[c][i] \notin nodes})]

\* Mutant: an array instead of a set.
TrackedTwice(rs, c, n) == IF n = Page THEN rs ELSE [rs EXCEPT ![c] = Append(@, n)]

Tracked(rs, c, n) ==
  IF n = Page \/ n \in ToSet(rs[c]) THEN rs ELSE [rs EXCEPT ![c] = Append(@, n)]

Marked(queue, nodes) ==
  queue \o Pick(nodes, {i \in DOMAIN nodes : nodes[i] \notin ToSet(queue)})

-----------------------------------------------------------------------------
(* A drain.                                                                *)

\* flush(): a no-op inside a drain and inside a batch.
\* Mutant: a flush from inside a drain starts another.
FlushAgain(enter, height) ==
  /\ flushing' = (flushing \/ enter)
  /\ base' = IF enter THEN height ELSE base
  /\ steps' = IF enter THEN 0 ELSE steps

Flush(enter, height) ==
  LET starts == enter /\ ~flushing
  IN /\ flushing' = (flushing \/ enter)
     /\ base' = IF starts THEN height ELSE base
     /\ steps' = IF starts THEN 0 ELSE steps

\* signal.write: equal values notify nobody.
WriteSignal(s, v, height) ==
  IF value[s] = v
    THEN UNCHANGED <<value, drainVars>>
    ELSE /\ value' = [value EXCEPT ![s] = v]
         /\ pending' = Marked(pending, readers[s])
         /\ Flush(~batched, height)
         /\ UNCHANGED <<ready, failure>>

\* Mutants: the steps are counted per round; the newest mark goes first.
SnapshotResetting ==
  /\ flushing /\ Len(stack) = base /\ ready = <<>> /\ pending # <<>>
  /\ ready' = pending
  /\ pending' = <<>>
  /\ steps' = 0
  /\ UNCHANGED <<program, value, memo, stale, readers, batched, stack, live, shown,
                 flushing, base, failure, regionVars, historyVars>>
SnapshotLast ==
  /\ flushing /\ Len(stack) = base /\ ready = <<>> /\ pending # <<>>
  /\ ready' = <<Last(pending)>>
  /\ pending' = Front(pending)
  /\ UNCHANGED <<program, value, memo, stale, readers, batched, stack, live, shown,
                 flushing, base, steps, failure, regionVars, historyVars>>

\* The next round of the drain.
Snapshot ==
  /\ flushing /\ Len(stack) = base /\ ready = <<>> /\ pending # <<>>
  /\ ready' = pending
  /\ pending' = <<>>
  /\ UNCHANGED <<program, value, memo, stale, readers, batched, stack, live, shown,
                 flushing, base, steps, failure, regionVars, historyVars>>

\* A derived is only marked, and passes the mark on.
MarkDerived(d) ==
  /\ stale' = stale \cup {d}
  /\ pending' = Marked(pending, readers[d])
  /\ UNCHANGED <<readers, stack>>

\* Mutant: a disposed effect runs.
RunDisposed(e) ==
  /\ readers' = Cleared(readers, {e})
  /\ stack' = Append(stack, BodyFrame(e, bodyOf[e], FALSE))
  /\ UNCHANGED <<stale, pending>>

RunEffect(e) ==
  /\ IF e \in live
       THEN /\ readers' = Cleared(readers, {e})
            /\ stack' = Append(stack, BodyFrame(e, bodyOf[e], FALSE))
       ELSE UNCHANGED <<readers, stack>>
  /\ UNCHANGED <<stale, pending>>

RunNext ==
  /\ flushing /\ Len(stack) = base /\ ready # <<>> /\ steps < STEP_LIMIT
  /\ steps' = steps + 1
  /\ ready' = Tail(ready)
  /\ IF Head(ready) \in Derived THEN MarkDerived(Head(ready)) ELSE RunEffect(Head(ready))
  /\ UNCHANGED <<program, value, memo, batched, live, shown, flushing, base,
                 failure, regionVars, historyVars>>

\* The limit: the snapshot's rest is dropped, and the error is thrown at
\* whoever caused the flush.
GiveUp ==
  /\ flushing /\ Len(stack) = base /\ ready # <<>> /\ steps = STEP_LIMIT
  /\ flushing' = FALSE /\ failure' = FALSE
  /\ ready' = <<>>
  /\ overrun' = TRUE
  /\ stack' = <<>>
  /\ torn' = torn \cup (Effect \cap {stack[i].node : i \in 1 .. Len(stack)})
  /\ UNCHANGED <<program, value, memo, stale, readers, batched, live, shown, pending,
                 base, steps, regionVars, halfArm, faults>>

\* Everything has run.  A failure is thrown now, at the write that began it.
Settle ==
  /\ flushing /\ Len(stack) = base /\ ready = <<>> /\ pending = <<>>
  /\ flushing' = FALSE /\ failure' = FALSE
  /\ stack' = IF failure THEN <<>> ELSE stack
  /\ torn' = IF failure
               THEN torn \cup (Effect \cap {stack[i].node : i \in 1 .. Len(stack)})
               ELSE torn
  /\ UNCHANGED <<program, value, memo, stale, readers, batched, live, shown, pending,
                 ready, base, steps, regionVars, halfArm, overrun, faults>>

-----------------------------------------------------------------------------
(* The steps of a body.                                                    *)

\* A signal, or a derived that is not stale, answers at once.
Read ==
  /\ Next1("test") \/ Next1("read")
  /\ Op[2] \notin stale
  /\ readers' = Tracked(readers, Op[2], Top.node)
  /\ LET got == Reading(Op[2])
         name == IF Top.node \in Effect THEN bodyOf[Top.node] ELSE Top.node
         rest == IF Op[1] = "test" THEN program.body[name].then[got.key]
                                   ELSE Tail(Top.todo)
     IN stack' = OnTop([Top EXCEPT !.todo = rest, !.seen = Append(@, got)])
  /\ UNCHANGED <<program, value, memo, stale, batched, live, shown, drainVars,
                 regionVars, historyVars>>

\* A stale derived computes first, in the middle of its reader.
Recompute ==
  /\ Next1("test") \/ Next1("read")
  /\ Op[2] \in stale
  /\ readers' = Cleared(Tracked(readers, Op[2], Top.node), {Op[2]})
  /\ stack' = Append(stack, BodyFrame(Op[2], Op[2], FALSE))
  /\ UNCHANGED <<program, value, memo, stale, batched, live, shown, drainVars,
                 regionVars, historyVars>>

\* A body writes a signal.  While a page is first rendered no drain is in
\* progress, so this write drains at once, inside the body.
Set ==
  /\ Next1("set")
  /\ WriteSignal(Op[2], Op[3], Len(stack))
  /\ stack' = OnTop(Done)
  /\ UNCHANGED <<program, memo, stale, readers, batched, live, shown, regionVars,
                 historyVars>>

\* The end of a body: a derived has its value; an effect's run is complete,
\* and the first run hands its disposer to the scope that is open.
Return ==
  /\ Running /\ Top.todo = <<>>
  /\ LET node == Top.node
         rest == Front(stack)
     IN /\ IF node \in Derived
             THEN /\ memo' = [memo EXCEPT ![node] = [key |-> Top.seen[1].key,
                                                     from |-> Top.seen]]
                  /\ stale' = stale \ {node}
                  /\ UNCHANGED <<shown, torn>>
             ELSE /\ shown' = IF node \in Effect THEN [shown EXCEPT ![node] = Top.seen]
                                                 ELSE shown
                  /\ torn' = torn \ {node}
                  /\ UNCHANGED <<memo, stale>>
        /\ stack' = IF Top.first
                      THEN [rest EXCEPT ![Len(rest)].made = Append(@, node)]
                      ELSE rest
  /\ UNCHANGED <<program, value, readers, batched, live, drainVars, regionVars,
                 halfArm, overrun, faults>>

\* A throw unwinds to the drain, which goes on, or else to the page.
\* Mutant: the drain ends at the first throw.
ThrowEndsTheDrain ==
  /\ Next1("throw")
  /\ LET caught == flushing
         cut == {stack[i].node : i \in (IF caught THEN base + 1 ELSE 1) .. Len(stack)}
     IN /\ stack' = IF caught THEN SubSeq(stack, 1, base) ELSE <<>>
        /\ failure' = FALSE
        /\ batched' = FALSE
        /\ flushing' = FALSE
        /\ ready' = <<>>
        /\ torn' = torn \cup (cut \cap Effect)
        /\ halfArm' = (halfArm \/ Cardinality(cut \cap Effect) > 1)
  /\ UNCHANGED <<base, steps>>
  /\ UNCHANGED <<program, value, memo, stale, readers, live, shown, pending,
                 regionVars, overrun, faults>>

Throw ==
  /\ Next1("throw")
  /\ LET caught == flushing
         cut == {stack[i].node : i \in (IF caught THEN base + 1 ELSE 1) .. Len(stack)}
     IN /\ stack' = IF caught THEN SubSeq(stack, 1, base) ELSE <<>>
        /\ failure' = caught
        /\ batched' = FALSE
        /\ Flush(batched, 0)
        /\ torn' = torn \cup (cut \cap Effect)
        /\ halfArm' = (halfArm \/ Cardinality(cut \cap Effect) > 1)
  /\ UNCHANGED <<program, value, memo, stale, readers, live, shown, pending, ready,
                 regionVars, overrun, faults>>

-----------------------------------------------------------------------------
(* The conditional region of branch.js.                                    *)

\* whenInto and ifInto: nothing for the tag already shown; otherwise the
\* outgoing arm's effects are disposed and the incoming arm is rendered.
Swap ==
  /\ Next1("swap")
  /\ IF Op[2] = tag
       THEN /\ stack' = OnTop(Done)
            /\ UNCHANGED <<tag, arm, live, readers>>
       ELSE /\ tag' = Op[2]
            /\ arm' = <<>>
            /\ live' = live \ ToSet(arm)
            /\ readers' = Cleared(readers, ToSet(arm))
            /\ stack' = OnTop([Done EXCEPT
                 !.todo = [i \in 1 .. Len(Op[3]) |-> <<"mount", Op[3][i]>>]
                          \o <<<<"keep">>>> \o @])
  /\ UNCHANGED <<program, value, memo, stale, batched, shown, drainVars, home, bodyOf,
                 historyVars>>

\* effect(fn): a new instance, run at once inside whoever creates it.
Mount ==
  /\ Next1("mount") /\ Fresh # {}
  /\ LET e == CHOOSE e \in Fresh : TRUE
     IN /\ live' = live \cup {e}
        /\ bodyOf' = [bodyOf EXCEPT ![e] = Op[2]]
        /\ home' = [home EXCEPT ![e] = IF Top.node = Page THEN NoTag ELSE tag]
        /\ stack' = Append(OnTop(Done), BodyFrame(e, Op[2], TRUE))
        /\ torn' = torn \ {e}
        /\ shown' = [shown EXCEPT ![e] = <<>>]
  /\ UNCHANGED <<program, value, memo, stale, readers, batched, drainVars,
                 tag, arm, halfArm, overrun, faults>>

\* owned(fn) returned: from here on the region can dispose the arm.
Keep ==
  /\ Next1("keep")
  /\ arm' = Top.made
  /\ stack' = OnTop([Done EXCEPT !.made = <<>>])
  /\ UNCHANGED <<program, value, memo, stale, readers, batched, live, shown, drainVars,
                 tag, home, bodyOf, historyVars>>

-----------------------------------------------------------------------------
(* What happens to a page.                                                 *)

\* A push writes a cell; a handler writes several in one batch.
Write(s, v) ==
  /\ Idle
  /\ v \in program.inputs[s]
  /\ v \in program.bad => faults < MaxFaults
  /\ faults' = IF v \in program.bad THEN faults + 1 ELSE faults
  /\ value[s] # v
  /\ WriteSignal(s, v, 0)
  /\ UNCHANGED <<program, memo, stale, readers, batched, stack, live, shown,
                 regionVars, torn, halfArm, overrun>>

\* on(): the handler is one batch.
HandlerStarts ==
  /\ Idle /\ ~batched
  /\ batched' = TRUE
  /\ UNCHANGED <<program, value, memo, stale, readers, stack, live, shown, drainVars,
                 regionVars, historyVars>>

HandlerReads(d) ==
  /\ Idle /\ batched /\ d \in stale
  /\ stack' = <<Frame(Page, <<<<"read", d>>>>, FALSE)>>
  /\ UNCHANGED <<program, value, memo, stale, readers, batched, live, shown, drainVars,
                 regionVars, historyVars>>

HandlerEnds ==
  /\ Idle /\ batched
  /\ batched' = FALSE
  /\ Flush(TRUE, 0)
  /\ UNCHANGED <<program, value, memo, stale, readers, stack, live, shown, pending,
                 ready, failure, regionVars, historyVars>>

\* A page starts by rendering its effects.
Init ==
  /\ program \in Programs
  /\ value = [s \in Signal |-> 0]
  /\ memo = [d \in Derived |-> [key |-> 0, from |-> <<>>]]
  /\ stale = Derived
  /\ readers = [c \in Cell |-> <<>>]
  /\ pending = <<>> /\ ready = <<>>
  /\ flushing = FALSE /\ base = 0 /\ steps = 0 /\ failure = FALSE
  /\ batched = FALSE
  /\ stack = <<Frame(Page, [i \in 1 .. Len(program.roots)
                              |-> <<"mount", program.roots[i]>>], FALSE)>>
  /\ live = {}
  /\ bodyOf = [e \in Effect |-> NoTag]
  /\ shown = [e \in Effect |-> <<>>]
  /\ tag = NoTag /\ arm = <<>>
  /\ home = [e \in Effect |-> NoTag]
  /\ torn = {} /\ halfArm = FALSE /\ overrun = FALSE /\ faults = 0

Drain == Snapshot \/ RunNext \/ GiveUp \/ Settle
BodyStep == Read \/ Recompute \/ Set \/ Return \/ Throw \/ Swap \/ Mount \/ Keep

Next ==
  \/ Drain
  \/ BodyStep
  \/ \E s \in Signal, v \in Val : Write(s, v)
  \/ HandlerStarts
  \/ \E d \in Derived \cap DOMAIN program.body : HandlerReads(d)
  \/ HandlerEnds

Spec == Init /\ [][Next]_vars

\* JavaScript runs what it started to its end.
LiveSpec == Spec /\ WF_vars(Drain \/ BodyStep)

-----------------------------------------------------------------------------
(* What a page ought to show: the same programs, evaluated from the signals *)
(* alone, with no memory, no subscriptions and no order.                    *)

Throws == [key |-> -1, from |-> <<>>]

\* The cells one run of the body b reads, given what its test found.
Reads(b, key) ==
  <<b.test>> \o [i \in 1 .. Len(SelectSeq(b.then[key], LAMBDA op : op[1] = "read"))
                  |-> SelectSeq(b.then[key], LAMBDA op : op[1] = "read")[i][2]]
Fails(b, key) == \E i \in 1 .. Len(b.then[key]) : b.then[key][i] = <<"throw">>

Evaluated[n \in Signal \cup DOMAIN program.body] ==
  IF n \in Signal THEN [key |-> value[n], from |-> <<>>]
  ELSE LET b == program.body[n]
           key == Evaluated[b.test].key
       IN IF key = -1 \/ Fails(b, key) THEN Throws
          ELSE LET seen == [i \in 1 .. Len(Reads(b, key)) |-> Evaluated[Reads(b, key)[i]]]
               IN IF Throws \in ToSet(seen) THEN Throws ELSE [key |-> key, from |-> seen]

Settled == Idle /\ ~batched

\* Every path from a signal to a computation has one length, and no
\* computation writes: then a drain reaches it in one round.
Depth[n \in Signal \cup DOMAIN program.body] ==
  IF n \in Signal THEN 0 ELSE Depth[program.body[n].test] + 1
Leveled ==
  \A n \in DOMAIN program.body, key \in Val :
    LET b == program.body[n]
    IN /\ \A c \in ToSet(Reads(b, key)) : Depth[c] + 1 = Depth[n]
       /\ \A op \in ToSet(b.then[key]) : op[1] \in {"read", "throw"}

-----------------------------------------------------------------------------

TypeOK ==
  /\ program \in Programs
  /\ value \in [Signal -> Val]
  /\ \A d \in Derived : memo[d].key \in Val
  /\ stale \subseteq Derived
  /\ \A c \in Cell : ToSet(readers[c]) \subseteq Computation /\ IsInjective(readers[c])
  /\ ToSet(pending) \subseteq Computation /\ IsInjective(pending)
  /\ ToSet(ready) \subseteq Computation
  /\ flushing \in BOOLEAN /\ failure \in BOOLEAN /\ batched \in BOOLEAN
  /\ base \in 0 .. Len(stack) \/ ~flushing
  /\ steps \in 0 .. STEP_LIMIT
  /\ \A i \in 1 .. Len(stack) : stack[i].node \in Computation \cup {Page}
  /\ live \subseteq Effect /\ ToSet(arm) \subseteq live

(* When an update is over, every live effect shows the signals as they are, *)
(* unless it throws on them or the step limit cut the update short: no mark *)
(* is lost by a throw, by dependencies that come and go, by an effect that  *)
(* writes or by a derived read before its mark arrived                      *)
(* (signal.js: "Draining rather than iterating").  An effect whose region   *)
(* threw half-way is excepted.                                              *)
SettledEffectsAreCurrent ==
  Settled /\ ~overrun =>
    \A e \in live :
      LET now == Evaluated[bodyOf[e]]
      IN IF e \in torn THEN now = Throws \/ halfArm ELSE shown[e] = now.from

(* A disposed effect is silent: it is subscribed to nothing and never runs, *)
(* although a drain may have taken it into its snapshot before another      *)
(* member of that snapshot disposed it (signal.js: "`clearSources` cannot   *)
(* retract a run the drain has snapshotted").                               *)
DisposedEffectsAreSilent ==
  \A e \in Effect \ live :
    /\ \A c \in Cell : e \notin ToSet(readers[c])
    /\ \A i \in 1 .. Len(stack) : stack[i].node # e

(* The effects of an arm never run on the payload of another arm: between   *)
(* the write of the new payload and the disposal of the old arm no effect   *)
(* of the old arm runs (branch.js: `fields` is written before the tag is    *)
(* compared); and when an update is over, the live effects are those of the *)
(* page and of the arm shown: no swap leaves one behind.  Excepted is a     *)
(* page on which an arm threw half-way: `owned` loses the disposers of what *)
(* that arm had mounted.                                                    *)
ArmsAreWhole ==
  ~halfArm =>
    /\ \A i \in 1 .. Len(stack) :
         LET f == stack[i]
         IN f.node \in Effect /\ f.seen # <<>> /\ home[f.node] # NoTag
            /\ program.body[bodyOf[f.node]].test = program.payload
              => program.tagOf[f.seen[1].key] = home[f.node]
    /\ Settled /\ ~overrun =>
         \A e \in live : home[e] # NoTag => e \in ToSet(arm) /\ home[e] = tag

(* No glitch: in a program whose paths have equal lengths, what an effect   *)
(* read in one run are the values the signals have then, never one side of  *)
(* a diamond updated and the other stale (signal.test.js: "a diamond never  *)
(* shows one side updated and the other stale").                            *)
EffectsSeeOneState ==
  [][Leveled => \A e \in Effect :
       shown'[e] # shown[e] => shown'[e] \in {<<>>, Evaluated[bodyOf[e]].from}]_vars

(* An update ends, whatever the program: a cycle of effects that write what *)
(* they read meets the step limit.                                          *)
UpdatesEnd == []<>Idle
=============================================================================
