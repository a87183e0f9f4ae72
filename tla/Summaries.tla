----------------------------- MODULE Summaries -----------------------------
(***************************************************************************)
(* Phase 2 of the information-flow pass (`Ifc::summarise` and the walk of  *)
(* a body, src/crates/zdc-graph/src/ifc.rs): every function is summarised  *)
(* in every context it runs in, the summaries answering the calls between  *)
(* functions, until a round changes none of them.                          *)
(*                                                                         *)
(* A body is a list of statements and an expression a tuple, headed by the *)
(* kind of its rule:                                                       *)
(*   <<"constant">>, <<"environment">>, <<"local", x>>                     *)
(*   <<"signal", s, site>>       a read of the signal s                    *)
(*   <<"join", es>>              literals, constructors, binary operators, *)
(*                               conditionals                              *)
(*   <<"gather", es, e>>         append, insert and index: es and the      *)
(*                               collection e                              *)
(*   <<"operator", e>>, <<"field", e, name>> (and `build`)                 *)
(*   <<"inside", x, e, to>>      map each x in e to ..                     *)
(*   <<"call", f, es>>, <<"foreign", es, site, browser>>                   *)
(*                                                                         *)
(* An operator that walks takes the state of the walk, w, and `by`, which  *)
(* says how calls are answered.                                            *)
(***************************************************************************)
EXTENDS Labels, FiniteSets, SequencesExt

CONSTANTS
  Programs,      \* the programs of a run
  UNFOLDINGS     \* bound: how deep the reference definition follows calls

ASSUME SummariesAssumption == UNFOLDINGS \in Nat

VARIABLES
  program,
  summary,       \* summary[<<f, ctx>>]: the function f where ctx runs it
  next,          \* the position of the key that is solved next
  changed,       \* this round changed a summary
  round,         \* rounds so far
  done           \* summarise has returned

vars == <<program, summary, next, changed, round, done>>

-----------------------------------------------------------------------------
(* The state of a walk.                                                    *)

Walk(locals) ==
  [locals |-> locals, failed |-> {}, pc |-> Bottom, acc |-> BottomL,
   result |-> BottomL, obligations |-> NoObligations]

Local(w, x) == IF x \in DOMAIN w.locals THEN w.locals[x] ELSE BottomL
Bound(w, xs, label) ==
  [w EXCEPT !.locals = [x \in DOMAIN @ \cup xs |-> IF x \in xs THEN label ELSE @[x]]]

\* found[site]: what is found at the site.
Oblige(w, required, found) ==
  [w EXCEPT !.obligations =
     Obliged(@, [site \in DOMAIN found |->
                   [required |-> required, found |-> found[site], pc |-> w.pc]])]

\* returns: every spelling of a return joins, under the pc in force.
Returns(w, label) == [w EXCEPT !.result = JoinL(@, JoinAll(label, w.pc))]

Values(labels) ==
  LET all == {labels[i]["value"] : i \in DOMAIN labels}
  IN [floor |-> IF \E s \in all : s.floor = "secret" THEN "secret" ELSE "public",
      deps |-> UNION {s.deps : s \in all}]

\* read: from the browser, a server signal is a request whose success is
\* obliged to be public and whose failure is worth all the endpoint reads.
Crosses(by, s) == by.ctx = "client" /\ by.program.signals[s].server
Declared(by, s) == by.program.signals[s].secrecy
RemoteFailure(by, s) ==
  Floor(IF \E r \in by.program.signals[s].reads : Declared(by, r) = "secret"
          THEN "secret" ELSE "public")

\* What a call brings into the body that makes it.
Propagated(w, answer) ==
  [w EXCEPT !.obligations =
     Obliged(@, [site \in DOMAIN answer.obligations |->
                   [answer.obligations[site] EXCEPT !.pc = Join(@, w.pc)]])]

InstantiateS(s, args) ==
  [result |-> InstantiateL(s.result, args),
   obligations |-> [site \in DOMAIN s.obligations |->
     [s.obligations[site] EXCEPT !.found = Instantiate(@, args), !.pc = Instantiate(@, args)]]]

RECURSIVE Expr(_, _, _), Exprs(_, _, _), Arms(_, _, _, _, _), Block(_, _, _),
          Solved(_, _, _, _), Unfolded(_, _, _, _)

Exprs(by, w, es) ==
  LET With(before, x) == [w |-> x.w, labels |-> Append(before.labels, x.label)]
      One(before) == With(before, Expr(by, before.w, Last(es)))
  IN IF es = <<>> THEN [w |-> w, labels |-> <<>>] ELSE One(Exprs(by, w, Front(es)))

\* A call is answered by the callee's summary; a walk that keeps traces
\* solves the callee again, three calls deep; the reference walks its body.
Answer(by, f, labels) ==
  LET key == <<f, by.ctx>>
  IN IF by.how = "unfold"
       THEN IF by.depth = 0 THEN BottomSummary
            ELSE Unfolded(by.program, key, labels, by.depth - 1)
     ELSE InstantiateS(IF by.depth < 3 THEN Solved(by.program, by.table, key, by.depth + 1)
                       ELSE IF key \in DOMAIN by.table THEN by.table[key]
                       ELSE BottomSummary, labels)

\* What each rule makes of its sub-expressions, evaluated: [w, label], or
\* [w, labels] for a list.
Joined(args) == [w |-> args.w, label |-> Triple(Values(args.labels))]
Gathered(args, whole) ==
  [w |-> whole.w,
   label |-> Triple(Join(Values(args.labels), Join(whole.label["shape"], whole.label["value"])))]
Operated(arg) == [arg EXCEPT !.label = [@ EXCEPT !["shape"] = arg.label["value"]]]
Field(arg) == [arg EXCEPT !.label = Triple(@["value"])]
Inside(source, to) ==
  LET raw == [obs \in Obs |-> IF obs = "value" THEN to.label["value"]
                              ELSE Join(to.label["value"], source.label[obs])]
  IN [w |-> to.w, label |-> Settle(JoinAll(raw, to.w.pc))]
Called(given, answer) ==
  [w |-> Propagated(given.w, answer), label |-> answer.result]
Sent(args, site) ==
  [Joined(args) EXCEPT !.w = Oblige(@, "public",
     [at \in {<<site, i>> : i \in DOMAIN args.labels} |-> args.labels[at[2]]["value"]])]

\* Walk::expr
Expr(by, w, e) ==
  LET Inner(source) ==
        Inside(source, Expr(by, Bound(source.w, {e[2]}, Triple(source.label["value"])), e[4]))
      Ask(given) == Called(given, Answer(by, e[2], given.labels))
  IN CASE e[1] = "constant" -> [w |-> w, label |-> BottomL]
       [] e[1] = "environment" -> [w |-> w, label |-> Triple(Floor("secret"))]
       [] e[1] = "local" -> [w |-> w, label |-> Local(w, e[2])]
       [] e[1] = "signal" ->
            IF Crosses(by, e[2])
              THEN [w |-> Oblige(w, "public", [at \in {e[3]} |-> Floor(Declared(by, e[2]))]),
                    label |-> [BottomL EXCEPT !["failure"] = RemoteFailure(by, e[2])]]
              ELSE [w |-> w, label |-> Triple(Floor(Declared(by, e[2])))]
       [] e[1] = "join" -> Joined(Exprs(by, w, e[2]))
       [] e[1] = "gather" ->
            LET Whole(args) == Gathered(args, Expr(by, args.w, e[3]))
            IN Whole(Exprs(by, w, e[2]))
       [] e[1] = "operator" -> Operated(Expr(by, w, e[2]))
       [] e[1] = "field" ->
            IF e[3] = "code" /\ e[2][1] = "local" /\ e[2][2] \in w.failed
              THEN [w |-> w, label |-> BottomL]
              ELSE Field(Expr(by, w, e[2]))
       [] e[1] = "inside" -> Inner(Expr(by, w, e[3]))
       [] e[1] = "call" -> Ask(Exprs(by, w, e[3]))
       [] e[1] = "foreign" ->
            IF e[4] THEN Sent(Exprs(by, w, e[2]), e[3]) ELSE Joined(Exprs(by, w, e[2]))

-----------------------------------------------------------------------------
(* Statements.  A pipeline clause works on the accumulator; a run of them   *)
(* ends in a return of it.                                                  *)

Clauses == {"from", "keep", "sort", "take", "map", "fold"}

\* The binder of a clause is one element.
Element(w, x) == Bound(w, {x}, Triple(w.acc["value"]))

Fed(x) == [x.w EXCEPT !.acc = JoinL(@, JoinAll(x.label, x.w.pc))]
Picked(x) == [x.w EXCEPT !.acc = RaiseShape(@, Join(x.label["value"], x.w.pc))]
Mapped(x) ==
  [x.w EXCEPT !.acc = [@ EXCEPT !["value"] = Join(@, Join(x.label["value"], x.w.pc))]]
Folded(seed, step) ==
  [step.w EXCEPT !.acc = Triple(Join(Join(@["shape"], seed["value"]),
                                     Join(step.label["value"], step.w.pc)))]

Pipeline(by, w, s) ==
  LET Fold(seed) ==
        Folded(seed.label, Expr(by, Bound(Element(seed.w, s[2]), {s[3]}, seed.label), s[5]))
  IN CASE s[1] = "from" -> Fed(Expr(by, w, s[2]))
       [] s[1] = "take" -> Picked(Expr(by, w, s[2]))
       [] s[1] \in {"keep", "sort"} -> Picked(Expr(by, Element(w, s[2]), s[3]))
       [] s[1] = "map" -> Mapped(Expr(by, Element(w, s[2]), s[3]))
       [] s[1] = "fold" -> Fold(Expr(by, w, s[4]))

\* The arms of a `when`, each from the accumulator before it, the results joined.
Arm(by, w, scrutinee, arm, acc) ==
  Block(by, [Bound(w, arm.binds, Triple(scrutinee[IF arm.failed THEN "failure" ELSE "value"]))
               EXCEPT !.failed = IF arm.failed THEN @ \cup arm.binds ELSE @,
                      !.acc = acc], arm.body)
Arms(by, w, scrutinee, arms, acc) ==
  LET Joining(before) == [Arm(by, before, scrutinee, Last(arms), acc)
                          EXCEPT !.acc = JoinL(before.acc, @)]
  IN IF arms = <<>> THEN [w EXCEPT !.acc = BottomL]
     ELSE Joining(Arms(by, w, scrutinee, Front(arms), acc))

\* The statements that branch, their subject evaluated.
When(by, x, s) ==
  IF s[3] = <<>> THEN x.w
  ELSE Arms(by, [x.w EXCEPT !.pc = Join(@, x.label["shape"])], x.label, s[3], x.w.acc)
Each(by, x, s) ==
  LET body == Block(by, [Bound(x.w, {s[2]}, Triple(x.label["value"]))
                           EXCEPT !.pc = Join(@, x.label["shape"])], s[4])
  IN [body EXCEPT !.acc = JoinL(x.w.acc, @)]
If(by, x, s) ==
  LET Else(then) == [Block(by, [then EXCEPT !.acc = x.w.acc], s[4])
                       EXCEPT !.acc = JoinL(JoinL(x.w.acc, then.acc), @)]
  IN Else(Block(by, [x.w EXCEPT !.pc = Join(@, x.label["value"])], s[3]))

Given(x) == Returns(x.w, x.label)
Named(x, name) == Bound(x.w, {name}, JoinAll(x.label, x.w.pc))
Written(by, x, s) == 
  Oblige(x.w, Declared(by, s[2]), [at \in {s[4]} |-> Values(x.labels)])

Stmt(by, w, s) ==
  CASE s[1] \in Clauses -> Pipeline(by, w, s)
    [] s[1] = "give" -> Given(Expr(by, w, s[2]))
    [] s[1] = "when" -> [When(by, Expr(by, w, s[2]), s) EXCEPT !.pc = w.pc]
    [] s[1] = "each" -> [Each(by, Expr(by, w, s[3]), s) EXCEPT !.pc = w.pc]
    [] s[1] = "if" -> [If(by, Expr(by, w, s[2]), s) EXCEPT !.pc = w.pc]
    [] s[1] = "bind" -> Named(Expr(by, w, s[3]), s[2])
    [] s[1] = "do" -> Expr(by, w, s[2]).w
    [] s[1] = "write" -> Written(by, Exprs(by, w, s[3]), s)

Block(by, w, body) ==
  LET ends == Head(body)[1] \in Clauses
              /\ (Len(body) = 1 \/ body[2][1] \notin Clauses)
      Rest(v) == Block(by, IF ends THEN Returns(v, v.acc) ELSE v, Tail(body))
  IN IF body = <<>> THEN w ELSE Rest(Stmt(by, w, Head(body)))

-----------------------------------------------------------------------------
(* One function.                                                           *)

Params(p, key) == p.functions[key[1]].params

\* What is left of a walk of the body, its parameters labelled so.
Body(by, p, key, labels) ==
  LET xs == Params(p, key)
      walked == Block(by, Walk([x \in Range(xs) |-> labels[IndexFirstSubSeq(<<x>>, xs)]]),
                      p.functions[key[1]].body)
  IN [result |-> JoinL(walked.result, walked.acc), obligations |-> walked.obligations]

\* solve_function
Solved(p, table, key, depth) ==
  Body([how |-> "summary", program |-> p, ctx |-> key[2], table |-> table, depth |-> depth],
       p, key, [i \in 1 .. Len(Params(p, key)) |-> ParamL(i)])

\* A walk without traces asks the summaries at once.
Solve(p, table, key) == Solved(p, table, key, 3)

\* The reference: the callee's body in place of every call.
Unfolded(p, key, labels, depth) ==
  Body([how |-> "unfold", program |-> p, ctx |-> key[2], depth |-> depth], p, key, labels)

-----------------------------------------------------------------------------
(* summarise.                                                              *)

Keys(p) == Range(p.keys)
Limit == 8 * (Len(program.keys) + 1) * (program.exprs + 1)

\* Mutant: the results are compared and the obligations are not.
SameResult(before, solved) == before.result = solved.result

Same(before, solved) ==
  /\ before.result = solved.result
  /\ DOMAIN before.obligations = DOMAIN solved.obligations
  /\ \A site \in DOMAIN before.obligations :
       before.obligations[site] = solved.obligations[site]

\* Mutant: a round remembers only its last function.
SolveNextForgetful ==
  /\ ~done /\ next <= Len(program.keys)
  /\ LET key == program.keys[next]
         solved == Solve(program, summary, key)
     IN /\ changed' = ~Same(summary[key], solved)
        /\ summary' = [summary EXCEPT ![key] = solved]
  /\ next' = next + 1
  /\ UNCHANGED <<program, round, done>>

SolveNext ==
  /\ ~done /\ next <= Len(program.keys)
  /\ LET key == program.keys[next]
         solved == Solve(program, summary, key)
     IN IF Same(summary[key], solved)
          THEN UNCHANGED <<summary, changed>>
          ELSE /\ summary' = [summary EXCEPT ![key] = solved]
               /\ changed' = TRUE
  /\ next' = next + 1
  /\ UNCHANGED <<program, round, done>>

NextRound ==
  /\ ~done /\ next > Len(program.keys)
  /\ changed /\ round + 1 < Limit
  /\ round' = round + 1
  /\ changed' = FALSE /\ next' = 1
  /\ UNCHANGED <<program, summary, done>>

\* Nothing changed, or the bound is reached.
Return ==
  /\ ~done /\ next > Len(program.keys)
  /\ ~changed \/ round + 1 >= Limit
  /\ done' = TRUE
  /\ UNCHANGED <<program, summary, next, changed, round>>

Init ==
  /\ program \in Programs
  /\ summary = [key \in Keys(program) |-> BottomSummary]
  /\ next = 1 /\ changed = FALSE /\ round = 0 /\ done = FALSE

Next == SolveNext \/ NextRound \/ Return

Spec == Init /\ [][Next]_vars

-----------------------------------------------------------------------------

Arguments ==
  {DeclaredL(label) : label \in {l \in [Obs -> Secrecy] : Ordered(l)}}

(* A summary says exactly what following every call would: for whatever    *)
(* arguments, the label of the result and every obligation are those of a  *)
(* walk that replaces calls by bodies; and the walk that explains a        *)
(* refusal, which solves callees again three calls deep and the summaries  *)
(* below, reaches the same verdict (ifc.rs: "the same verdict with a       *)
(* shorter path").                                                         *)
SummariesAreExact ==
  done => \A key \in Keys(program) :
    /\ Solved(program, summary, key, 0) = summary[key]
    /\ \A args \in [1 .. Len(Params(program, key)) -> Arguments] :
         InstantiateS(summary[key], args) = Unfolded(program, key, args, UNFOLDINGS)

LS == INSTANCE LeastSolution
        WITH Entry <- Summary, Least <- BottomSummary, AtMost <- BelowS, table <- summary

(* The pass returns only when no function's summary would change, whatever *)
(* the order and the recursion: the bound is never what ends it.           *)
ReturnsASolution == LS!Spec
=============================================================================
