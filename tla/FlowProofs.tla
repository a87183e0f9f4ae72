----------------------------- MODULE FlowProofs -----------------------------
(***************************************************************************)
(* The flow pass: the laws of the label lattice it relies on, for labels   *)
(* over any number of parameters, and its loop, which ends only at the     *)
(* least solution, whatever the order in which functions are solved, when  *)
(* solving is monotone over a partial order.                               *)
(***************************************************************************)
EXTENDS Labels, LeastSolution, TLAPS

-----------------------------------------------------------------------------
(* Labels.                                                                 *)

\* The labels of a call's arguments.
Args == Seq(SymLabel)

\* A call inside a call: the labels of the inner arguments, in the outer
\* function's parameters, once the outer one is called.
Through(args, outer) == [i \in DOMAIN args |-> InstantiateL(args[i], outer)]

LEMMA LabelFields ==
  ASSUME NEW s \in Sym
  PROVE  /\ s.floor \in Secrecy /\ s.deps \subseteq Param \X Obs
         /\ s = [floor |-> s.floor, deps |-> s.deps]
  BY DEF Sym

LEMMA JoinType ==
  ASSUME NEW s \in Sym, NEW t \in Sym
  PROVE  Join(s, t) \in Sym
  BY DEF Join, Sym, Higher, Secrecy

LEMMA InstantiateType ==
  ASSUME NEW s \in Sym, NEW args \in Args
  PROVE  Instantiate(s, args) \in Sym
<1> DEFINE used == {e \in s.deps : e[1] \in DOMAIN args}
<1>1. ASSUME NEW d \in used PROVE args[d[1]][d[2]].deps \subseteq Param \X Obs
  <2>1. d[2] \in Obs /\ d[1] \in DOMAIN args
    BY LabelFields
  <2>2. args[d[1]] \in SymLabel
    BY <2>1 DEF Args
  <2> QED
    BY <2>1, <2>2 DEF SymLabel, Sym
<1>2. UNION {args[d[1]][d[2]].deps : d \in used} \subseteq Param \X Obs
  BY <1>1
<1> QED
  BY <1>2 DEF Instantiate, Sym, Secrecy

\* Labels are ordered, and a join is the least label above both: a rule that
\* joins says all that flows into a value and no more (label.rs: "The only
\* operation there is").
THEOREM JoinIsLeast ==
  ASSUME NEW s \in Sym, NEW t \in Sym, NEW u \in Sym
  PROVE  /\ Below(s, s) /\ Below(Bottom, s)
         /\ Below(s, t) /\ Below(t, s) => s = t
         /\ Below(s, t) /\ Below(t, u) => Below(s, u)
         /\ Below(s, Join(s, t)) /\ Below(t, Join(s, t))
         /\ Below(s, u) /\ Below(t, u) => Below(Join(s, t), u)
<1>1. /\ Below(s, s) /\ Below(Bottom, s)
      /\ Below(s, t) /\ Below(t, u) => Below(s, u)
      /\ Below(s, Join(s, t)) /\ Below(t, Join(s, t))
      /\ Below(s, u) /\ Below(t, u) => Below(Join(s, t), u)
  BY LabelFields DEF Below, Join, Bottom, Floor, FlowsTo, Higher, Secrecy
<1>2. Below(s, t) /\ Below(t, s) => s = t
  BY LabelFields DEF Below, FlowsTo, Secrecy
<1> QED
  BY <1>1, <1>2

\* Substituting arguments distributes over joins, so it does not matter
\* whether a body's labels are joined before or after the call is known.
THEOREM InstantiateJoins ==
  ASSUME NEW s \in Sym, NEW t \in Sym, NEW args \in Args
  PROVE  Instantiate(Join(s, t), args) = Join(Instantiate(s, args), Instantiate(t, args))
<1> DEFINE both == Join(s, t)
           here(x) == {e \in x.deps : e[1] \in DOMAIN args}
<1>1. both.deps = s.deps \cup t.deps /\ (both.floor = "secret" <=> s.floor = "secret" \/ t.floor = "secret")
  BY DEF Join, Higher
<1>2. here(both) = here(s) \cup here(t)
  BY <1>1
<1>3. UNION {args[d[1]][d[2]].deps : d \in here(both)}
        = (UNION {args[d[1]][d[2]].deps : d \in here(s)})
          \cup (UNION {args[d[1]][d[2]].deps : d \in here(t)})
  BY <1>2
<1>4. Instantiate(both, args).deps = Join(Instantiate(s, args), Instantiate(t, args)).deps
  BY <1>3 DEF Instantiate, Join
<1>5. Instantiate(both, args).floor = Join(Instantiate(s, args), Instantiate(t, args)).floor
  <2> HIDE DEF both
  <2> QED
    BY <1>1 DEF Instantiate, Join, Higher
<1> QED
  BY <1>4, <1>5 DEF Instantiate, Join

\* More secret arguments, or a more secret summary, never make a call less
\* secret: what the fixed point of summaries needs.
THEOREM InstantiateGrows ==
  ASSUME NEW s \in Sym, NEW t \in Sym, Below(s, t),
         NEW args \in Args, NEW more \in Args, DOMAIN args = DOMAIN more,
         \A i \in DOMAIN args : BelowL(args[i], more[i])
  PROVE  Below(Instantiate(s, args), Instantiate(t, more))
<1>1. ASSUME NEW d \in s.deps
      PROVE  d \in t.deps /\ d[2] \in Obs
             /\ (d[1] \in DOMAIN args => Below(args[d[1]][d[2]], more[d[1]][d[2]]))
  BY LabelFields DEF Below, BelowL
<1>2. FlowsTo(Instantiate(s, args).floor, Instantiate(t, more).floor)
  BY <1>1, LabelFields DEF Instantiate, Below, FlowsTo, Secrecy
<1>3. Instantiate(s, args).deps \subseteq Instantiate(t, more).deps
  BY <1>1 DEF Instantiate, Below
<1> QED
  BY <1>2, <1>3 DEF Below

\* Summaries compose: substituting a call's arguments into a summary, and an
\* outer call's arguments into the result, is substituting at once what the
\* outer call makes of each argument (label.rs: "what makes summaries compose
\* without a second fixpoint").  Arguments that are missing are included.
THEOREM SummariesCompose ==
  ASSUME NEW s \in Sym, NEW args \in Args, NEW outer \in Args
  PROVE  Instantiate(Instantiate(s, args), outer) = Instantiate(s, Through(args, outer))
<1> DEFINE through == Through(args, outer)
           here == {e \in s.deps : e[1] \in DOMAIN args}
           inner == Instantiate(s, args)
<1>1. DOMAIN through = DOMAIN args
  BY DEF Through
<1>2. ASSUME NEW d \in here
      PROVE  through[d[1]][d[2]] = Instantiate(args[d[1]][d[2]], outer)
  BY <1>1, LabelFields DEF Through, InstantiateL
<1>3. inner.deps = UNION {args[d[1]][d[2]].deps : d \in here}
  BY DEF Instantiate
<1>4. Instantiate(inner, outer).deps = Instantiate(s, through).deps
  <2>1. Instantiate(s, through).deps
          = UNION {Instantiate(args[d[1]][d[2]], outer).deps : d \in here}
    BY <1>1, <1>2 DEF Instantiate
  <2>2. \A d \in here : Instantiate(args[d[1]][d[2]], outer).deps
          = UNION {outer[e[1]][e[2]].deps
                   : e \in {f \in args[d[1]][d[2]].deps : f[1] \in DOMAIN outer}}
    BY DEF Instantiate
  <2>3. Instantiate(inner, outer).deps
          = UNION {outer[e[1]][e[2]].deps : e \in {f \in inner.deps : f[1] \in DOMAIN outer}}
    BY DEF Instantiate
  <2>4. ASSUME NEW x
        PROVE  x \in Instantiate(inner, outer).deps <=> x \in Instantiate(s, through).deps
    <3>1. x \in Instantiate(inner, outer).deps
            <=> \E e \in inner.deps : e[1] \in DOMAIN outer /\ x \in outer[e[1]][e[2]].deps
      BY <2>3
    <3>2. x \in Instantiate(s, through).deps
            <=> \E d \in here : \E e \in args[d[1]][d[2]].deps :
                  e[1] \in DOMAIN outer /\ x \in outer[e[1]][e[2]].deps
      BY <2>1, <2>2
    <3>3. \A e : e \in inner.deps <=> \E d \in here : e \in args[d[1]][d[2]].deps
      BY <1>3
    <3> QED
      BY <3>1, <3>2, <3>3
  <2> HIDE DEF inner, through
  <2> QED
    BY <2>4
<1>5. Instantiate(inner, outer).floor = Instantiate(s, through).floor
  <2>1. inner.floor = "secret"
          <=> \/ s.floor = "secret"
              \/ \E d \in s.deps : d[1] \in DOMAIN args => args[d[1]][d[2]].floor = "secret"
    BY DEF Instantiate
  <2>2. Instantiate(inner, outer).floor = "secret"
          <=> \/ inner.floor = "secret"
              \/ \E e \in inner.deps : e[1] \in DOMAIN outer => outer[e[1]][e[2]].floor = "secret"
    BY DEF Instantiate
  <2>3. Instantiate(s, through).floor = "secret"
          <=> \/ s.floor = "secret"
              \/ \E d \in s.deps : d[1] \in DOMAIN args => through[d[1]][d[2]].floor = "secret"
    BY <1>1 DEF Instantiate
  <2>4. \A d \in here : Instantiate(args[d[1]][d[2]], outer).floor = "secret"
          <=> \/ args[d[1]][d[2]].floor = "secret"
              \/ \E e \in args[d[1]][d[2]].deps :
                   e[1] \in DOMAIN outer => outer[e[1]][e[2]].floor = "secret"
    BY DEF Instantiate
  <2>5. Instantiate(inner, outer).floor = "secret" <=> Instantiate(s, through).floor = "secret"
    <3> HIDE DEF inner, through
    <3> QED
      BY <1>2, <1>3, <2>1, <2>2, <2>3, <2>4
  <2>6. /\ Instantiate(inner, outer).floor \in {"public", "secret"}
        /\ Instantiate(s, through).floor \in {"public", "secret"}
    BY DEF Instantiate
  <2> QED
    BY <2>5, <2>6
<1> QED
  BY <1>4, <1>5 DEF Instantiate

\* A rule that raises a shape leaves it below the value for every call whose
\* arguments are so (label.rs: "the invariant then drags `value` up").
THEOREM RaisingKeepsOrder ==
  ASSUME NEW l \in SymLabel, NEW s \in Sym, NEW args \in Args,
         Ordered(ConcreteL(InstantiateL(l, args)))
  PROVE  Ordered(ConcreteL(InstantiateL(RaiseShape(l, s), args)))
<1> DEFINE shape == Join(l["shape"], s)
           raised == RaiseShape(l, s)
<1>1. "shape" \in Obs /\ "value" \in Obs /\ "shape" # "value"
  BY DEF Obs
<1>2. l["shape"] \in Sym /\ l["value"] \in Sym /\ shape \in Sym
  BY <1>1, JoinType DEF SymLabel
<1>3. raised["shape"] = shape /\ raised["value"] = Join(l["value"], shape)
  BY <1>1 DEF RaiseShape, Settle, SymLabel
<1>4. Instantiate(raised["value"], args)
        = Join(Instantiate(l["value"], args), Instantiate(shape, args))
  BY <1>2, <1>3, InstantiateJoins
<1>5. Instantiate(shape, args) \in Sym
  BY <1>2, InstantiateType
<1>6. FlowsTo(Instantiate(shape, args).floor, Instantiate(raised["value"], args).floor)
  BY <1>4, <1>5 DEF Join, Higher, FlowsTo, Sym, Secrecy
<1> HIDE DEF shape
<1> QED
  BY <1>1, <1>3, <1>6 DEF Ordered, ConcreteL, InstantiateL

\* The summaries of functions are partially ordered and begin at the least
\* one, the order LeastSolution asks for (ifc.rs: "a finite lattice").
THEOREM SummariesAreOrdered ==
  /\ BottomSummary \in Summary
  /\ \A s \in Summary : BelowS(BottomSummary, s) /\ BelowS(s, s)
  /\ \A s, t \in Summary : BelowS(s, t) /\ BelowS(t, s) => s = t
  /\ \A s, t, u \in Summary : BelowS(s, t) /\ BelowS(t, u) => BelowS(s, u)
<1>1. Bottom \in Sym
  BY DEF Bottom, Floor, Sym, Secrecy
<1>2. NoObligations \in [{} -> Obligation] /\ DOMAIN NoObligations = {}
  BY DEF NoObligations
<1>3. NoObligations \in Obligations
  BY <1>2 DEF Obligations
<1>4. BottomSummary \in Summary
  BY <1>1, <1>3 DEF BottomSummary, Summary, BottomL, Triple, SymLabel
<1>5. ASSUME NEW s \in Summary
      PROVE  /\ s.result \in SymLabel /\ DOMAIN s.obligations \subseteq Site
             /\ s.obligations = [x \in DOMAIN s.obligations |-> s.obligations[x]]
             /\ \A x \in DOMAIN s.obligations : s.obligations[x] \in Obligation
  BY DEF Summary, Obligations
<1>6. ASSUME NEW o \in Obligation, NEW p \in Obligation, NEW q \in Obligation
      PROVE  /\ BelowO(o, o)
             /\ BelowO(o, p) /\ BelowO(p, o) => o = p
             /\ BelowO(o, p) /\ BelowO(p, q) => BelowO(o, q)
  BY JoinIsLeast DEF Obligation, BelowO
<1>7. ASSUME NEW l \in SymLabel, NEW m \in SymLabel, NEW n \in SymLabel
      PROVE  /\ BelowL(l, l) /\ BelowL(BottomL, l)
             /\ BelowL(l, m) /\ BelowL(m, l) => l = m
             /\ BelowL(l, m) /\ BelowL(m, n) => BelowL(l, n)
  <2>1. \A obs \in Obs : l[obs] \in Sym /\ m[obs] \in Sym /\ n[obs] \in Sym
    BY DEF SymLabel
  <2>2. BelowL(l, l) /\ BelowL(BottomL, l) /\ (BelowL(l, m) /\ BelowL(m, n) => BelowL(l, n))
    BY <2>1, JoinIsLeast DEF BelowL, BottomL, Triple
  <2>3. BelowL(l, m) /\ BelowL(m, l) => \A obs \in Obs : l[obs] = m[obs]
    BY <2>1, JoinIsLeast DEF BelowL
  <2> QED
    BY <2>2, <2>3 DEF SymLabel
<1>8. \A s \in Summary : BelowS(BottomSummary, s) /\ BelowS(s, s)
  BY <1>2, <1>5, <1>6, <1>7 DEF BelowS, BottomSummary
<1>9. ASSUME NEW s \in Summary, NEW t \in Summary, BelowS(s, t), BelowS(t, s)
      PROVE  s = t
  <2>1. s.result = t.result
    BY <1>5, <1>7, <1>9 DEF BelowS
  <2>2. DOMAIN s.obligations = DOMAIN t.obligations
    BY <1>9 DEF BelowS
  <2>3. ASSUME NEW x \in DOMAIN s.obligations
        PROVE  s.obligations[x] = t.obligations[x]
    <3>1. BelowO(s.obligations[x], t.obligations[x]) /\ BelowO(t.obligations[x], s.obligations[x])
      BY <1>9, <2>2 DEF BelowS
    <3>2. s.obligations[x] \in Obligation /\ t.obligations[x] \in Obligation
      BY <1>5, <2>2
    <3> QED
      BY <3>1, <3>2, <1>6
  <2>4. s.obligations = t.obligations
    BY <1>5, <2>2, <2>3
  <2> QED
    BY <2>1, <2>4 DEF Summary
<1>10. ASSUME NEW s \in Summary, NEW t \in Summary, NEW u \in Summary,
              BelowS(s, t), BelowS(t, u)
       PROVE  BelowS(s, u)
  <2>1. BelowL(s.result, u.result)
    BY <1>5, <1>7, <1>10 DEF BelowS
  <2>2. DOMAIN s.obligations \subseteq DOMAIN u.obligations
    BY <1>10 DEF BelowS
  <2>3. ASSUME NEW x \in DOMAIN s.obligations
        PROVE  BelowO(s.obligations[x], u.obligations[x])
    <3>1. x \in DOMAIN t.obligations /\ x \in DOMAIN u.obligations
      BY <1>10, <2>2 DEF BelowS
    <3>2. BelowO(s.obligations[x], t.obligations[x]) /\ BelowO(t.obligations[x], u.obligations[x])
      BY <1>10, <3>1 DEF BelowS
    <3>3. /\ s.obligations[x] \in Obligation /\ t.obligations[x] \in Obligation
          /\ u.obligations[x] \in Obligation
      BY <1>5, <3>1
    <3> QED
      BY <3>2, <3>3, <1>6
  <2> QED
    BY <2>1, <2>2, <2>3 DEF BelowS
<1> QED
  BY <1>4, <1>8, <1>9, <1>10

-----------------------------------------------------------------------------
(* The loop.                                                               *)

\* Every table so far lies below every solution, and solving only raises it.
IInv ==
  /\ program \in Programs
  /\ table \in Tables(program)
  /\ \A k \in Keys(program) : AtMost(table[k], Solve(program, table, k))
  /\ \A u \in Tables(program) : Solution(program, u) => BelowT(table, u)
  /\ done => Solution(program, table)

LEMMA Start ==
  ASSUME PartialOrder, Monotone, Init
  PROVE  IInv
<1>1. table \in Tables(program)
  BY DEF Init, Tables, PartialOrder
<1>2. \A k \in Keys(program) : AtMost(table[k], Solve(program, table, k))
  BY <1>1 DEF Init, PartialOrder, Monotone
<1>3. \A u \in Tables(program) : BelowT(table, u)
  BY DEF Init, PartialOrder, Tables, BelowT
<1> QED
  BY <1>1, <1>2, <1>3 DEF IInv, Init

\* One function solved again: the table grows, and stays below the solutions.
LEMMA Improved ==
  ASSUME PartialOrder, Monotone, IInv, NEW k \in Keys(program), Improve(k)
  PROVE  IInv' /\ BelowT(table, table')
<1>1. /\ program' = program /\ done' = done /\ ~done
      /\ table' = [table EXCEPT ![k] = Solve(program, table, k)]
  BY DEF Improve
<1>2. table \in Tables(program) /\ program \in Programs
  BY DEF IInv
<1>3. Solve(program, table, k) \in Entry
  BY <1>2 DEF Monotone
<1>4. table' \in Tables(program)
  BY <1>1, <1>2, <1>3 DEF Tables
<1>5. BelowT(table, table')
  <2> SUFFICES ASSUME NEW j \in Keys(program)
               PROVE  AtMost(table[j], table'[j])
    BY <1>2 DEF BelowT, Tables
  <2>1. CASE j = k
    BY <2>1, <1>1, <1>2 DEF IInv, Tables
  <2>2. CASE j # k
    BY <2>2, <1>1, <1>2 DEF Tables, PartialOrder
  <2> QED
    BY <2>1, <2>2
<1>6. ASSUME NEW j \in Keys(program)
      PROVE  AtMost(table'[j], Solve(program, table', j))
  <2>1. AtMost(Solve(program, table, j), Solve(program, table', j))
    BY <1>2, <1>4, <1>5 DEF Monotone
  <2>2. AtMost(table[j], Solve(program, table, j))
    BY DEF IInv
  <2>3. /\ Solve(program, table, j) \in Entry /\ Solve(program, table', j) \in Entry
        /\ table[j] \in Entry
    BY <1>2, <1>4 DEF Monotone, Tables
  <2>4. CASE j = k
    BY <2>1, <2>4, <1>1, <1>2 DEF Tables
  <2>5. CASE j # k
    <3>1. table'[j] = table[j]
      BY <2>5, <1>1, <1>2 DEF Tables
    <3> QED
      BY <3>1, <2>1, <2>2, <2>3 DEF PartialOrder
  <2> QED
    BY <2>4, <2>5
<1>7. ASSUME NEW u \in Tables(program), Solution(program, u)
      PROVE  BelowT(table', u)
  <2>1. BelowT(table, u)
    BY <1>7 DEF IInv
  <2>2. AtMost(Solve(program, table, k), Solve(program, u, k))
    BY <1>2, <2>1 DEF Monotone
  <2>3. AtMost(table'[k], u[k])
    BY <2>2, <1>1, <1>2, <1>7 DEF Solution, Tables
  <2>4. \A j \in Keys(program) : j # k => AtMost(table'[j], u[j])
    BY <2>1, <1>1, <1>2 DEF BelowT, Tables
  <2> QED
    BY <2>3, <2>4, <1>4 DEF BelowT, Tables
<1> QED
  BY <1>1, <1>2, <1>4, <1>5, <1>6, <1>7 DEF IInv

LEMMA Kept ==
  ASSUME PartialOrder, Monotone, IInv, [Next]_vars
  PROVE  IInv' /\ BelowT(table, table')
<1>1. CASE \E k \in Keys(program) : Improve(k)
  BY <1>1, Improved
<1>2. BelowT(table, table)
  BY DEF IInv, Tables, BelowT, PartialOrder
<1>3. CASE Finish
  BY <1>3, <1>2 DEF Finish, IInv
<1>4. CASE UNCHANGED vars
  BY <1>4, <1>2 DEF vars, IInv
<1> QED
  BY <1>1, <1>3, <1>4 DEF Next

\* When the pass is done, its answer is the least solution of every function
\* at once (ifc.rs: "seeding at bottom gives the least fixed point").
THEOREM AnswersAreLeast ==
  ASSUME PartialOrder, Monotone
  PROVE  Spec => []DoneIsLeast
<1>1. Init => IInv
  BY Start
<1>2. IInv /\ [Next]_vars => IInv'
  BY Kept
<1>3. IInv => DoneIsLeast
  BY DEF IInv, DoneIsLeast
<1> QED
  BY <1>1, <1>2, <1>3, PTL DEF Spec

\* Solving a function again never takes a label or an obligation back.
THEOREM SolvingOnlyGrows ==
  ASSUME PartialOrder, Monotone
  PROVE  Spec => OnlyGrows
<1>1. Init => IInv
  BY Start
<1>2. IInv /\ [Next]_vars => IInv' /\ [BelowT(table, table')]_vars
  BY Kept
<1> QED
  BY <1>1, <1>2, PTL DEF Spec, OnlyGrows
=============================================================================
