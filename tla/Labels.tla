------------------------------- MODULE Labels -------------------------------
(***************************************************************************)
(* The information-flow lattice (src/crates/zdc-graph/src/label.rs) and    *)
(* what the flow pass keeps of a function (Summary and Obligation of       *)
(* ifc.rs), without the traces that explain a refusal.                     *)
(*                                                                         *)
(* A symbolic label is a floor and the observations of parameters it also  *)
(* depends on.  A summary is labels in the function's own parameters; a    *)
(* call substitutes the labels of its arguments.                           *)
(***************************************************************************)
EXTENDS Naturals, Sequences

CONSTANT Site   \* where an obligation is raised, and its kind

Secrecy == {"public", "secret"}
Obs == {"shape", "value", "failure"}
Param == Nat \ {0}

\* Secrecy::join and flows_to.
Higher(s, t) == IF s = "secret" \/ t = "secret" THEN "secret" ELSE "public"
FlowsTo(s, t) == s = "public" \/ t = "secret"

-----------------------------------------------------------------------------
(* Sym                                                                     *)

Sym == [floor : Secrecy, deps : SUBSET (Param \X Obs)]

Floor(s) == [floor |-> s, deps |-> {}]
Bottom == Floor("public")
Dep(i, obs) == [floor |-> "public", deps |-> {<<i, obs>>}]

Join(s, t) == [floor |-> Higher(s.floor, t.floor), deps |-> s.deps \cup t.deps]

Below(s, t) == FlowsTo(s.floor, t.floor) /\ s.deps \subseteq t.deps

\* Substitute the labels of the arguments.  One that is missing is the worst.
Instantiate(s, args) ==
  [floor |-> IF \/ s.floor = "secret"
                \/ \E d \in s.deps : d[1] \in DOMAIN args => args[d[1]][d[2]].floor = "secret"
               THEN "secret" ELSE "public",
   deps |-> UNION {args[d[1]][d[2]].deps : d \in {e \in s.deps : e[1] \in DOMAIN args}}]

-----------------------------------------------------------------------------
(* SymLabel                                                                *)

SymLabel == [Obs -> Sym]

Triple(s) == [obs \in Obs |-> s]
BottomL == Triple(Bottom)
ParamL(i) == [obs \in Obs |-> Dep(i, obs)]
DeclaredL(label) == [obs \in Obs |-> Floor(label[obs])]

JoinL(l, m) == [obs \in Obs |-> Join(l[obs], m[obs])]
JoinAll(l, s) == [obs \in Obs |-> Join(l[obs], s)]
InstantiateL(l, args) == [obs \in Obs |-> Instantiate(l[obs], args)]
ConcreteL(l) == [obs \in Obs |-> l[obs].floor]
BelowL(l, m) == \A obs \in Obs : Below(l[obs], m[obs])

\* Restore shape below value, after a rule that raised the shape.
Settle(l) == [l EXCEPT !["value"] = Join(l["value"], l["shape"])]
RaiseShape(l, s) == Settle([l EXCEPT !["shape"] = Join(@, s)])

\* Every collection a program holds has a shape no more secret than its value.
Ordered(label) == FlowsTo(label["shape"], label["value"])

-----------------------------------------------------------------------------
(* Summary                                                                 *)

Obligation == [required : Secrecy, found : Sym, pc : Sym]
Obligations == UNION {[S -> Obligation] : S \in SUBSET Site}
Summary == [result : SymLabel, obligations : Obligations]

NoObligations == [site \in {} |-> Bottom]
BottomSummary == [result |-> BottomL, obligations |-> NoObligations]

\* oblige_at, of every obligation of `more`: two of one identity are joined.
Obliged(all, more) ==
  [site \in DOMAIN all \cup DOMAIN more |->
     IF site \notin DOMAIN more THEN all[site]
     ELSE IF site \notin DOMAIN all THEN more[site]
     ELSE [all[site] EXCEPT !.found = Join(@, more[site].found),
                            !.pc = Join(@, more[site].pc)]]

BelowO(o, p) == o.required = p.required /\ Below(o.found, p.found) /\ Below(o.pc, p.pc)

BelowS(s, t) ==
  /\ BelowL(s.result, t.result)
  /\ DOMAIN s.obligations \subseteq DOMAIN t.obligations
  /\ \A site \in DOMAIN s.obligations : BelowO(s.obligations[site], t.obligations[site])
=============================================================================
