---------------------------- MODULE LeastSolution ----------------------------
(***************************************************************************)
(* What `Ifc::summarise` (src/crates/zdc-graph/src/ifc.rs) promises: the   *)
(* summaries are "the least fixed point" of solving each function under    *)
(* the summaries of all.  Functions are solved one at a time, in any order *)
(* and any number of times, each result at once visible to the next; the   *)
(* pass is done only when solving any of them changes nothing.             *)
(***************************************************************************)
CONSTANTS
  Programs,      \* the programs
  Keys(_),       \* the functions of a program, in each context
  Entry,         \* the summaries a function may have
  Least,         \* the summary that promises nothing
  AtMost(_, _),  \* the order of summaries
  Solve(_, _, _) \* Solve(p, t, k): the summary of k, calls answered by t

VARIABLES
  program,
  table,         \* table[k]: the summary of k so far
  done

vars == <<program, table, done>>

Tables(p) == [Keys(p) -> Entry]
BelowT(t, u) == \A k \in DOMAIN t : AtMost(t[k], u[k])
Solution(p, t) == \A k \in Keys(p) : Solve(p, t, k) = t[k]

Init ==
  /\ program \in Programs
  /\ table = [k \in Keys(program) |-> Least]
  /\ done = FALSE

Improve(k) ==
  /\ ~done
  /\ table' = [table EXCEPT ![k] = Solve(program, table, k)]
  /\ UNCHANGED <<program, done>>

Finish ==
  /\ ~done /\ Solution(program, table)
  /\ done' = TRUE
  /\ UNCHANGED <<program, table>>

Next == (\E k \in Keys(program) : Improve(k)) \/ Finish

Spec == Init /\ [][Next]_vars

-----------------------------------------------------------------------------
(* What the proofs ask of the parameters.                                  *)

PartialOrder ==
  /\ Least \in Entry
  /\ \A s \in Entry : AtMost(Least, s) /\ AtMost(s, s)
  /\ \A s, t \in Entry : AtMost(s, t) /\ AtMost(t, s) => s = t
  /\ \A s, t, u \in Entry : AtMost(s, t) /\ AtMost(t, u) => AtMost(s, u)

Monotone ==
  \A p \in Programs : \A k \in Keys(p) : \A t, u \in Tables(p) :
    /\ Solve(p, t, k) \in Entry
    /\ BelowT(t, u) => AtMost(Solve(p, t, k), Solve(p, u, k))

(* The answer is the least solution: it solves every function, and lies    *)
(* below whatever else does, so it blames no function for what no call of  *)
(* it can do (ifc.rs: "seeding at bottom gives the least fixed point").    *)
DoneIsLeast ==
  done => /\ Solution(program, table)
          /\ \A u \in Tables(program) : Solution(program, u) => BelowT(table, u)

(* No round takes anything back.                                           *)
OnlyGrows == [][BelowT(table, table')]_vars
=============================================================================
