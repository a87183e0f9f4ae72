---------------------------- MODULE Transactions ----------------------------
(***************************************************************************)
(* What a transaction's writes mean (src/crates/zdc-store/src/lib.rs, the  *)
(* contract of `apply`; src/crates/zdc-store/src/value.rs, numbers): every *)
(* write in order over a view, or the first failure.                       *)
(*                                                                         *)
(* A number is a whole number of bounded magnitude, so that leaving the    *)
(* range is a case; rounding is not modelled.                              *)
(***************************************************************************)
EXTENDS Integers, Sequences

CONSTANTS
  MaxNum,  \* the largest magnitude a number can represent
  Text,    \* any JSON that is not a number
  None     \* an absent key

InRange(n) == n \in -MaxNum .. MaxNum

\* An absent key counts as zero; anything else that is no number is an error.
Addend(current) == IF current = None THEN 0 ELSE current

\* What one write leaves of a run: the view, the keys written, the values.
Leaves(run, k, v) ==
  [status |-> "ok", view |-> [run.view EXCEPT ![k] = v],
   keys |-> run.keys \cup {k}, values |-> Append(run.values, v)]
Breaks(run, why) ==
  [status |-> why, view |-> run.view, keys |-> run.keys, values |-> run.values]

Perform(run, w) ==
  LET current == run.view[w.key]
  IN  IF run.status # "ok" THEN run
      ELSE CASE w.op = "set" -> Leaves(run, w.key, w.arg)
             [] w.op = "delete" -> Leaves(run, w.key, None)
             [] OTHER -> IF current = Text THEN Breaks(run, "not_a_number")
                         ELSE IF ~InRange(Addend(current) + w.arg) THEN Breaks(run, "out_of_range")
                         ELSE Leaves(run, w.key, Addend(current) + w.arg)

\* The run after each of the writes, from the first.
Runs(view, list) ==
  LET run[n \in 0 .. Len(list)] ==
        IF n = 0 THEN [status |-> "ok", view |-> view, keys |-> {}, values |-> <<>>]
        ELSE Perform(run[n - 1], list[n])
  IN  run

RunOn(view, list) == Runs(view, list)[Len(list)]
=============================================================================
