------------------------------- MODULE Lists -------------------------------
(***************************************************************************)
(* What the code does with a list in one pass: keep the elements it wants, *)
(* in their order.  Written with a recursive function, so that proofs can  *)
(* unfold it.                                                              *)
(***************************************************************************)
EXTENDS Integers, Sequences

\* The elements of the list at the wanted places.
Pick(list, wanted) ==
  LET upTo[n \in 0 .. Len(list)] ==
        IF n = 0 THEN <<>>
        ELSE IF n \in wanted THEN Append(upTo[n - 1], list[n])
        ELSE upTo[n - 1]
  IN  upTo[Len(list)]
=============================================================================
