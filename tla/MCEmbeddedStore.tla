-------------------------- MODULE MCEmbeddedStore --------------------------
(***************************************************************************)
(* EmbeddedStore on small instances.  Two keys, numbers -1..1 so that an   *)
(* increment can leave the range, one text so that it can meet no number.  *)
(***************************************************************************)
EXTENDS StoreRefinement

CONSTANTS a, b

Set(k, v) == [op |-> "set", key |-> k, arg |-> v]
Incr(k, n) == [op |-> "incr", key |-> k, arg |-> n]
Delete(k) == [op |-> "delete", key |-> k]

\* A counter, a whole handler over two keys that rewrites one of them, a
\* text no increment can follow, and a delete.
MCWriteLists ==
  {<<Incr(a, 1)>>,
   <<Set(a, 0), Incr(b, 1), Incr(a, 1)>>,
   <<Set(b, Text), Incr(a, 1)>>,
   <<Delete(a)>>}

MCTwoWriters ==
  {<<Incr(a, 1)>>,
   <<Set(a, 0), Incr(b, 1), Incr(a, -1)>>,
   <<Set(b, Text), Delete(a)>>}

MCWants == [s \in Subscriber |-> {a}]
=============================================================================
