----------------------------- MODULE MCLiveSync -----------------------------
(***************************************************************************)
(* LiveSync on small instances: one or two pages and two keys.             *)
(***************************************************************************)
EXTENDS LiveSync

CONSTANTS a, b

MCWantsA == [w \in Subscriber |-> {a}]
MCWantsBoth == [w \in Subscriber |-> Key]
=============================================================================
