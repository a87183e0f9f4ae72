---------------------------- MODULE MCKeyedList ----------------------------
(***************************************************************************)
(* KeyedList with four keys, one of them of two roots.                     *)
(***************************************************************************)
EXTENDS KeyedList
=============================================================================
