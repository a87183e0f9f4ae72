---------------------------- MODULE MCLiveReload ----------------------------
(***************************************************************************)
(* LiveReload on small instances; every constant is given in the cfg.      *)
(***************************************************************************)
EXTENDS LiveReload
=============================================================================
