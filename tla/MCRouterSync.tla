---------------------------- MODULE MCRouterSync ----------------------------
(***************************************************************************)
(* RouterSync with a page of two keys, over both kinds of store.           *)
(***************************************************************************)
EXTENDS RouterSync

MCWatched == <<"a", "b">>
MCTransports == {"stream", "poll"}
MCPolling == {"poll"}
MCPushes == {TRUE, FALSE}
=============================================================================
