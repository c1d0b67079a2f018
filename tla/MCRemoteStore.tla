---------------------------- MODULE MCRemoteStore ----------------------------
(***************************************************************************)
(* Instance of RemoteStore: conditional create with a permit for each of   *)
(* two callers, and the fallback with one permit for both.                 *)
(***************************************************************************)
EXTENDS RemoteStore, TLC

CONSTANTS c1, c2, k1, b1, b2

MCMaxCalls == (c1 :> 2) @@ (c2 :> 1)

MCSetups == {[conditional |-> TRUE, max_concurrency |-> 2, bytes |-> {b1, b2}],
             [conditional |-> FALSE, max_concurrency |-> 1, bytes |-> {b1}]}
=============================================================================
