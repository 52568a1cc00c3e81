----------------------------- MODULE MCRpcClient -----------------------------
(* Instances of RpcClient for TLC.                                         *)
EXTENDS RpcClientRefinement, TLC

CONSTANTS c1, c2, k1

\* One goroutine connects and then works, another works alongside it.
MCUses == (c1 :> {"initialize", "initialized", "request"}) @@ (c2 :> {"request", "respond"})

\* One goroutine connects, retrying initialize when a wait was cancelled.
MCOneCaller == c1 :> {"initialize", "initialized", "request"}
=============================================================================
