-------------------------- MODULE MCHarnessDispatch --------------------------
(* Instances of HarnessDispatch for TLC.                                   *)
EXTENDS HarnessDispatch, TLC

CONSTANTS r1, r2, policy, custom, fallback

\* Two requests for one method.  A built-in harness answers it, a harness of
\* the user may do anything, and a fallback bound to "*" rejects what is left.
Requests == [r \in {r1, r2} |-> "requestApproval"]
Bindings == (policy :> "requestApproval") @@ (custom :> "requestApproval") @@ (fallback :> "*")
Harnesses == (policy :> {"result"}) @@ (custom :> Behaviour) @@ (fallback :> {"error"})
=============================================================================
