---------------------------- MODULE MCDelegation ----------------------------
(* Two calls for the same task in the first response, a single one for      *)
(* another task in the second.                                              *)
EXTENDS Delegation, TLC

CONSTANTS c1, c2, c3, k1, k2

MCKeyOf   == (c1 :> k1) @@ (c2 :> k1) @@ (c3 :> k2)
MCBatchOf == (c1 :> 1) @@ (c2 :> 1) @@ (c3 :> 2)

\* Only the agent of k1 is wrapped in RestartOnFail.
MCMaxRestarts == (k1 :> 1) @@ (k2 :> 0)
MCNoRestarts  == (k1 :> 0) @@ (k2 :> 0)
=============================================================================
