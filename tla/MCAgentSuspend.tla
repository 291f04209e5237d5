--------------------------- MODULE MCAgentSuspend ---------------------------
(* Three suspensions of different sizes against a budget for two of them. *)
EXTENDS AgentSuspend, TLC

CONSTANTS e1, e2, e3

MCSize == (e1 :> 1) @@ (e2 :> 1) @@ (e3 :> 3)
=============================================================================
