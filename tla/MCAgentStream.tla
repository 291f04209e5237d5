---------------------------- MODULE MCAgentStream ----------------------------
(* Instances of AgentStream for TLC. *)
EXTENDS AgentStream
=============================================================================
