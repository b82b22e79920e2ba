------------------------------ MODULE MCAgentSDK ------------------------------
(* Instances of AgentSDK for TLC. *)
EXTENDS AgentSDK, TLC

CONSTANTS r1, r2, c1, c2
=============================================================================
