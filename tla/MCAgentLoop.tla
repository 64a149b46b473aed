---------------------------- MODULE MCAgentLoop ----------------------------
(* The instance on which TLC checks AgentLoop.                              *)
EXTENDS AgentLoop

=============================================================================
