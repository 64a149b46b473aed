---------------------------- MODULE MCAgentRuns ----------------------------
(* The instance of AgentRuns for TLC.  Workers are not made symmetric: the  *)
(* run checks liveness too.                                                 *)
EXTENDS AgentRuns
=============================================================================
