------------------------------ MODULE MCOutbox ------------------------------
(* The instance on which TLC checks Outbox.  Workers are not symmetric under *)
(* its liveness property, so the run has no symmetry.                       *)
EXTENDS Outbox

=============================================================================
