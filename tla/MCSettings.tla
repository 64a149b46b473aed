----------------------------- MODULE MCSettings -----------------------------
(* The instance on which TLC checks Settings.                               *)
EXTENDS Settings, TLC

Symmetric == Permutations(Admin) \cup Permutations(Call)

=============================================================================
