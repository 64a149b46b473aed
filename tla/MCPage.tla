------------------------------- MODULE MCPage -------------------------------
(* The instances on which TLC checks Page.                                   *)
EXTENDS Page, TLC

Symmetric == Permutations(Call)

=============================================================================
