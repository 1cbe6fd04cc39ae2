------------------------------ MODULE MCDeploys -------------------------------
(* Deploys for TLC: neither requests nor flushers are told apart.          *)
EXTENDS Deploys, TLC

Symmetry == Permutations(Users) \cup Permutations(Flushers)
=============================================================================
