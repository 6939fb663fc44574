------------------------------ MODULE MCNodeLife ------------------------------
(* NodeLife for TLC. *)
EXTENDS NodeLife, TLC

AnyAgent == Permutations(Agents)
=============================================================================
