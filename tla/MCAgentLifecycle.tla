--------------------------- MODULE MCAgentLifecycle ---------------------------
(* AgentLifecycle for TLC. Restarters are interchangeable: no property of a  *)
(* safety run tells them apart.                                              *)
EXTENDS AgentLifecycle, TLC
Interchangeable == Permutations(Restarters)
=============================================================================
