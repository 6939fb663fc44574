--------------------------- MODULE MCSnapshotEngine ---------------------------
(* SnapshotEngine for TLC. The commands are interchangeable: no property of   *)
(* the safety run tells them apart.                                           *)
EXTENDS SnapshotEngine, TLC
Interchangeable == Permutations(Commands)
=============================================================================
