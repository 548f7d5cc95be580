-------------------------- MODULE MCStorageWriter ---------------------------
(* Model values for the runs of StorageWriter.                             *)
EXTENDS StorageWriter, TLC

CONSTANTS c1, c2, b1, b2, r1, r2

Symmetry == Permutations(Clusters) \cup Permutations(Backends) \cup Permutations(Restores)
=============================================================================
