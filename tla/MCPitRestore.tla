--------------------------- MODULE MCPitRestore ---------------------------
(* Instances of PitRestore for TLC.                                        *)
EXTENDS PitRestore

CONSTANTS p1, p2
===========================================================================
