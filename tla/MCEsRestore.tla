---------------------------- MODULE MCEsRestore -----------------------------
(* Model values for the runs of EsRestore.                                 *)
EXTENDS EsRestore, TLC

CONSTANTS r1, r2

=============================================================================
