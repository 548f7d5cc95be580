--------------------------- MODULE MCRdbmsBackup ----------------------------
(* Model values for the runs of RdbmsBackup.  b1 is the oldest.            *)
EXTENDS RdbmsBackup

CONSTANTS b1, b2

MCAge == [b \in Backups |-> IF b = b1 THEN 1 ELSE 2]
=============================================================================
