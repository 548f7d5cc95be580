----------------------------- MODULE MCEsBackup -----------------------------
(* Model values for the runs of EsBackup: e1 is older than e2.             *)
EXTENDS EsBackup

CONSTANTS e1, e2

MCAge == [b \in Backups |-> IF b = e1 THEN 1 ELSE 2]
=============================================================================
