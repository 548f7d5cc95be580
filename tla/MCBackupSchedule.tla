-------------------------- MODULE MCBackupSchedule --------------------------
(* Model values for the runs of BackupSchedule.                            *)
EXTENDS BackupSchedule

MCRetained == [Completed |-> 1, Failed |-> 1]
=============================================================================
