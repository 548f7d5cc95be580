------------------------ MODULE MCServerRecovery ------------------------
(* Instances of ServerRecovery for TLC.                                    *)
EXTENDS ServerRecovery

CONSTANTS r1, r2
=========================================================================
