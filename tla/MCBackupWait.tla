--------------------------- MODULE MCBackupWait ---------------------------
(***************************************************************************)
(* BackupWait for TLC: a timeout of a few heartbeats and a queue that the  *)
(* other files can fill.                                                   *)
(***************************************************************************)
EXTENDS BackupWait
=============================================================================
