--------------------------- MODULE MCRecoveryJobs ---------------------------
(***************************************************************************)
(* Small instances of RecoveryJobs for TLC.                                *)
(***************************************************************************)
EXTENDS RecoveryJobs
=============================================================================
