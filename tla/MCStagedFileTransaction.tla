---------------------- MODULE MCStagedFileTransaction -----------------------
(* StagedFileTransaction with three contents, storage calls that fail and  *)
(* files that cannot be read, in any combination.                          *)
EXTENDS StagedFileTransaction
=============================================================================
