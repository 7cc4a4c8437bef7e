---------------------------- MODULE MCSyncJobs ----------------------------
(* Instances of SyncJobs for TLC: the constants are all in the .cfg files. *)
EXTENDS SyncJobs, TLC
=============================================================================
