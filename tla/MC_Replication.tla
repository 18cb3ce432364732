--------------------------- MODULE MC_Replication ---------------------------
(* Two receivers, so that one that was given up runs on beside the retry.   *)
EXTENDS Replication
=============================================================================
