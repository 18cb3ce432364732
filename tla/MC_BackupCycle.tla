--------------------------- MODULE MC_BackupCycle ---------------------------
(* Two repositories and a third one to which a name may be moved.           *)
EXTENDS BackupCycle
=============================================================================
