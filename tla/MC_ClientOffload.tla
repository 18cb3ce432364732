---------------------------- MODULE MC_ClientOffload ----------------------------
(* One or two files, two repositories, two versions of a file. *)
EXTENDS ClientOffload, TLC
=============================================================================
