--------------------------- MODULE MC_UploadQueue ---------------------------
(* Devices are interchangeable; sessions are not when one is refused. *)
EXTENDS UploadQueue, TLC

Symmetry == Permutations(Producer)
=============================================================================
