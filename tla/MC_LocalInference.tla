------------------------- MODULE MC_LocalInference -------------------------
(* Three threads, of which two can have a slot.                             *)
EXTENDS LocalInference
=============================================================================
