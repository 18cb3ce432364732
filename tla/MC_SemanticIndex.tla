---------------------------- MODULE MC_SemanticIndex ----------------------------
(* Two events with a text each. *)
EXTENDS SemanticIndex, TLC

CONSTANTS e1, e2, c1, c2
MCChunkOf == e1 :> c1 @@ e2 :> c2
=============================================================================
