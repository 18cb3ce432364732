-------------------------- MODULE MC_RawTransfers --------------------------
(* Two devices, one of them with a decayed copy, upload one object through  *)
(* a staging budget that both together exceed.                              *)
EXTENDS RawTransfers
=============================================================================
