----------------------- MODULE MC_ReplicaGenerations -----------------------
(* Three snapshots; two of them have the same epoch, as after a sender that *)
(* lost its outbox has built another.                                       *)
EXTENDS ReplicaGenerations

CONSTANTS s1, s2, s3

Epochs == [s \in Snapshot |-> IF s = s1 THEN 1 ELSE 2]
=============================================================================
