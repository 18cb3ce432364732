-------------------------- MODULE MC_VerificationJobs --------------------------
(* Two handlers, three job identities and two repositories. *)
EXTENDS VerificationJobs, TLC
=============================================================================
