---------------------------- MODULE MC_Recovery ----------------------------
(* The two protocols between a primary and its successor, one behaviour     *)
(* exploring one of them: its devices' credentials, or its fence, restored  *)
(* backup and replacement. They share no state in the code; only `part` is  *)
(* common here. One device: two would only add combinations of entries.     *)
EXTENDS Handover, Credentials

VARIABLE part

allVars == <<part, handoverVars, credentialVars>>

InitBoth == part \in {"credentials", "handover"} /\ HandoverInit /\ CredentialInit

NextBoth ==
    \/ part = "handover" /\ HandoverNext /\ UNCHANGED <<part, credentialVars>>
    \/ part = "credentials" /\ CredentialNext /\ UNCHANGED <<part, handoverVars>>

Recovery ==
    /\ InitBoth /\ [][NextBoth]_allVars
    /\ part = "credentials" => CredentialFairness

(* RevisionsConverge of Credentials: repeated runs of sync-credentials end  *)
(* with the authority's last revision on the standby.                       *)
StandbyConverges == part = "credentials" => RevisionsConverge
=============================================================================
