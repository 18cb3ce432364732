----------------------------- MODULE Credentials -----------------------------
(* Device credentials (interfaces/credentials.py): registries of the        *)
(* authority and of its standby, edited with `device enroll` and `device    *)
(* revoke`, and carried to the standby by sync-credentials, which a timer   *)
(* repeats. The call reaches the standby over ssh; one that was given up    *)
(* may still be served, late or never.                                      *)
(*                                                                          *)
(* write_registry replaces a file whose content is synced and then syncs    *)
(* the directory: `registry` and `receipt` are what everybody reads, `safe` *)
(* and `safeReceipt` what a loss of power leaves for sure. A registry holds *)
(* the hash of a token, which is never issued twice.                        *)
EXTENDS Naturals, FiniteSets

CONSTANTS
    Device,
    Unset,
    MaxTokens,   \* bound on tokens and edits
    MaxCredentialFaults    \* bound on deaths and losses of power

Host == {"authority", "standby"}

ASSUME CredentialAssumption == MaxTokens \in Nat \ {0} /\ MaxCredentialFaults \in Nat

VARIABLES
    registry, safe,        \* [Host -> the registry file, or Unset]
    lock,                  \* [Host -> who holds <registry>.lock]
    receipt, safeReceipt,  \* the receipt of sync-credentials
    sync,                  \* the run that holds <receipt>.lock
    wire,                  \* calls of receive-credentials not served yet
    receiver,              \* the call that is being served
    edits, minted,         \* tokens and authorities so far
    told,                  \* tokens reported revoked on the standby
    credentialFaults

credentialVars == <<registry, safe, lock, receipt, safeReceipt, sync, wire, receiver, edits,
          minted, told, credentialFaults>>

(* A token by the number of the edit that issued it; 0 is no entry. *)
Entries == [Device -> 0..MaxTokens]

(* Version 1 is the bare map of entries, without authority and epoch. *)
Registry == [version : {1, 2}, authority : 0..MaxCredentialFaults + 1, epoch : 0..MaxTokens,
             entries : Entries, replica : BOOLEAN]

Call == [document : Registry, awaited : BOOLEAN]

SyncReceipt == [acknowledged : Registry \cup {Unset},
                status : {"synchronized", "behind", "partial"}]

ASSUME UnsetAssumption == Unset \notin Registry \cup Call \cup SyncReceipt

IdleSync == [pc |-> "idle", document |-> Unset, issued |-> 0]

CredentialTypeOK ==
    /\ registry \in [Host -> Registry \cup {Unset}] /\ safe \in [Host -> Registry \cup {Unset}]
    /\ lock \in [Host -> {"free", "edit", "export", "receive"}]
    /\ receipt \in SyncReceipt \cup {Unset} /\ safeReceipt \in SyncReceipt \cup {Unset}
    /\ sync \in [pc : {"idle", "export", "wait", "answered", "refused", "record"},
                 document : Registry \cup {Unset}, issued : 0..MaxTokens]
    /\ wire \subseteq Call /\ receiver \in Call \cup {Unset}
    /\ edits \in 0..MaxTokens /\ minted \in 0..MaxCredentialFaults + 1
    /\ told \subseteq 1..MaxTokens
    /\ credentialFaults \in 0..MaxCredentialFaults
    /\ lock["standby"] = "receive" <=> receiver # Unset
    /\ lock["authority"] = "export" <=> sync.pc = "export"
    /\ \A call \in wire : call.awaited => sync.pc = "wait" /\ call.document = sync.document

Legacy(entries) ==
    [version |-> 1, authority |-> 0, epoch |-> 0, entries |-> entries, replica |-> FALSE]

NoEntries == [d \in Device |-> 0]

(* A registry without versions, as enrolments left it: the standby has an   *)
(* identical copy or none.                                                  *)
CredentialInit ==
    /\ \E d \in Device, copied \in BOOLEAN :
         LET old == Legacy([NoEntries EXCEPT ![d] = 1])
         IN registry = [h \in Host |-> IF h = "authority" \/ copied THEN old ELSE Unset]
    /\ safe = registry
    /\ lock = [h \in Host |-> "free"]
    /\ receipt = Unset /\ safeReceipt = Unset
    /\ sync = IdleSync
    /\ wire = {} /\ receiver = Unset
    /\ edits = 1 /\ minted = 0 /\ told = {} /\ credentialFaults = 0

-----------------------------------------------------------------------------
(* credential_identity: the digest covers the entries. *)
Same(one, other) ==
    one.authority = other.authority /\ one.epoch = other.epoch /\ one.entries = other.entries

Current(h) == IF registry[h] = Unset THEN Legacy(NoEntries) ELSE registry[h]

(* Mutant: a revocation keeps the revision. *)
EditedSilently(old, entries) == [old EXCEPT !.entries = entries]

Edited(old, entries) ==
    IF old.version = 2 THEN [old EXCEPT !.entries = entries, !.epoch = @ + 1]
    ELSE [old EXCEPT !.entries = entries]

(* update_device, up to the replaced file: enrolling wants the device to be *)
(* absent, revoking takes any. A replica is edited through its authority.   *)
Edit(h, d, token) ==
    /\ edits < MaxTokens
    /\ lock[h] = "free" /\ ~Current(h).replica
    /\ token \in {0, edits + 1}
    /\ token # 0 => Current(h).entries[d] = 0
    /\ registry' = [registry EXCEPT ![h] =
                      Edited(Current(h), [Current(h).entries EXCEPT ![d] = token])]
    /\ lock' = [lock EXCEPT ![h] = "edit"]
    /\ edits' = edits + 1
    /\ UNCHANGED <<safe, receipt, safeReceipt, sync, wire, receiver, minted, told,
                   credentialFaults>>

EditSynced(h) ==
    /\ lock[h] = "edit"
    /\ safe' = [safe EXCEPT ![h] = registry[h]]
    /\ lock' = [lock EXCEPT ![h] = "free"]
    /\ UNCHANGED <<registry, receipt, safeReceipt, sync, wire, receiver, edits, minted, told,
                   credentialFaults>>

-----------------------------------------------------------------------------
(* sync_credentials, which holds the receipt's lock throughout, and         *)
(* export_credentials within it. The lock of the registry is free again     *)
(* when the call is made.                                                   *)
Calling(document) ==
    /\ sync' = [pc |-> "wait", document |-> document, issued |-> edits]
    /\ wire' = wire \cup {[document |-> document, awaited |-> TRUE]}

Start ==
    /\ sync.pc = "idle" /\ lock["authority"] = "free"
    /\ registry["authority"] # Unset /\ registry["authority"].version = 2
    /\ Calling(registry["authority"])
    /\ UNCHANGED <<registry, safe, lock, receipt, safeReceipt, receiver, edits, minted, told,
                   credentialFaults>>

(* A registry without version becomes revision 0 of a new authority. *)
Mint ==
    /\ sync.pc = "idle" /\ lock["authority"] = "free"
    /\ registry["authority"] # Unset /\ registry["authority"].version = 1
    /\ minted < MaxCredentialFaults + 1
    /\ registry' = [registry EXCEPT !["authority"] =
                      [@ EXCEPT !.version = 2, !.authority = minted + 1]]
    /\ lock' = [lock EXCEPT !["authority"] = "export"]
    /\ sync' = [sync EXCEPT !.pc = "export"]
    /\ minted' = minted + 1
    /\ UNCHANGED <<safe, receipt, safeReceipt, wire, receiver, edits, told, credentialFaults>>

Minted ==
    /\ sync.pc = "export"
    /\ safe' = [safe EXCEPT !["authority"] = registry["authority"]]
    /\ lock' = [lock EXCEPT !["authority"] = "free"]
    /\ Calling(registry["authority"])
    /\ UNCHANGED <<registry, receipt, safeReceipt, receiver, edits, minted, told,
                   credentialFaults>>

-----------------------------------------------------------------------------
(* Mutant: a legacy copy or a replica takes what its authority sends. *)
AcceptableFromAuthority(document) ==
    Current("standby").version = 2 => Current("standby").authority = document.authority

(* receive_credentials on the standby: a missing registry takes any         *)
(* authority, a legacy one only its identical copy, and a replica no older  *)
(* revision, no other content of the same one and no other authority.       *)
Acceptable(document) ==
    \/ registry["standby"] = Unset
    \/ /\ Current("standby").version = 1
       /\ Current("standby").entries = document.entries
    \/ /\ Current("standby").replica
       /\ Current("standby").authority = document.authority
       /\ \/ Current("standby").epoch < document.epoch
          \/ Same(Current("standby"), document)

Receive(call) ==
    /\ lock["standby"] = "free" /\ Acceptable(call.document)
    /\ registry' = [registry EXCEPT !["standby"] = [call.document EXCEPT !.replica = TRUE]]
    /\ lock' = [lock EXCEPT !["standby"] = "receive"]
    /\ receiver' = call
    /\ wire' = wire \ {call}
    /\ UNCHANGED <<safe, receipt, safeReceipt, sync, edits, minted, told, credentialFaults>>

Answer(call, pc) == sync' = IF call.awaited THEN [sync EXCEPT !.pc = pc] ELSE sync

Received ==
    /\ receiver # Unset
    /\ safe' = [safe EXCEPT !["standby"] = registry["standby"]]
    /\ lock' = [lock EXCEPT !["standby"] = "free"]
    /\ receiver' = Unset
    /\ Answer(receiver, "answered")
    /\ UNCHANGED <<registry, receipt, safeReceipt, wire, edits, minted, told, credentialFaults>>

Reject(call) ==
    /\ lock["standby"] = "free" /\ ~Acceptable(call.document)
    /\ wire' = wire \ {call}
    /\ Answer(call, "refused")
    /\ UNCHANGED <<registry, safe, lock, receipt, safeReceipt, receiver, edits, minted, told,
                   credentialFaults>>

-----------------------------------------------------------------------------
(* What the run gives up may still be served. *)
Abandoned(call) == [call EXCEPT !.awaited = FALSE]

Disconnect ==
    /\ wire' = {Abandoned(call) : call \in wire}
    /\ receiver' = IF receiver = Unset THEN Unset ELSE Abandoned(receiver)

(* The time-out of the call, or a connection that breaks. *)
GiveUp ==
    /\ sync.pc = "wait"
    /\ sync' = [sync EXCEPT !.pc = "refused"]
    /\ Disconnect
    /\ UNCHANGED <<registry, safe, lock, receipt, safeReceipt, edits, minted, told,
                   credentialFaults>>

LastAcknowledged == IF receipt = Unset THEN Unset ELSE receipt.acknowledged

(* The receipt replaces the previous one; a failure keeps what was          *)
(* acknowledged last. The registry is read without its lock.                *)
RecordSync ==
    /\ \/ /\ sync.pc = "answered"
          /\ receipt' = [acknowledged |-> sync.document,
                         status |-> IF Same(registry["authority"], sync.document)
                                      THEN "synchronized" ELSE "behind"]
       \/ /\ sync.pc = "refused"
          /\ receipt' = [acknowledged |-> LastAcknowledged, status |-> "partial"]
    /\ sync' = [sync EXCEPT !.pc = "record"]
    /\ UNCHANGED <<registry, safe, lock, safeReceipt, wire, receiver, edits, minted, told,
                   credentialFaults>>

Tokens(document) == {document.entries[d] : d \in Device} \ {0}

(* The run returns: its receipt says which tokens the standby refuses now.  *)
Recorded ==
    /\ sync.pc = "record"
    /\ safeReceipt' = receipt
    /\ told' = told \cup (IF receipt.acknowledged = sync.document
                            THEN (1..sync.issued) \ Tokens(sync.document) ELSE {})
    /\ sync' = IdleSync
    /\ UNCHANGED <<registry, safe, lock, receipt, wire, receiver, edits, minted,
                   credentialFaults>>

-----------------------------------------------------------------------------
(* A killed process leaves its locks free and its files as they are. *)
KillEditor(h) ==
    /\ credentialFaults < MaxCredentialFaults /\ lock[h] = "edit"
    /\ lock' = [lock EXCEPT ![h] = "free"]
    /\ credentialFaults' = credentialFaults + 1
    /\ UNCHANGED <<registry, safe, receipt, safeReceipt, sync, wire, receiver, edits, minted,
                   told>>

KillSync ==
    /\ credentialFaults < MaxCredentialFaults /\ sync.pc # "idle"
    /\ lock' = [lock EXCEPT !["authority"] = IF sync.pc = "export" THEN "free" ELSE @]
    /\ sync' = IdleSync
    /\ Disconnect
    /\ credentialFaults' = credentialFaults + 1
    /\ UNCHANGED <<registry, safe, receipt, safeReceipt, edits, minted, told>>

KillReceiver ==
    /\ credentialFaults < MaxCredentialFaults /\ receiver # Unset
    /\ lock' = [lock EXCEPT !["standby"] = "free"]
    /\ Answer(receiver, "refused")
    /\ receiver' = Unset
    /\ credentialFaults' = credentialFaults + 1
    /\ UNCHANGED <<registry, safe, receipt, safeReceipt, wire, edits, minted, told>>

(* A loss of power may take back a name that was not synced. *)
Survives(h) ==
    \E left \in {registry[h], safe[h]} :
       /\ registry' = [registry EXCEPT ![h] = left]
       /\ safe' = [safe EXCEPT ![h] = left]
       /\ lock' = [lock EXCEPT ![h] = "free"]

AuthorityLosesPower ==
    /\ credentialFaults < MaxCredentialFaults
    /\ Survives("authority")
    /\ receipt' \in {receipt, safeReceipt} /\ safeReceipt' = receipt'
    /\ sync' = IdleSync
    /\ Disconnect
    /\ credentialFaults' = credentialFaults + 1
    /\ UNCHANGED <<edits, minted, told>>

StandbyLosesPower ==
    /\ credentialFaults < MaxCredentialFaults
    /\ Survives("standby")
    /\ wire' = {} /\ receiver' = Unset
    /\ sync' = IF sync.pc = "wait" THEN [sync EXCEPT !.pc = "refused"] ELSE sync
    /\ credentialFaults' = credentialFaults + 1
    /\ UNCHANGED <<receipt, safeReceipt, edits, minted, told>>

CredentialFault ==
    \/ \E h \in Host : KillEditor(h)
    \/ KillSync \/ KillReceiver \/ AuthorityLosesPower \/ StandbyLosesPower

Editing == \E h \in Host, d \in Device, token \in 0..MaxTokens : Edit(h, d, token)

SyncStep == Start \/ Mint \/ Minted \/ RecordSync \/ Recorded

Serve(call) == Receive(call) \/ Reject(call)

CredentialNext ==
    \/ Editing \/ SyncStep \/ Received \/ GiveUp \/ CredentialFault
    \/ \E h \in Host : EditSynced(h)
    \/ \E call \in wire : Serve(call)

CredentialSpec == CredentialInit /\ [][CredentialNext]_credentialVars

(* Locks are released when the work under them ends, the timer repeats the  *)
(* run, and a call that is waited for reaches the standby.                  *)
CredentialFairness ==
    /\ WF_credentialVars(SyncStep) /\ WF_credentialVars(Received)
    /\ \A h \in Host : WF_credentialVars(EditSynced(h))
    /\ WF_credentialVars(\E call \in wire : call.awaited /\ Serve(call))

FairCredentials == CredentialSpec /\ CredentialFairness

-----------------------------------------------------------------------------
(* A token that a receipt has reported revoked on the standby is never      *)
(* accepted there again: neither a late or repeated call, a death nor a     *)
(* loss of power brings it back.                                            *)
RevokedStaysRevoked ==
    registry["standby"] # Unset => told \cap Tokens(registry["standby"]) = {}

(* The revision a receipt names is the standby's, or the standby's is a     *)
(* later one of the same authority.                                         *)
AcknowledgedIsHeld ==
    LastAcknowledged # Unset =>
       /\ registry["standby"] # Unset /\ registry["standby"].replica
       /\ registry["standby"].authority = LastAcknowledged.authority
       /\ \/ registry["standby"].epoch > LastAcknowledged.epoch
          \/ Same(registry["standby"], LastAcknowledged)

CredentialInvariant == CredentialTypeOK /\ RevokedStaysRevoked /\ AcknowledgedIsHeld

Disturbance == Editing \/ GiveUp \/ CredentialFault

(* A legacy copy that differs is left for the operator to reconcile.        *)
Diverged ==
    /\ registry["standby"] # Unset /\ registry["standby"].version = 1
    /\ registry["standby"].entries # registry["authority"].entries

(* Once edits, time-outs and faults end, the standby gets the authority's   *)
(* last revision and the receipt says so, unless its own copy diverged      *)
(* before it was bound.                                                     *)
RevisionsConverge ==
    <>[][~Disturbance]_credentialVars =>
       <>[](\/ Diverged
            \/ /\ registry["standby"] # Unset
               /\ Same(registry["standby"], registry["authority"])
               /\ receipt # Unset /\ receipt.status = "synchronized")
=============================================================================
