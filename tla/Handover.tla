------------------------------ MODULE Handover ------------------------------
(* Replacing the primary: the fence that ends its writes                    *)
(* (storage/fencing.py, and catalog.py where writers meet it), a backup     *)
(* restored to a read-only directory (backups.restore_backup), and the new  *)
(* primary prepared from it (storage/recovery.py). The backups themselves   *)
(* are those of BackupCycle. Writers are processes of this version: the     *)
(* fence is cooperative. Both destinations are on one host, which may be    *)
(* another one than the primary's.                                          *)
EXTENDS Naturals, FiniteSets

CONSTANTS
    Writer,      \* processes that open the primary's catalog for writing
    Absent,
    MaxWrites,   \* bound on commits in the primary
    MaxFaults    \* bound on deaths, losses of power and decays

ASSUME HandoverAssumption == MaxWrites \in Nat /\ MaxFaults \in Nat

VARIABLES
    commits,             \* epoch of the primary's publication
    writer,              \* [Writer -> "idle", "leased" or "writing"]
    marker, safeMarker,  \* FENCED.json, and what a loss of power leaves of it
    fencer,              \* the run of fence-primary
    fenced,              \* publication of the last receipt it returned
    backups,             \* publications that have a verified backup
    restored, restore,   \* destination of restore-backup, and its run
    replacement, prepare, \* destination of prepare-primary, and its run
    faults

primaryVars == <<commits, writer, marker, safeMarker, fencer, fenced, backups>>
recoveryVars == <<restored, restore, replacement, prepare>>
handoverVars == <<primaryVars, recoveryVars, faults>>

Publication == 0..MaxWrites

(* A directory by the publication of its catalog: whether every file of it  *)
(* is there and readable, and whether contents and name were synced.        *)
Directory == [made : {"recovery", "service"}, source : Publication, intact : BOOLEAN,
              synced : BOOLEAN, named : BOOLEAN]

(* A run and its temporary directory beside the destination. *)
Stage == [pc : {"idle", "admitted", "copied", "checked", "synced", "placed"},
          source : Publication, intact : BOOLEAN]

IdleStage == [pc |-> "idle", source |-> 0, intact |-> TRUE]

ASSUME AbsentAssumption == Absent \notin Publication \cup Directory

HandoverTypeOK ==
    /\ commits \in Publication
    /\ writer \in [Writer -> {"idle", "leased", "writing"}]
    /\ marker \in Publication \cup {Absent} /\ safeMarker \in Publication \cup {Absent}
    /\ fencer \in [pc : {"idle", "locked", "read", "marked"}, publication : Publication]
    /\ fenced \in Publication \cup {Absent}
    /\ backups \subseteq Publication
    /\ restored \in Directory \cup {Absent} /\ restore \in Stage
    /\ replacement \in Directory \cup {Absent} /\ prepare \in Stage
    /\ faults \in 0..MaxFaults

HandoverInit ==
    /\ commits = 0 /\ writer = [w \in Writer |-> "idle"]
    /\ marker = Absent /\ safeMarker = Absent
    /\ fencer = [pc |-> "idle", publication |-> 0] /\ fenced = Absent
    /\ backups = {}
    /\ restored = Absent /\ restore = IdleStage
    /\ replacement = Absent /\ prepare = IdleStage
    /\ faults = 0

-----------------------------------------------------------------------------
(* acquire_writer: the shared flock on .writers.lock waits for a fence in   *)
(* progress, and the marker is looked for under it.                         *)
Lease(w) ==
    /\ writer[w] = "idle" /\ fencer.pc = "idle"
    /\ writer' = [writer EXCEPT ![w] = "leased"]
    /\ UNCHANGED <<commits, marker, safeMarker, fencer, fenced, backups, recoveryVars, faults>>

Enter(w) ==
    /\ writer[w] = "leased"
    /\ writer' = [writer EXCEPT ![w] = IF marker = Absent THEN "writing" ELSE "idle"]
    /\ UNCHANGED <<commits, marker, safeMarker, fencer, fenced, backups, recoveryVars, faults>>

(* Every transaction that changes evidence bumps the publication.           *)
Commit(w) ==
    /\ writer[w] = "writing" /\ commits < MaxWrites
    /\ commits' = commits + 1
    /\ UNCHANGED <<writer, marker, safeMarker, fencer, fenced, backups, recoveryVars, faults>>

Close(w) ==
    /\ writer[w] = "writing"
    /\ writer' = [writer EXCEPT ![w] = "idle"]
    /\ UNCHANGED <<commits, marker, safeMarker, fencer, fenced, backups, recoveryVars, faults>>

-----------------------------------------------------------------------------
(* Mutant: the fence shares the flock with the writers. *)
FenceLockShared ==
    /\ fencer.pc = "idle"
    /\ fencer' = [fencer EXCEPT !.pc = "locked"]
    /\ UNCHANGED <<commits, writer, marker, safeMarker, fenced, backups, recoveryVars, faults>>

(* fence_primary: with a lease anywhere it is busy and changes nothing.     *)
FenceLock ==
    /\ fencer.pc = "idle" /\ \A w \in Writer : writer[w] = "idle"
    /\ fencer' = [fencer EXCEPT !.pc = "locked"]
    /\ UNCHANGED <<commits, writer, marker, safeMarker, fenced, backups, recoveryVars, faults>>

FenceRead ==
    /\ fencer.pc = "locked"
    /\ fencer' = [pc |-> "read", publication |-> commits]
    /\ UNCHANGED <<commits, writer, marker, safeMarker, fenced, backups, recoveryVars, faults>>

(* A marker that names this publication is returned again; another one is   *)
(* an error.                                                                *)
FenceAgain ==
    /\ fencer.pc = "read" /\ marker # Absent
    /\ fenced' = IF marker = fencer.publication THEN marker ELSE fenced
    /\ fencer' = [fencer EXCEPT !.pc = "idle"]
    /\ UNCHANGED <<commits, writer, marker, safeMarker, backups, recoveryVars, faults>>

(* write_registry replaces the marker, then syncs the directory. *)
FenceMark ==
    /\ fencer.pc = "read" /\ marker = Absent
    /\ marker' = fencer.publication
    /\ fencer' = [fencer EXCEPT !.pc = "marked"]
    /\ UNCHANGED <<commits, writer, safeMarker, fenced, backups, recoveryVars, faults>>

FenceReturn ==
    /\ fencer.pc = "marked"
    /\ safeMarker' = marker
    /\ fenced' = marker
    /\ fencer' = [fencer EXCEPT !.pc = "idle"]
    /\ UNCHANGED <<commits, writer, marker, backups, recoveryVars, faults>>

FenceStep == FenceRead \/ FenceAgain \/ FenceMark \/ FenceReturn

(* The backup cycle takes a consistent view of the catalog, read-only:      *)
(* beside writers and after a fence.                                        *)
BackUp ==
    /\ backups' = backups \cup {commits}
    /\ UNCHANGED <<commits, writer, marker, safeMarker, fencer, fenced, recoveryVars, faults>>

-----------------------------------------------------------------------------
Placed(stage) ==
    [made |-> "recovery", source |-> stage.source, intact |-> stage.intact,
     synced |-> stage.pc = "synced", named |-> FALSE]

(* restore_backup, under .restore.lock: what restic gives back is verified, *)
(* synced and then renamed; a failure removes the stage.                    *)
RestoreStart(p) ==
    /\ restore.pc = "idle" /\ restored = Absent
    /\ restore' = [pc |-> "copied", source |-> p, intact |-> TRUE]
    /\ UNCHANGED <<primaryVars, restored, replacement, prepare, faults>>

RestoreVerify ==
    /\ restore.pc = "copied"
    /\ restore' = IF restore.intact THEN [restore EXCEPT !.pc = "checked"] ELSE IdleStage
    /\ UNCHANGED <<primaryVars, restored, replacement, prepare, faults>>

RestoreSync ==
    /\ restore.pc = "checked"
    /\ restore' = [restore EXCEPT !.pc = "synced"]
    /\ UNCHANGED <<primaryVars, restored, replacement, prepare, faults>>

RestorePlace ==
    /\ restore.pc = "synced"
    /\ restored' = Placed(restore)
    /\ restore' = [restore EXCEPT !.pc = "placed"]
    /\ UNCHANGED <<primaryVars, replacement, prepare, faults>>

RestoreReturn ==
    /\ restore.pc = "placed"
    /\ restored' = [restored EXCEPT !.named = TRUE]
    /\ restore' = IdleStage
    /\ UNCHANGED <<primaryVars, replacement, prepare, faults>>

RestoreStep == RestoreVerify \/ RestoreSync \/ RestorePlace \/ RestoreReturn

-----------------------------------------------------------------------------
(* prepare_primary: the restored snapshot is verified before the            *)
(* destination's lock is taken, and may change until it is copied.          *)
PrepareStart ==
    /\ prepare.pc = "idle" /\ restored # Absent /\ restored.intact
    /\ replacement = Absent
    /\ prepare' = [IdleStage EXCEPT !.pc = "admitted", !.source = restored.source]
    /\ UNCHANGED <<primaryVars, restored, restore, replacement, faults>>

(* A snapshot that is gone raises, and the stage is removed. *)
PrepareCopy ==
    /\ prepare.pc = "admitted"
    /\ prepare' = IF restored = Absent THEN IdleStage
                  ELSE [prepare EXCEPT !.pc = "copied", !.intact = restored.intact]
    /\ UNCHANGED <<primaryVars, restored, restore, replacement, faults>>

(* The copy is verified in its turn, made writable by moving the manifest   *)
(* away, and given a new identity.                                          *)
PrepareCheck ==
    /\ prepare.pc = "copied"
    /\ prepare' = IF prepare.intact THEN [prepare EXCEPT !.pc = "checked"] ELSE IdleStage
    /\ UNCHANGED <<primaryVars, restored, restore, replacement, faults>>

PrepareSync ==
    /\ prepare.pc = "checked"
    /\ prepare' = [prepare EXCEPT !.pc = "synced"]
    /\ UNCHANGED <<primaryVars, restored, restore, replacement, faults>>

(* A destination that appeared meanwhile is left alone. *)
PreparePlace ==
    /\ prepare.pc = "synced"
    /\ IF replacement = Absent
         THEN /\ replacement' = Placed(prepare)
              /\ prepare' = [prepare EXCEPT !.pc = "placed"]
         ELSE /\ prepare' = IdleStage
              /\ UNCHANGED replacement
    /\ UNCHANGED <<primaryVars, restored, restore, faults>>

PrepareReturn ==
    /\ prepare.pc = "placed"
    /\ replacement' = [replacement EXCEPT !.named = TRUE]
    /\ prepare' = IdleStage
    /\ UNCHANGED <<primaryVars, restored, restore, faults>>

PrepareStep ==
    PrepareStart \/ PrepareCopy \/ PrepareCheck \/ PrepareSync \/ PreparePlace \/ PrepareReturn

(* Opening a catalog for writing where nothing is makes an empty primary.   *)
ServiceStarts ==
    /\ replacement = Absent
    /\ replacement' = [made |-> "service", source |-> 0, intact |-> TRUE,
                       synced |-> TRUE, named |-> TRUE]
    /\ UNCHANGED <<primaryVars, restored, restore, prepare, faults>>

-----------------------------------------------------------------------------
(* Deaths free the locks; an abandoned stage stays, under a name that       *)
(* nobody uses again.                                                       *)
KillWriter(w) ==
    /\ faults < MaxFaults /\ writer[w] # "idle"
    /\ writer' = [writer EXCEPT ![w] = "idle"]
    /\ faults' = faults + 1
    /\ UNCHANGED <<commits, marker, safeMarker, fencer, fenced, backups, recoveryVars>>

KillFencer ==
    /\ faults < MaxFaults /\ fencer.pc # "idle"
    /\ fencer' = [fencer EXCEPT !.pc = "idle"]
    /\ faults' = faults + 1
    /\ UNCHANGED <<commits, writer, marker, safeMarker, fenced, backups, recoveryVars>>

KillRecovery ==
    /\ faults < MaxFaults
    /\ \/ restore.pc # "idle" /\ restore' = IdleStage /\ UNCHANGED prepare
       \/ prepare.pc # "idle" /\ prepare' = IdleStage /\ UNCHANGED restore
    /\ faults' = faults + 1
    /\ UNCHANGED <<primaryVars, restored, replacement>>

PrimaryLosesPower ==
    /\ faults < MaxFaults
    /\ marker' \in {marker, safeMarker} /\ safeMarker' = marker'
    /\ writer' = [w \in Writer |-> "idle"]
    /\ fencer' = [fencer EXCEPT !.pc = "idle"]
    /\ faults' = faults + 1
    /\ UNCHANGED <<commits, fenced, backups, recoveryVars>>

(* What a loss of power may leave of a directory. *)
Remains(directory) ==
    IF directory = Absent THEN {Absent}
    ELSE (IF directory.named THEN {} ELSE {Absent})
           \cup {[directory EXCEPT !.named = TRUE, !.intact = whole] :
                   whole \in {directory.intact, directory.intact /\ directory.synced}}

RecoveryLosesPower ==
    /\ faults < MaxFaults
    /\ restored' \in Remains(restored) /\ replacement' \in Remains(replacement)
    /\ restore' = IdleStage /\ prepare' = IdleStage
    /\ faults' = faults + 1
    /\ UNCHANGED primaryVars

(* Storage decays: what restic gives back, or the restored directory.       *)
Decay ==
    /\ faults < MaxFaults
    /\ \/ /\ restore.pc = "copied" /\ restore' = [restore EXCEPT !.intact = FALSE]
          /\ UNCHANGED restored
       \/ /\ restored # Absent /\ restored' = [restored EXCEPT !.intact = FALSE]
          /\ UNCHANGED restore
    /\ faults' = faults + 1
    /\ UNCHANGED <<primaryVars, replacement, prepare>>

Fault ==
    \/ \E w \in Writer : KillWriter(w)
    \/ KillFencer \/ KillRecovery \/ PrimaryLosesPower \/ RecoveryLosesPower \/ Decay

HandoverNext ==
    \/ \E w \in Writer : Lease(w) \/ Enter(w) \/ Commit(w) \/ Close(w)
    \/ FenceLock \/ FenceStep \/ BackUp
    \/ \E p \in backups : RestoreStart(p)
    \/ RestoreStep \/ PrepareStep \/ ServiceStarts \/ Fault

HandoverSpec == HandoverInit /\ [][HandoverNext]_handoverVars

-----------------------------------------------------------------------------
(* Once fence-primary has returned a receipt, the primary stays at the      *)
(* publication the receipt names: no writer is past its check, whatever was *)
(* open, waiting or dying when it ran.                                      *)
FenceHolds ==
    fenced # Absent =>
       /\ marker = fenced /\ commits = fenced
       /\ \A w \in Writer : writer[w] # "writing"

(* A directory prepared for the new primary is complete from the moment it  *)
(* has its name, and stays so after a loss of power.                        *)
ReplacementIsWhole == replacement # Absent => replacement.intact

(* A new primary prepared from a backup of the fenced publication holds     *)
(* every write the old one ever committed.                                  *)
NothingIsLost ==
    /\ fenced # Absent /\ replacement # Absent
    /\ replacement.made = "recovery" /\ replacement.source = fenced
    => replacement.intact /\ commits = replacement.source

HandoverInvariant == HandoverTypeOK /\ FenceHolds /\ ReplacementIsWhole /\ NothingIsLost
=============================================================================
