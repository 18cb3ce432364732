----------------------------- MODULE BackupCycle -----------------------------
(* The recovery backup of the primary (storage/backup_cycle.py with         *)
(* storage/backups.py): one pending snapshot is backed up to every          *)
(* configured repository, restored from it and verified; with all receipts  *)
(* it is retired and removed. A run may end in an error or die at any step, *)
(* and the next one goes on from the files of the outbox.                   *)
(*                                                                          *)
(* .lock of the outbox is held by the one run whose progress is cy. What    *)
(* save_receipt writes is replaced and synced at once.                      *)
EXTENDS Naturals, FiniteSets

CONSTANTS
    Repository,    \* names of the configured repositories
    Identity,      \* restic repositories, by the id in their config
    None,
    MaxSnapshots,  \* bound on snapshots built
    MaxCopies,     \* bound on backups of one snapshot in one repository
    MaxDeaths,     \* bound on deaths of a run
    MaxRepoints    \* bound on names that come to mean another repository

ASSUME RepositoryAssumption ==
    /\ Cardinality(Repository) >= 2
    /\ {MaxSnapshots, MaxCopies, MaxDeaths, MaxRepoints} \subseteq Nat /\ MaxCopies >= 1

VARIABLES
    made,       \* snapshots built so far; created_at tells them all apart
    litter,     \* a killed builder left its .snapshot- stage
    pending,    \* outbox/pending: a snapshot, or None
    retired,    \* outbox/.retired
    state,      \* outbox/state.json
    completed,  \* outbox/receipts/<snapshot>.json and latest.json
    status,     \* backup-cycle-status.json in the primary's directory
    identity,   \* [Repository -> what it refers to]
    stored,     \* backups in the repositories
    cy,         \* the run
    deaths, repoints

vars == <<made, litter, pending, retired, state, completed, status, identity,
          stored, cy, deaths, repoints>>

Snapshot == 1..MaxSnapshots

(* A backup is known by an id of its own; here that is the snapshot, the     *)
(* repository that holds it and a number. A receipt names the repository by  *)
(* the id in its config, and the backup.                                     *)
Copy == [snap : Snapshot, home : Identity, copy : 1..MaxCopies]
Receipt == [id : Identity, backup : Copy]
Receipts == [Repository -> Receipt \cup {None}]
NoReceipts == [r \in Repository |-> None]

(* What is absent in a file is no value that could be there.                *)
ASSUME NoneAssumption == None \notin Snapshot \cup Receipt \cup Receipts

CyclePCs == {"idle", "cleaning", "inspect", "building", "verify", "repositories", "identified",
             "backup", "restored", "retire", "retired", "record"}
IdleCycle == [pc |-> "idle", mem |-> None, todo |-> {}, known |-> {}, repo |-> None,
              id |-> None, copy |-> None, failed |-> FALSE]

TypeOK ==
    /\ made \in 0..MaxSnapshots /\ litter \in BOOLEAN
    /\ pending \in Snapshot \cup {None}
    /\ retired \in [state : {"none", "whole", "torn"}, snap : Snapshot \cup {None}]
    /\ state \in [snap : Snapshot \cup {None}, receipts : Receipts]
    /\ completed \in [Snapshot -> Receipts \cup {None}]
    /\ status \in [kind : {"none", "deferred", "partial", "restore_verified"}, snap : Snapshot \cup {None}]
    /\ identity \in [Repository -> Identity]
    /\ stored \subseteq Copy
    /\ cy.pc \in CyclePCs /\ cy.todo \subseteq Repository /\ cy.known \subseteq Identity
    /\ deaths \in 0..MaxDeaths /\ repoints \in 0..MaxRepoints
    /\ pending # None => retired.state = "none"

Init ==
    /\ made = 0 /\ litter = FALSE
    /\ pending = None /\ retired = [state |-> "none", snap |-> None]
    /\ state = [snap |-> None, receipts |-> NoReceipts]
    /\ completed = [s \in Snapshot |-> None]
    /\ status = [kind |-> "none", snap |-> None]
    /\ identity \in {f \in [Repository -> Identity] :
                       \A r, q \in Repository : f[r] = f[q] => r = q}
    /\ stored = {} /\ cy = IdleCycle
    /\ deaths = 0 /\ repoints = 0

UnchangedWorld == UNCHANGED <<identity, deaths, repoints>>
UnchangedOutbox == UNCHANGED <<made, litter, pending, retired, state, completed>>

-----------------------------------------------------------------------------
(* An operator moves a repository. *)
Repoint(r, i) ==
    /\ repoints < MaxRepoints /\ repoints' = repoints + 1
    /\ identity' = [identity EXCEPT ![r] = i]
    /\ UnchangedOutbox /\ UNCHANGED <<status, stored, cy, deaths>>

-----------------------------------------------------------------------------
(* One run of backup_cycle. Another that finds the lock taken is coalesced. *)
Begin ==
    /\ cy.pc = "idle"
    /\ cy' = [IdleCycle EXCEPT !.mem = state,
                               !.pc = IF retired.state = "none" THEN "inspect" ELSE "cleaning"]
    /\ UnchangedOutbox /\ UNCHANGED <<status, stored>> /\ UnchangedWorld

(* The complete receipt authorises the removal of what an earlier run has   *)
(* retired; without it the run ends with an error.                          *)
CleanRetired ==
    /\ cy.pc = "cleaning"
    /\ IF cy.mem.snap # None /\ completed[cy.mem.snap] = cy.mem.receipts
       THEN cy' = [cy EXCEPT !.pc = "inspect"] /\ retired' = [state |-> "none", snap |-> None]
       ELSE cy' = IdleCycle /\ UNCHANGED retired
    /\ UNCHANGED <<made, litter, pending, state, completed, status, stored>> /\ UnchangedWorld

(* Interrupted staging defers; otherwise a snapshot is built unless one is  *)
(* pending.                                                                 *)
Inspect ==
    /\ cy.pc = "inspect" /\ ~litter
    /\ cy' = IF pending # None THEN [cy EXCEPT !.pc = "verify"]
                               ELSE [cy EXCEPT !.pc = "building"]
    /\ UnchangedOutbox /\ UNCHANGED <<status, stored>> /\ UnchangedWorld

Build ==
    /\ cy.pc = "building" /\ made < MaxSnapshots
    /\ made' = made + 1 /\ pending' = made + 1
    /\ cy' = [cy EXCEPT !.pc = "verify", !.mem.receipts = NoReceipts]
    /\ UNCHANGED <<litter, retired, state, completed, status, stored>> /\ UnchangedWorld

(* Mutant: receipts of the snapshot before survive in memory. *)
RecallMemory == IF cy.mem.snap = pending THEN cy.mem ELSE [cy.mem EXCEPT !.snap = pending]

(* Receipts are kept only for the very snapshot that is pending. *)
Recall == IF cy.mem.snap = pending THEN cy.mem
                                   ELSE [snap |-> pending, receipts |-> NoReceipts]

SaveState ==
    /\ cy.pc = "verify"
    /\ state' = Recall
    /\ cy' = [cy EXCEPT !.pc = "repositories", !.mem = Recall, !.todo = Repository]
    /\ UNCHANGED <<made, litter, pending, retired, completed, status, stored>> /\ UnchangedWorld

(* Mutant: repositories are told apart by name only. *)
IndependentName(r) == TRUE

Independent(r) == identity[r] \notin cy.known

(* cat config, once before the backup. *)
Identify(r) ==
    /\ cy.pc = "repositories" /\ r \in cy.todo /\ Independent(r)
    /\ cy' = [cy EXCEPT !.pc = "identified", !.repo = r, !.id = identity[r],
                         !.known = @ \cup {identity[r]}]
    /\ UnchangedOutbox /\ UNCHANGED <<status, stored>> /\ UnchangedWorld

Finished(mem) ==
    [cy EXCEPT !.pc = "repositories", !.mem = mem, !.todo = @ \ {cy.repo}, !.repo = None,
               !.id = None, !.copy = None]

(* A cached receipt has to fit the repository and the pending snapshot.     *)
Cached == cy.mem.receipts[cy.repo]

Confirm ==
    /\ cy.pc = "identified" /\ Cached # None
    /\ Cached.id = cy.id /\ Cached.backup.snap = pending
    /\ cy' = Finished(cy.mem)
    /\ UnchangedOutbox /\ UNCHANGED <<status, stored>> /\ UnchangedWorld

(* restic backup goes to whatever the name means by now; the copy is there   *)
(* before anybody has verified it. Copies beyond MaxCopies are not told      *)
(* apart.                                                                    *)
NextCopy(i) ==
    LET n == Cardinality({x \in stored : x.snap = pending /\ x.home = i})
    IN  IF n < MaxCopies THEN n + 1 ELSE MaxCopies

Backup ==
    LET i == identity[cy.repo]
        b == [snap |-> pending, home |-> i, copy |-> NextCopy(i)]
    IN
    /\ cy.pc = "identified" /\ Cached = None
    /\ stored' = stored \cup {b}
    /\ cy' = [cy EXCEPT !.pc = "backup", !.copy = b]
    /\ UnchangedOutbox /\ UNCHANGED status /\ UnchangedWorld

(* The backup is looked for, and restored, where the name leads now.        *)
VerifyRestore ==
    /\ cy.pc = "backup" /\ identity[cy.repo] = cy.copy.home
    /\ cy' = [cy EXCEPT !.pc = "restored"]
    /\ UnchangedOutbox /\ UNCHANGED <<status, stored>> /\ UnchangedWorld

(* cat config once more: the identity is compared and the receipt saved.    *)
SaveReceipt ==
    LET mem == [cy.mem EXCEPT !.receipts[cy.repo] = [id |-> cy.id, backup |-> cy.copy]]
    IN
    /\ cy.pc = "restored" /\ identity[cy.repo] = cy.id
    /\ state' = mem /\ cy' = Finished(mem)
    /\ UNCHANGED <<made, litter, pending, retired, completed, status, stored>> /\ UnchangedWorld

(* Any error with one repository is noted and the others are still tried.   *)
Fail(r) ==
    /\ \/ cy.pc = "repositories" /\ r \in cy.todo
       \/ cy.pc \in {"identified", "backup", "restored"} /\ r = cy.repo
    /\ cy' = [cy EXCEPT !.pc = "repositories", !.todo = @ \ {r}, !.failed = TRUE,
                         !.repo = None, !.id = None, !.copy = None]
    /\ UnchangedOutbox /\ UNCHANGED <<status, stored>> /\ UnchangedWorld

(* The receipt of all repositories; one that is there already must be equal.*)
Complete ==
    /\ cy.pc = "repositories" /\ cy.todo = {} /\ ~cy.failed
    /\ IF completed[pending] \in {None, cy.mem.receipts}
       THEN /\ completed' = [completed EXCEPT ![pending] = cy.mem.receipts]
            /\ cy' = [cy EXCEPT !.pc = "retire"]
       ELSE cy' = IdleCycle /\ UNCHANGED completed
    /\ UNCHANGED <<made, litter, pending, retired, state, status, stored>> /\ UnchangedWorld

(* Mutant: the snapshot is retired before its receipt is written. *)
RetireEarly ==
    /\ cy.pc \in {"retire", "repositories"} /\ cy.todo = {} /\ ~cy.failed
    /\ retired' = [state |-> "whole", snap |-> pending] /\ pending' = None
    /\ cy' = [cy EXCEPT !.pc = "retired"]
    /\ UNCHANGED <<made, litter, state, completed, status, stored>> /\ UnchangedWorld

Retire ==
    /\ cy.pc = "retire"
    /\ retired' = [state |-> "whole", snap |-> pending] /\ pending' = None
    /\ cy' = [cy EXCEPT !.pc = "retired"]
    /\ UNCHANGED <<made, litter, state, completed, status, stored>> /\ UnchangedWorld

RemoveRetired ==
    /\ cy.pc = "retired"
    /\ \/ retired.state = "whole" /\ retired' = [retired EXCEPT !.state = "torn"] /\ UNCHANGED cy
       \/ retired.state = "torn" /\ retired' = [state |-> "none", snap |-> None]
                                 /\ cy' = [cy EXCEPT !.pc = "record"]
    /\ UNCHANGED <<made, litter, pending, state, completed, status, stored>> /\ UnchangedWorld

Record ==
    /\ \/ cy.pc = "record"
       \/ cy.pc = "repositories" /\ cy.todo = {} /\ cy.failed
    /\ status' = [kind |-> IF cy.failed THEN "partial" ELSE "restore_verified", snap |-> cy.mem.snap]
    /\ cy' = IdleCycle
    /\ UnchangedOutbox /\ UNCHANGED stored /\ UnchangedWorld

(* No room for a snapshot, or interrupted staging: deferred, and said so.   *)
Defer ==
    /\ cy.pc = "building" \/ (cy.pc = "inspect" /\ litter)
    /\ status' = [kind |-> "deferred", snap |-> None]
    /\ cy' = IdleCycle
    /\ UnchangedOutbox /\ UNCHANGED stored /\ UnchangedWorld

(* create_snapshot raises: its stage is removed and nothing is recorded.    *)
BuildFails ==
    /\ cy.pc = "building"
    /\ cy' = IdleCycle
    /\ UnchangedOutbox /\ UNCHANGED <<status, stored>> /\ UnchangedWorld

Die ==
    /\ cy.pc # "idle" /\ deaths < MaxDeaths /\ deaths' = deaths + 1
    /\ litter' = (litter \/ cy.pc = "building")
    /\ cy' = IdleCycle
    /\ UNCHANGED <<made, pending, retired, state, completed, status, identity, stored, repoints>>

CycleStep ==
    \/ Begin \/ CleanRetired \/ Inspect \/ Build \/ SaveState \/ Complete \/ Retire
    \/ RemoveRetired \/ Record \/ Confirm \/ Backup \/ VerifyRestore \/ SaveReceipt
    \/ \E r \in Repository : Identify(r)

Next ==
    \/ CycleStep \/ Defer \/ BuildFails \/ Die
    \/ \E r \in Repository : Fail(r) \/ \E i \in Identity : Repoint(r, i)

Spec == Init /\ [][Next]_vars

(* A timer starts run after run, and a run that was started goes on.        *)
FairSpec == Spec /\ WF_vars(CycleStep \/ Defer)

-----------------------------------------------------------------------------
(* A complete receipt is the truth: every repository it names is another    *)
(* one and holds that very snapshot, however often runs died, repeated a    *)
(* backup or found a name pointing elsewhere. (But for a name that leads to *)
(* another repository while a backup is made, and back before it is         *)
(* compared: MaxRepoints = 2.)                                              *)
CompleteIsBackedUp ==
    \A s \in Snapshot : completed[s] # None =>
       \A r \in Repository :
          /\ completed[s][r] # None
          /\ completed[s][r].backup \in stored /\ completed[s][r].backup.snap = s
          /\ completed[s][r].backup.home = completed[s][r].id
          /\ \A q \in Repository \ {r} : completed[s][q].id # completed[s][r].id

(* A complete receipt that a run finds never differs from its own, and a    *)
(* retired snapshot can always be cleaned up: its receipt equals what the   *)
(* next run expects. It is then safe that the directory is torn.            *)
RetiredIsComplete ==
    retired.state # "none" => /\ state.snap = retired.snap
                              /\ completed[retired.snap] = state.receipts

NeverDiffers ==
    pending # None /\ completed[pending] # None =>
       state.snap = pending /\ completed[pending] = state.receipts

(* The primary's status calls only a snapshot verified that has every       *)
(* receipt.                                                                 *)
StatusIsHonest == status.kind = "restore_verified" =>
                     status.snap \in Snapshot /\ completed[status.snap] # None

(* Receipts and status tell the truth about what the repositories hold.     *)
ReceiptInvariant ==
    TypeOK /\ CompleteIsBackedUp /\ RetiredIsComplete /\ NeverDiffers /\ StatusIsHonest

(* Work is never thrown away: a pending snapshot is removed, and another    *)
(* built, only once it has every receipt.                                   *)
PendingIsKept ==
    [][pending # None /\ pending' # pending => completed[pending] # None]_vars

(* Once the repositories answer for good, what is pending gets all receipts,*)
(* wherever earlier runs died. (A name that comes to mean another           *)
(* repository needs the operator.)                                          *)
PendingCompletes ==
    [](repoints = 0) /\ <>[][~\E r \in Repository : Fail(r)]_vars =>
       \A s \in Snapshot : (pending = s) ~> (completed[s] # None)
=============================================================================
