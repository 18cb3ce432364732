------------------------- MODULE ReplicaGenerations -------------------------
(* A replica directory (storage/generations.py, activate_replica): workers  *)
(* activate snapshots as immutable generations and prune the obsolete ones  *)
(* while readers pin what is current. Several activations can run together: *)
(* a sender that timed out leaves its receive-replica behind and retries.   *)
(*                                                                          *)
(* .publication.lock is held by the worker or the readers whose pc says so; *)
(* a reader's pin is the shared flock on the generation's .readers.lock.    *)
(* A death ends one process; a power loss ends all and leaves, of every     *)
(* directory entry, any of the states it had since the last fsync.          *)
EXTENDS Naturals, FiniteSets

CONSTANTS
    Snapshot,        \* snapshots, by manifest digest
    Epoch,           \* [Snapshot -> publication epoch]
    Worker,          \* processes that activate or prune
    Reader,          \* processes that read the replica
    None,
    MaxFaults        \* bound on process deaths and power losses together

ASSUME EpochAssumption ==
    /\ Epoch \in [Snapshot -> Nat \ {0}]
    /\ None \notin Snapshot
    /\ MaxFaults \in Nat

VARIABLES
    gen,       \* [Snapshot -> state of generations/<digest>]
    genDisk,   \* [Snapshot -> the states a power loss may leave]
    ptr,       \* the pointer files CURRENT and PREVIOUS
    ptrDisk,   \* [pointer -> the values a power loss may leave]
    rd,        \* [Reader -> its progress]
    wk,        \* [Worker -> its progress]
    confirmed, \* highest epoch an activation has reported as verified
    deaths, outages

vars == <<gen, genDisk, ptr, ptrDisk, rd, wk, confirmed, deaths, outages>>

(* A removal that was interrupted leaves a torn generation, with its        *)
(* .readers.lock or (bare) without.                                         *)
GenStates == {"absent", "whole", "torn", "bare"}
Pointers == {"CURRENT", "PREVIOUS"}

ActivationPCs == {"admitted", "placed", "linked", "previous", "kept", "current"}
PruningPCs == {"pruning", "removing"}
Exclusive == ActivationPCs \cup PruningPCs
Shared == {"read", "open"}

TypeOK ==
    /\ gen \in [Snapshot -> GenStates]
    /\ genDisk \in [Snapshot -> SUBSET GenStates]
    /\ ptr \in [Pointers -> Snapshot \cup {None}]
    /\ ptrDisk \in [Pointers -> SUBSET (Snapshot \cup {None})]
    /\ rd \in [Reader -> [pc : {"idle", "pinned"} \cup Shared, key : Snapshot \cup {None}]]
    /\ wk \in [Worker -> [pc : {"idle", "staged", "published"} \cup Exclusive,
                          key : Snapshot \cup {None}, doomed : SUBSET Snapshot,
                          at : Snapshot \cup {None}]]
    /\ confirmed \in Nat /\ deaths \in 0..MaxFaults /\ outages \in 0..MaxFaults - deaths
    /\ Cardinality({w \in Worker : wk[w].pc \in Exclusive}) <= 1
    /\ (\E w \in Worker : wk[w].pc \in Exclusive) => \A r \in Reader : rd[r].pc \notin Shared

IdleReader == [pc |-> "idle", key |-> None]
IdleWorker == [pc |-> "idle", key |-> None, doomed |-> {}, at |-> None]

Init ==
    /\ gen = [s \in Snapshot |-> "absent"] /\ genDisk = [s \in Snapshot |-> {"absent"}]
    /\ ptr = [p \in Pointers |-> None] /\ ptrDisk = [p \in Pointers |-> {None}]
    /\ rd = [r \in Reader |-> IdleReader]
    /\ wk = [w \in Worker |-> IdleWorker]
    /\ confirmed = 0 /\ deaths = 0 /\ outages = 0

(* flock on .publication.lock: no worker holds it, or nobody does.          *)
NoWorker == \A w \in Worker : wk[w].pc \notin Exclusive

Unlocked == NoWorker /\ \A r \in Reader : rd[r].pc \notin Shared

SetGen(s, state) ==
    /\ gen' = [gen EXCEPT ![s] = state]
    /\ genDisk' = [genDisk EXCEPT ![s] = @ \cup {state}]

(* fsync of generations/. *)
SyncGenerations == genDisk' = [s \in Snapshot |-> {gen[s]}] /\ UNCHANGED gen

(* os.replace of a pointer file whose content is already synced. *)
SetPointer(p, s) ==
    /\ ptr' = [ptr EXCEPT ![p] = s]
    /\ ptrDisk' = [ptrDisk EXCEPT ![p] = @ \cup {s}]

(* fsync of the replica's root directory: both pointers. *)
SyncRoot == ptrDisk' = [p \in Pointers |-> {ptr[p]}] /\ UNCHANGED ptr

Goto(w, pc) == wk' = [wk EXCEPT ![w].pc = pc]

UnchangedFiles == UNCHANGED <<gen, genDisk, ptr, ptrDisk>>
UnchangedRest == UNCHANGED <<rd, confirmed, deaths, outages>>

-----------------------------------------------------------------------------
(* A reader: Catalog.__init__ with pin_current, and close.                  *)

(* Mutant: the pointer is read without the publication lock. *)
PinReadUnlocked(r) ==
    /\ rd[r].pc = "idle"
    /\ ptr["CURRENT"] # None
    /\ rd' = [rd EXCEPT ![r] = [pc |-> "read", key |-> ptr["CURRENT"]]]
    /\ UnchangedFiles /\ UNCHANGED <<wk, confirmed, deaths, outages>>

PinRead(r) ==
    /\ rd[r].pc = "idle" /\ NoWorker
    /\ ptr["CURRENT"] # None
    /\ rd' = [rd EXCEPT ![r] = [pc |-> "read", key |-> ptr["CURRENT"]]]
    /\ UnchangedFiles /\ UNCHANGED <<wk, confirmed, deaths, outages>>

PinOpen(r) ==
    /\ rd[r].pc = "read"
    /\ rd' = [rd EXCEPT ![r] = IF gen[rd[r].key] \in {"whole", "torn"}
                               THEN [@ EXCEPT !.pc = "open"] ELSE IdleReader]
    /\ UnchangedFiles /\ UNCHANGED <<wk, confirmed, deaths, outages>>

PinFlock(r) ==
    /\ rd[r].pc = "open"
    /\ rd' = [rd EXCEPT ![r].pc = "pinned"]
    /\ UnchangedFiles /\ UNCHANGED <<wk, confirmed, deaths, outages>>

(* close(), or the reader's death: the kernel drops the flock. *)
Unpin(r) ==
    /\ rd[r].pc # "idle"
    /\ rd' = [rd EXCEPT ![r] = IdleReader]
    /\ UnchangedFiles /\ UNCHANGED <<wk, confirmed, deaths, outages>>

-----------------------------------------------------------------------------
(* activate_replica. The verified, synced copy waits in a private stage.    *)
Stage(w, s) ==
    /\ wk[w].pc = "idle"
    /\ wk' = [wk EXCEPT ![w] = [IdleWorker EXCEPT !.pc = "staged", !.key = s]]
    /\ UnchangedFiles /\ UnchangedRest

(* Mutant: the epoch is compared with what the last activation confirmed. *)
AcceptableToSender(s) == confirmed <= Epoch[s]

(* The manifest of the current generation is read for its epoch. *)
Acceptable(s) ==
    ptr["CURRENT"] # None => /\ gen[ptr["CURRENT"]] = "whole"
                             /\ Epoch[ptr["CURRENT"]] <= Epoch[s]

Admit(w) ==
    /\ wk[w].pc = "staged" /\ Unlocked
    /\ Acceptable(wk[w].key)
    /\ Goto(w, "admitted")
    /\ UnchangedFiles /\ UnchangedRest

(* A ValueError; the stage is removed. *)
Reject(w) ==
    /\ \/ wk[w].pc = "staged" /\ Unlocked /\ ~Acceptable(wk[w].key)
       \/ wk[w].pc = "admitted" /\ gen[wk[w].key] \in {"torn", "bare"}
    /\ wk' = [wk EXCEPT ![w] = IdleWorker]
    /\ UnchangedFiles /\ UnchangedRest

Place(w) ==
    /\ wk[w].pc = "admitted" /\ gen[wk[w].key] = "absent"
    /\ SetGen(wk[w].key, "whole") /\ Goto(w, "placed")
    /\ UNCHANGED <<ptr, ptrDisk>> /\ UnchangedRest

(* Mutant: the new name is not synced before CURRENT refers to it. *)
PlacedUnsynced(w) ==
    /\ wk[w].pc = "placed"
    /\ Goto(w, "linked")
    /\ UnchangedFiles /\ UnchangedRest

SyncPlaced(w) ==
    /\ wk[w].pc = "placed"
    /\ SyncGenerations /\ Goto(w, "linked")
    /\ UNCHANGED <<ptr, ptrDisk>> /\ UnchangedRest

(* Mutant: what an earlier attempt has placed already is refused. *)
ReuseRefused(w) ==
    /\ wk[w].pc = "admitted" /\ gen[wk[w].key] = "whole"
    /\ wk' = [wk EXCEPT ![w] = IdleWorker]
    /\ UnchangedFiles /\ UnchangedRest

(* An earlier attempt got as far as the rename. *)
Reuse(w) ==
    /\ wk[w].pc = "admitted" /\ gen[wk[w].key] = "whole"
    /\ Goto(w, "linked")
    /\ UnchangedFiles /\ UnchangedRest

(* publish_locked: first PREVIOUS, then CURRENT, each replaced and synced.  *)
KeepPrevious(w) ==
    /\ wk[w].pc = "linked" /\ ptr["CURRENT"] \notin {None, wk[w].key}
    /\ SetPointer("PREVIOUS", ptr["CURRENT"]) /\ Goto(w, "previous")
    /\ UNCHANGED <<gen, genDisk>> /\ UnchangedRest

SyncPrevious(w) ==
    /\ wk[w].pc = "previous"
    /\ SyncRoot /\ Goto(w, "kept")
    /\ UNCHANGED <<gen, genDisk>> /\ UnchangedRest

SetCurrent(w) ==
    /\ \/ wk[w].pc = "kept"
       \/ wk[w].pc = "linked" /\ ptr["CURRENT"] \in {None, wk[w].key}
    /\ SetPointer("CURRENT", wk[w].key) /\ Goto(w, "current")
    /\ UNCHANGED <<gen, genDisk>> /\ UnchangedRest

SyncCurrent(w) ==
    /\ wk[w].pc = "current"
    /\ SyncRoot /\ Goto(w, "published")
    /\ UNCHANGED <<gen, genDisk>> /\ UnchangedRest

-----------------------------------------------------------------------------
(* prune_replica, at the end of an activation or on its own.                *)

Protected == {ptr["CURRENT"], ptr["PREVIOUS"]}

Eligible == {s \in Snapshot : gen[s] \in {"whole", "torn"}} \ Protected

PruneStart(w) ==
    /\ wk[w].pc \in {"idle", "published"} /\ Unlocked
    /\ ptr["CURRENT"] # None
    /\ wk' = [wk EXCEPT ![w].pc = "pruning", ![w].doomed = Eligible]
    /\ UnchangedFiles /\ UnchangedRest

Pinned(s) == \E r \in Reader : rd[r].pc = "pinned" /\ rd[r].key = s

(* LOCK_NB on .readers.lock: a pinned generation is left for later. *)
PruneSkip(w) == \E s \in wk[w].doomed :
    /\ wk[w].pc = "pruning" /\ Pinned(s)
    /\ wk' = [wk EXCEPT ![w].doomed = @ \ {s}]
    /\ UnchangedFiles /\ UnchangedRest

(* shutil.rmtree begins: the files go one by one, .readers.lock among them. *)
PruneRemove(w) == \E s \in wk[w].doomed, left \in {"torn", "bare"} :
    /\ wk[w].pc = "pruning" /\ ~Pinned(s)
    /\ SetGen(s, left)
    /\ wk' = [wk EXCEPT ![w].pc = "removing", ![w].at = s, ![w].doomed = @ \ {s}]
    /\ UNCHANGED <<ptr, ptrDisk>> /\ UnchangedRest

PruneRemoved(w) ==
    /\ wk[w].pc = "removing"
    /\ SetGen(wk[w].at, "absent")
    /\ wk' = [wk EXCEPT ![w].pc = "pruning", ![w].at = None]
    /\ UNCHANGED <<ptr, ptrDisk>> /\ UnchangedRest

(* generations/ is synced; an activation now reports its snapshot.          *)
PruneEnd(w) ==
    /\ wk[w].pc = "pruning" /\ wk[w].doomed = {}
    /\ SyncGenerations
    /\ confirmed' = IF wk[w].key # None /\ confirmed < Epoch[wk[w].key]
                    THEN Epoch[wk[w].key] ELSE confirmed
    /\ wk' = [wk EXCEPT ![w] = IdleWorker]
    /\ UNCHANGED <<ptr, ptrDisk, rd, deaths, outages>>

-----------------------------------------------------------------------------
(* A worker dies: its locks are dropped, what it did to the files stays.    *)
Die(w) ==
    /\ wk[w].pc # "idle" /\ deaths + outages < MaxFaults
    /\ deaths' = deaths + 1
    /\ wk' = [wk EXCEPT ![w] = IdleWorker]
    /\ UnchangedFiles /\ UNCHANGED <<rd, confirmed, outages>>

PowerLoss ==
    /\ deaths + outages < MaxFaults
    /\ outages' = outages + 1
    /\ gen' \in {f \in [Snapshot -> GenStates] : \A s \in Snapshot : f[s] \in genDisk[s]}
    /\ ptr' \in {f \in [Pointers -> Snapshot \cup {None}] : \A p \in Pointers : f[p] \in ptrDisk[p]}
    /\ genDisk' = [s \in Snapshot |-> {gen'[s]}]
    /\ ptrDisk' = [p \in Pointers |-> {ptr'[p]}]
    /\ rd' = [r \in Reader |-> IdleReader]
    /\ wk' = [w \in Worker |-> IdleWorker]
    /\ UNCHANGED <<confirmed, deaths>>

WorkerStep(w) ==
    \/ Admit(w) \/ Reject(w) \/ Place(w) \/ SyncPlaced(w) \/ Reuse(w)
    \/ KeepPrevious(w) \/ SyncPrevious(w) \/ SetCurrent(w) \/ SyncCurrent(w)
    \/ PruneSkip(w) \/ PruneRemove(w) \/ PruneRemoved(w) \/ PruneEnd(w)

Next ==
    \/ \E r \in Reader : PinRead(r) \/ PinOpen(r) \/ PinFlock(r) \/ Unpin(r)
    \/ \E w \in Worker : \/ WorkerStep(w) \/ PruneStart(w) \/ Die(w)
                         \/ \E s \in Snapshot : Stage(w, s)
    \/ PowerLoss

Spec == Init /\ [][Next]_vars

-----------------------------------------------------------------------------
(* A worker goes on, a pruning comes round again and again, and a sender    *)
(* that has not got its newest snapshot confirmed sends it again.           *)
Newest == CHOOSE s \in Snapshot : \A x \in Snapshot : Epoch[x] <= Epoch[s]

Fairness ==
    /\ \A w \in Worker : SF_vars(WorkerStep(w)) /\ SF_vars(PruneStart(w))
    /\ SF_vars(confirmed < Epoch[Newest] /\ \E w \in Worker : Stage(w, Newest))
    /\ \A r \in Reader : WF_vars(PinOpen(r) \/ PinFlock(r))

FairSpec == Spec /\ Fairness

-----------------------------------------------------------------------------
(* Every generation somebody may open is complete: the one a reader has     *)
(* pinned, however long it searches while others retire it; CURRENT, after a*)
(* death or a loss of power between any two steps of an activation or a     *)
(* removal; and PREVIOUS, to which an operator falls back.                  *)
PinnedIsWhole == \A r \in Reader : rd[r].pc = "pinned" => gen[rd[r].key] = "whole"
CurrentIsWhole == ptr["CURRENT"] # None => gen[ptr["CURRENT"]] = "whole"
PreviousIsWhole == ptr["PREVIOUS"] # None => gen[ptr["PREVIOUS"]] = "whole"

Wholeness == TypeOK /\ PinnedIsWhole /\ CurrentIsWhole /\ PreviousIsWhole

(* While the power stays on, readers never see the replica go back to an    *)
(* earlier epoch, in whatever order the activations of several senders come *)
(* to the lock.                                                             *)
NeverBackward ==
    [][outages' = outages /\ ptr["CURRENT"] # None =>
         ptr'["CURRENT"] # None /\ Epoch[ptr["CURRENT"]] <= Epoch[ptr'["CURRENT"]]]_vars

(* The newest snapshot is published in the end, whatever an interrupted     *)
(* activation or removal has left.                                          *)
NewestArrives == <>(ptr["CURRENT"] # None /\ Epoch[ptr["CURRENT"]] = Epoch[Newest])

(* The replica implements the store its readers and senders rely on: what   *)
(* is pinned is not removed, and what was confirmed to a sender, which then *)
(* deletes its copy, is served whatever fails.                              *)
Store == INSTANCE PinnedStore WITH
    whole <- {s \in Snapshot : gen[s] = "whole"},
    current <- ptr["CURRENT"],
    pins <- [r \in Reader |-> IF rd[r].pc = "pinned" THEN rd[r].key ELSE None]

ImplementsStore == Store!Spec

=============================================================================
