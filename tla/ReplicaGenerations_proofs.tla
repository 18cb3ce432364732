---------------------- MODULE ReplicaGenerations_proofs ----------------------
(* The safety of ReplicaGenerations for any snapshots, epochs, workers,     *)
(* readers and number of faults: readers never see the replica go back,     *)
(* whatever fails, and every generation that may be opened is complete, and *)
(* the replica implements PinnedStore, unless power is lost after a worker  *)
(* died with something unsynced.                                            *)
EXTENDS ReplicaGenerations, FiniteSetTheorems, TLAPS

(* Any number of workers may die, and the power may be lost any number of   *)
(* times, but not after a death: nothing syncs what the dead left.          *)
NoLossAfterDeath == [][PowerLoss => deaths = 0]_vars

-----------------------------------------------------------------------------
(* What holds whatever fails.                                               *)

Types ==
    /\ gen \in [Snapshot -> GenStates]
    /\ genDisk \in [Snapshot -> SUBSET GenStates]
    /\ ptr \in [Pointers -> Snapshot \cup {None}]
    /\ ptrDisk \in [Pointers -> SUBSET (Snapshot \cup {None})]
    /\ rd \in [Reader -> [pc : {"idle", "pinned"} \cup Shared, key : Snapshot \cup {None}]]
    /\ wk \in [Worker -> [pc : {"idle", "staged", "published"} \cup Exclusive,
                          key : Snapshot \cup {None}, doomed : SUBSET Snapshot,
                          at : Snapshot \cup {None}]]

Numbers == confirmed \in Nat /\ deaths \in 0..MaxFaults /\ outages \in 0..MaxFaults - deaths

(* Who has a generation to speak of. *)
Keyed ==
    /\ \A r \in Reader : rd[r].pc # "idle" => rd[r].key # None
    /\ \A w \in Worker :
        /\ wk[w].pc = "idle" => wk[w].key = None
        /\ wk[w].pc \in ActivationPCs \cup {"staged", "published"} => wk[w].key # None
        /\ wk[w].pc = "removing" => wk[w].at # None

(* flock: one holds .publication.lock alone, or readers share it. *)
OneHolder ==
    \A v \in Worker : wk[v].pc \in Exclusive =>
        /\ \A w \in Worker : wk[w].pc \in Exclusive => v = w
        /\ \A r \in Reader : rd[r].pc \notin Shared

(* A pointer file has the content it was given last on disk, or may have. *)
PointersKnown == \A p \in Pointers : ptr[p] \in ptrDisk[p]

(* What was compared at admission stays so until the lock is released.      *)
StaysAcceptable ==
    \A w \in Worker : wk[w].pc \in ActivationPCs /\ ptr["CURRENT"] # None =>
        Epoch[ptr["CURRENT"]] <= Epoch[wk[w].key]

Switched == \A w \in Worker : wk[w].pc = "current" => ptr["CURRENT"] = wk[w].key

(* CURRENT, also after a loss of power, is none that is older than e. *)
AtLeast(e) == \A x \in ptrDisk["CURRENT"] : x # None /\ e <= Epoch[x]

(* An activation on its way to report its snapshot, and one that has.       *)
Published ==
    /\ \A w \in Worker : wk[w].pc \in PruningPCs \cup {"published"} /\ wk[w].key # None =>
           AtLeast(Epoch[wk[w].key])
    /\ confirmed > 0 => AtLeast(confirmed)

Always ==
    /\ Types /\ Numbers /\ Keyed /\ OneHolder
    /\ PointersKnown /\ StaysAcceptable /\ Switched /\ Published

-----------------------------------------------------------------------------
(* What is whole, in the kernel's memory and after a loss of power.         *)

PrunesOthers ==
    \A w \in Worker :
        /\ wk[w].pc \in PruningPCs => wk[w].doomed \cap Protected = {}
        /\ wk[w].pc = "removing" => gen[wk[w].at] # "whole"

KeepsCurrent ==
    \A w \in Worker : wk[w].pc \in {"previous", "kept"} => ptr["PREVIOUS"] = ptr["CURRENT"]

LinksWhole ==
    \A w \in Worker : wk[w].pc \in ActivationPCs \ {"admitted"} => gen[wk[w].key] = "whole"

(* Until it has its flock, a reader relies on CURRENT, which waits for it.  *)
ReadsCurrent == \A r \in Reader : rd[r].pc \in Shared => rd[r].key = ptr["CURRENT"]

InMemory ==
    /\ PinnedIsWhole /\ CurrentIsWhole /\ PreviousIsWhole
    /\ PrunesOthers /\ KeepsCurrent /\ LinksWhole /\ ReadsCurrent

(* Only a generation just placed is whole and yet could be lost. *)
PlacedUnsafe ==
    \A s \in Snapshot : gen[s] = "whole" /\ genDisk[s] # {"whole"} =>
        \E w \in Worker : wk[w].pc = "placed" /\ wk[w].key = s

(* Only a pointer just replaced could fall back. *)
ReplacedUnsafe ==
    (\A w \in Worker : wk[w].pc \notin {"previous", "current"}) =>
        \A p \in Pointers : ptrDisk[p] = {ptr[p]}

(* Whatever a pointer could fall back to is there to stay. *)
FallsBackWell ==
    \A p \in Pointers : \A x \in ptrDisk[p] \ {None} : gen[x] = "whole" /\ genDisk[x] = {"whole"}

LinksDurable ==
    \A w \in Worker : wk[w].pc \in ActivationPCs \ {"admitted", "placed"} =>
        genDisk[wk[w].key] = {"whole"}

OnDisk == PlacedUnsafe /\ ReplacedUnsafe /\ FallsBackWell /\ LinksDurable

IInv == Always /\ InMemory /\ (deaths = 0 => OnDisk)

-----------------------------------------------------------------------------
(* What the start of a pruning makes of its worker. *)
LEMMA PruneStarts ==
    ASSUME Types, NEW w \in Worker, PruneStart(w)
    PROVE  /\ wk'[w].pc = "pruning" /\ wk'[w].key = wk[w].key
           /\ wk'[w].doomed = Eligible /\ wk'[w].at = wk[w].at
           /\ \A v \in Worker \ {w} : wk'[v] = wk[v]
           /\ Types'
<1> DEFINE D == Eligible
<1> DEFINE Record == [pc : {"idle", "staged", "published"} \cup Exclusive,
                      key : Snapshot \cup {None}, doomed : SUBSET Snapshot,
                      at : Snapshot \cup {None}]
<1>1. wk \in [Worker -> Record] /\ wk' = [wk EXCEPT ![w].pc = "pruning", ![w].doomed = D]
  BY DEF PruneStart, Types
<1>2. D \in SUBSET Snapshot /\ "pruning" \in Exclusive
  BY DEF Eligible, Exclusive, PruningPCs
<1> HIDE DEF D
<1>3. wk' = [wk EXCEPT ![w] = [[wk[w] EXCEPT !.pc = "pruning"] EXCEPT !.doomed = D]]
  BY <1>1
<1>4. wk[w] \in Record
  BY <1>1
<1>5. /\ wk'[w].pc = "pruning" /\ wk'[w].key = wk[w].key
      /\ wk'[w].doomed = D /\ wk'[w].at = wk[w].at
      /\ \A v \in Worker \ {w} : wk'[v] = wk[v]
  BY <1>1, <1>3, <1>4
<1>6. wk' \in [Worker -> Record]
  BY <1>1, <1>2, <1>3, <1>4
<1>7. Types'
  BY <1>6 DEF PruneStart, Types, UnchangedFiles, UnchangedRest
<1>8. QED
  BY <1>5, <1>7 DEF D
-----------------------------------------------------------------------------
LEMMA InitIInv == Init => IInv
<1> SUFFICES ASSUME Init PROVE IInv
  OBVIOUS
<1> USE EpochAssumption DEF Init, IdleReader, IdleWorker
<1>1. Types
  BY DEF Types, GenStates, Pointers
<1>2. Numbers
  BY DEF Numbers
<1>3. Keyed /\ OneHolder /\ PointersKnown /\ StaysAcceptable /\ Switched
  BY DEF Keyed, OneHolder, PointersKnown, StaysAcceptable, Switched, ActivationPCs, PruningPCs,
         Exclusive, Pointers
<1>4. Published
  BY DEF Published, PruningPCs
<1>5. InMemory
  BY DEF InMemory, PinnedIsWhole, CurrentIsWhole, PreviousIsWhole, PrunesOthers, KeepsCurrent,
         LinksWhole, ReadsCurrent, PruningPCs, ActivationPCs, Shared, Pointers
<1>6. OnDisk
  BY DEF OnDisk, PlacedUnsafe, ReplacedUnsafe, FallsBackWell, LinksDurable, ActivationPCs, Pointers
<1>7. QED
  BY <1>1, <1>2, <1>3, <1>4, <1>5, <1>6 DEF IInv, Always

LEMMA TypesStep == Types /\ Keyed /\ [Next]_vars => Types' /\ Keyed'
<1> SUFFICES ASSUME Types, Keyed, [Next]_vars PROVE Types' /\ Keyed'
  OBVIOUS
<1> USE EpochAssumption
    DEF Types, Keyed, ActivationPCs, PruningPCs, Exclusive, Shared, GenStates, Pointers,
        UnchangedFiles, UnchangedRest, SetGen, SetPointer, SyncGenerations, SyncRoot, Goto,
        IdleReader, IdleWorker
<1>1. ASSUME NEW r \in Reader, PinRead(r) PROVE Types' /\ Keyed'
  BY <1>1 DEF PinRead
<1>2. ASSUME NEW r \in Reader, PinOpen(r) PROVE Types' /\ Keyed'
  BY <1>2 DEF PinOpen
<1>3. ASSUME NEW r \in Reader, PinFlock(r) PROVE Types' /\ Keyed'
  BY <1>3 DEF PinFlock
<1>4. ASSUME NEW r \in Reader, Unpin(r) PROVE Types' /\ Keyed'
  BY <1>4 DEF Unpin
<1>5. ASSUME NEW w \in Worker, NEW s \in Snapshot, Stage(w, s) PROVE Types' /\ Keyed'
  BY <1>5 DEF Stage
<1>6. ASSUME NEW w \in Worker, Admit(w) PROVE Types' /\ Keyed'
  BY <1>6 DEF Admit
<1>7. ASSUME NEW w \in Worker, Reject(w) PROVE Types' /\ Keyed'
  BY <1>7 DEF Reject
<1>8. ASSUME NEW w \in Worker, Place(w) PROVE Types' /\ Keyed'
  BY <1>8 DEF Place
<1>9. ASSUME NEW w \in Worker, SyncPlaced(w) PROVE Types' /\ Keyed'
  BY <1>9 DEF SyncPlaced
<1>10. ASSUME NEW w \in Worker, Reuse(w) PROVE Types' /\ Keyed'
  BY <1>10 DEF Reuse
<1>11. ASSUME NEW w \in Worker, KeepPrevious(w) PROVE Types' /\ Keyed'
  BY <1>11 DEF KeepPrevious
<1>12. ASSUME NEW w \in Worker, SyncPrevious(w) PROVE Types' /\ Keyed'
  BY <1>12 DEF SyncPrevious
<1>13. ASSUME NEW w \in Worker, SetCurrent(w) PROVE Types' /\ Keyed'
  BY <1>13 DEF SetCurrent
<1>14. ASSUME NEW w \in Worker, SyncCurrent(w) PROVE Types' /\ Keyed'
  BY <1>14 DEF SyncCurrent
<1>15. ASSUME NEW w \in Worker, PruneStart(w) PROVE Types' /\ Keyed'
  <2>1. UNCHANGED rd
    BY <1>15 DEF PruneStart
  <2>2. wk[w].pc \in {"idle", "published"}
    BY <1>15 DEF PruneStart
  <2>3. /\ wk'[w].pc = "pruning" /\ wk'[w].key = wk[w].key
        /\ \A v \in Worker \ {w} : wk'[v] = wk[v]
        /\ Types'
    BY ONLY <1>15, PruneStarts, Types
  <2>4. Keyed'
    BY ONLY <2>1, <2>3, Keyed DEF Keyed, ActivationPCs
  <2>5. QED
    BY ONLY <2>3, <2>4
<1>16. ASSUME NEW w \in Worker, PruneSkip(w) PROVE Types' /\ Keyed'
  BY <1>16 DEF PruneSkip
<1>17. ASSUME NEW w \in Worker, PruneRemove(w) PROVE Types' /\ Keyed'
  BY <1>17 DEF PruneRemove
<1>18. ASSUME NEW w \in Worker, PruneRemoved(w) PROVE Types' /\ Keyed'
  BY <1>18 DEF PruneRemoved
<1>19. ASSUME NEW w \in Worker, PruneEnd(w) PROVE Types' /\ Keyed'
  BY <1>19 DEF PruneEnd
<1>20. ASSUME NEW w \in Worker, Die(w) PROVE Types' /\ Keyed'
  BY <1>20 DEF Die
<1>21. CASE PowerLoss
  BY <1>21 DEF PowerLoss
<1>22. CASE UNCHANGED vars
  BY <1>22 DEF vars
<1>23. QED
  BY <1>1, <1>2, <1>3, <1>4, <1>5, <1>6, <1>7, <1>8, <1>9, <1>10, <1>11, <1>12, <1>13, <1>14,
     <1>15, <1>16, <1>17, <1>18, <1>19, <1>20, <1>21, <1>22 DEF Next, WorkerStep

LEMMA NumbersStep == Types /\ Numbers /\ [Next]_vars => Numbers'
<1> SUFFICES ASSUME Types, Numbers, [Next]_vars PROVE Numbers'
  OBVIOUS
<1> USE EpochAssumption DEF Numbers
<1>1. ASSUME NEW w \in Worker, PruneEnd(w) PROVE Numbers'
  BY <1>1 DEF PruneEnd, Types
<1>2. ASSUME NEW w \in Worker, Die(w) PROVE Numbers'
  BY <1>2 DEF Die
<1>3. CASE PowerLoss
  BY <1>3 DEF PowerLoss
<1>4. CASE UNCHANGED <<confirmed, deaths, outages>>
  BY <1>4
<1>5. QED
  BY <1>1, <1>2, <1>3, <1>4
     DEF Next, WorkerStep, vars, UnchangedRest, PinRead, PinOpen, PinFlock, Unpin, Stage, Admit,
         Reject, Place, SyncPlaced, Reuse, KeepPrevious, SyncPrevious, SetCurrent, SyncCurrent,
         PruneStart, PruneSkip, PruneRemove, PruneRemoved

(* The lock is taken only when it is free for the purpose, and a step that  *)
(* takes nothing may only give back.                                        *)
LEMMA HolderStep == Types /\ OneHolder /\ [Next]_vars => OneHolder'
<1> SUFFICES ASSUME Types, OneHolder, [Next]_vars PROVE OneHolder'
  OBVIOUS
<1> DEFINE GivesBack ==
             /\ \A v \in Worker : wk'[v].pc \in Exclusive => wk[v].pc \in Exclusive
             /\ \A r \in Reader : rd'[r].pc \in Shared => rd[r].pc \in Shared
<1>1. GivesBack => OneHolder'
  BY DEF OneHolder
<1> USE DEF ActivationPCs, PruningPCs, Exclusive, Shared, Types, IdleWorker, IdleReader,
            UnchangedFiles, UnchangedRest, Goto
<1>2. ASSUME NEW r \in Reader, PinRead(r) PROVE OneHolder'
  BY <1>2 DEF PinRead, NoWorker, OneHolder
<1>3. ASSUME NEW r \in Reader, PinOpen(r) \/ PinFlock(r) \/ Unpin(r) PROVE OneHolder'
  <2>1. GivesBack
    BY <1>3 DEF PinOpen, PinFlock, Unpin
  <2>2. QED
    BY <1>1, <2>1
<1>4. ASSUME NEW w \in Worker, Admit(w) PROVE OneHolder'
  BY <1>4 DEF Admit, Unlocked, NoWorker, OneHolder
<1>5. ASSUME NEW w \in Worker, PruneStart(w) PROVE OneHolder'
  BY <1>5 DEF PruneStart, Unlocked, NoWorker, OneHolder
<1>6. ASSUME NEW w \in Worker, (WorkerStep(w) /\ ~Admit(w)) \/ Die(w) \/ \E s \in Snapshot : Stage(w, s)
      PROVE OneHolder'
  <2>1. UNCHANGED rd
    BY <1>6 DEF WorkerStep, Reject, Place, SyncPlaced, Reuse, KeepPrevious, SyncPrevious, SetCurrent,
                SyncCurrent, PruneSkip, PruneRemove, PruneRemoved, PruneEnd, Die, Stage
  <2>2. \A v \in Worker \ {w} : wk'[v] = wk[v]
    BY <1>6 DEF WorkerStep, Reject, Place, SyncPlaced, Reuse, KeepPrevious, SyncPrevious, SetCurrent,
                SyncCurrent, PruneSkip, PruneRemove, PruneRemoved, PruneEnd, Die, Stage
  <2>3. ASSUME wk'[w].pc \in Exclusive PROVE wk[w].pc \in Exclusive
    <3>1. CASE WorkerStep(w) /\ ~Admit(w)
      <4>1. CASE Place(w) \/ SyncPlaced(w) \/ Reuse(w) \/ KeepPrevious(w)
        BY <4>1 DEF Place, SyncPlaced, Reuse, KeepPrevious
      <4>2. CASE SyncPrevious(w) \/ SetCurrent(w) \/ SyncCurrent(w)
        BY <4>2 DEF SyncPrevious, SetCurrent, SyncCurrent
      <4>3. CASE PruneSkip(w) \/ PruneRemove(w) \/ PruneRemoved(w)
        BY <4>3 DEF PruneSkip, PruneRemove, PruneRemoved
      <4>4. CASE Reject(w) \/ PruneEnd(w)
        BY <2>3, <4>4 DEF Reject, PruneEnd
      <4>5. QED
        BY <3>1, <4>1, <4>2, <4>3, <4>4 DEF WorkerStep
    <3>2. CASE Die(w)
      BY <2>3, <3>2 DEF Die
    <3>3. ASSUME NEW s \in Snapshot, Stage(w, s) PROVE FALSE
      <4>1. wk'[w].pc = "staged"
        BY <3>3 DEF Stage
      <4>2. QED
        BY <2>3, <4>1
    <3>4. QED
      BY <1>6, <3>1, <3>2, <3>3
  <2>4. QED
    BY <1>1, <2>1, <2>2, <2>3
<1>7. CASE PowerLoss
  BY <1>1, <1>7 DEF PowerLoss
<1>8. CASE UNCHANGED vars
  BY <1>1, <1>8 DEF vars
<1>9. QED
  BY <1>2, <1>3, <1>4, <1>5, <1>6, <1>7, <1>8 DEF Next

LEMMA KnownStep == Types /\ PointersKnown /\ [Next]_vars => PointersKnown'
<1> SUFFICES ASSUME Types, PointersKnown, [Next]_vars PROVE PointersKnown'
  OBVIOUS
<1> USE DEF Types, PointersKnown
<1>1. CASE UNCHANGED <<ptr, ptrDisk>>
  BY <1>1
<1>2. ASSUME NEW p \in Pointers, NEW s, SetPointer(p, s) PROVE PointersKnown'
  BY <1>2 DEF SetPointer
<1>3. CASE SyncRoot
  BY <1>3 DEF SyncRoot
<1>4. CASE PowerLoss
  BY <1>4 DEF PowerLoss
<1>5. "CURRENT" \in Pointers /\ "PREVIOUS" \in Pointers
  BY DEF Pointers
<1>6. QED
  BY <1>1, <1>2, <1>3, <1>4, <1>5
     DEF Next, WorkerStep, vars, UnchangedFiles, PinRead, PinOpen, PinFlock, Unpin, Stage, Admit,
         Reject, Place, SyncPlaced, Reuse, KeepPrevious, SyncPrevious, SetCurrent, SyncCurrent,
         PruneStart, PruneSkip, PruneRemove, PruneRemoved, PruneEnd, Die

(* What is known of CURRENT at admission holds until it is replaced: nobody *)
(* else replaces it meanwhile.                                              *)
LEMMA AcceptableStep ==
    Types /\ Keyed /\ OneHolder /\ StaysAcceptable /\ Switched /\ [Next]_vars =>
        (StaysAcceptable /\ Switched)'
<1> SUFFICES ASSUME Types, Keyed, OneHolder, StaysAcceptable, Switched, [Next]_vars
              PROVE (StaysAcceptable /\ Switched)'
  OBVIOUS
<1> USE EpochAssumption
    DEF ActivationPCs, PruningPCs, Exclusive, Types, Keyed, StaysAcceptable, Switched, IdleWorker,
        UnchangedFiles, UnchangedRest, Goto
<1> DEFINE Remains == \A w \in Worker : wk'[w].pc \in ActivationPCs =>
                        /\ wk[w].pc \in ActivationPCs /\ wk'[w].key = wk[w].key
                        /\ wk'[w].pc = "current" => wk[w].pc = "current"
<1>1. Remains /\ ptr'["CURRENT"] = ptr["CURRENT"] => (StaysAcceptable /\ Switched)'
  OBVIOUS
<1>2. ASSUME NEW r \in Reader, PinRead(r) \/ PinOpen(r) \/ PinFlock(r) \/ Unpin(r)
      PROVE (StaysAcceptable /\ Switched)'
  BY <1>1, <1>2 DEF PinRead, PinOpen, PinFlock, Unpin
<1>3. ASSUME NEW w \in Worker, Admit(w) PROVE (StaysAcceptable /\ Switched)'
  BY <1>3 DEF Admit, Acceptable
<1>4. ASSUME NEW w \in Worker, NEW s \in Snapshot, Stage(w, s) PROVE (StaysAcceptable /\ Switched)'
  BY <1>1, <1>4 DEF Stage
<1>5. ASSUME NEW w \in Worker, Reject(w) \/ Die(w) PROVE (StaysAcceptable /\ Switched)'
  <2>1. CASE Reject(w)
    BY <1>1, <2>1 DEF Reject
  <2>2. CASE Die(w)
    BY <1>1, <2>2 DEF Die
  <2>3. QED
    BY <1>5, <2>1, <2>2
<1>6. ASSUME NEW w \in Worker, Place(w) \/ SyncPlaced(w) \/ Reuse(w) PROVE (StaysAcceptable /\ Switched)'
  BY <1>1, <1>6 DEF Place, SyncPlaced, Reuse
<1>7. ASSUME NEW w \in Worker, KeepPrevious(w) \/ SyncPrevious(w) PROVE (StaysAcceptable /\ Switched)'
  <2>1. Remains
    BY <1>7 DEF KeepPrevious, SyncPrevious
  <2>2. ptr'["CURRENT"] = ptr["CURRENT"]
    BY <1>7 DEF KeepPrevious, SyncPrevious, SetPointer, SyncRoot, Pointers
  <2>3. QED
    BY <1>1, <2>1, <2>2
<1>8. ASSUME NEW w \in Worker, SetCurrent(w) PROVE (StaysAcceptable /\ Switched)'
  BY <1>8 DEF SetCurrent, SetPointer, Pointers, OneHolder
<1>9. ASSUME NEW w \in Worker, SyncCurrent(w) PROVE (StaysAcceptable /\ Switched)'
  BY <1>1, <1>9 DEF SyncCurrent, SyncRoot
<1>10. ASSUME NEW w \in Worker, PruneStart(w) \/ PruneSkip(w) \/ PruneRemove(w) \/ PruneRemoved(w)
                                \/ PruneEnd(w)
       PROVE (StaysAcceptable /\ Switched)'
  <2>1. Remains
    <3>1. CASE PruneStart(w)
      BY <3>1, PruneStarts
    <3>2. CASE PruneSkip(w)
      BY <3>2 DEF PruneSkip
    <3>3. CASE PruneRemove(w)
      BY <3>3 DEF PruneRemove
    <3>4. CASE PruneRemoved(w)
      BY <3>4 DEF PruneRemoved
    <3>5. CASE PruneEnd(w)
      BY <3>5 DEF PruneEnd
    <3>6. QED
      BY <1>10, <3>1, <3>2, <3>3, <3>4, <3>5
  <2>2. UNCHANGED ptr
    BY <1>10 DEF PruneStart, PruneSkip, PruneRemove, PruneRemoved, PruneEnd
  <2>3. QED
    BY <1>1, <2>1, <2>2
<1>11. CASE PowerLoss
  BY <1>11 DEF PowerLoss
<1>12. CASE UNCHANGED vars
  BY <1>1, <1>12 DEF vars
<1>13. QED
  BY <1>2, <1>3, <1>4, <1>5, <1>6, <1>7, <1>8, <1>9, <1>10, <1>11, <1>12 DEF Next, WorkerStep

(* A confirmed snapshot is outdated only by newer ones, also on disk. *)
LEMMA PublishedStep ==
    Always /\ [Next]_vars => Published'
<1> SUFFICES ASSUME Always, [Next]_vars PROVE Published'
  OBVIOUS
<1>0. Types /\ Types' /\ Keyed /\ Keyed' /\ Numbers /\ OneHolder /\ PointersKnown
      /\ StaysAcceptable /\ Switched /\ Published
  BY TypesStep DEF Always
<1> USE EpochAssumption
<1> DEFINE Reports(w) == wk[w].pc \in PruningPCs \cup {"published"} /\ wk[w].key # None
           Carried == \A w \in Worker : Reports(w)' => Reports(w) /\ wk'[w].key = wk[w].key
           NoOlder == \A x \in ptrDisk'["CURRENT"] \ ptrDisk["CURRENT"] :
                        x \in Snapshot /\ \A e \in Nat : AtLeast(e) => e <= Epoch[x]
<1>1. NoOlder => \A e \in Nat : AtLeast(e) => AtLeast(e)'
  BY DEF AtLeast
<1>2. ASSUME NoOlder, Carried, UNCHANGED confirmed PROVE Published'
  <2>1. \A w \in Worker : Reports(w)' => AtLeast(Epoch[wk[w].key])'
    <3> SUFFICES ASSUME NEW w \in Worker, Reports(w)' PROVE AtLeast(Epoch[wk[w].key])'
      OBVIOUS
    <3>1. Reports(w) /\ wk'[w].key = wk[w].key
      BY <1>2
    <3>2. wk[w].key \in Snapshot
      BY <1>0, <3>1 DEF Types
    <3>3. AtLeast(Epoch[wk[w].key]) /\ Epoch[wk[w].key] \in Nat
      BY <1>0, <3>1, <3>2 DEF Published
    <3>4. \A x \in ptrDisk'["CURRENT"] : x # None /\ Epoch[wk[w].key] <= Epoch[x]
      BY <1>1, <1>2, <3>3 DEF AtLeast
    <3>5. QED
      BY <3>1, <3>4 DEF AtLeast
  <2>2. confirmed' > 0 => AtLeast(confirmed)'
    <3>1. confirmed > 0 => \A x \in ptrDisk'["CURRENT"] : x # None /\ confirmed <= Epoch[x]
      BY <1>0, <1>1, <1>2 DEF AtLeast, Published, Numbers
    <3>2. QED
      BY <1>2, <3>1 DEF AtLeast
  <2>3. QED
    BY <2>1, <2>2 DEF Published
<1>3. ptrDisk'["CURRENT"] \subseteq ptrDisk["CURRENT"] => NoOlder
  OBVIOUS
<1>4. ptr["CURRENT"] \in ptrDisk["CURRENT"]
  BY <1>0 DEF PointersKnown, Pointers
<1> HIDE DEF NoOlder
<1> USE <1>0 DEF Types, PruningPCs, IdleWorker, UnchangedFiles, UnchangedRest, Goto
<1>5. ASSUME NEW r \in Reader, PinRead(r) \/ PinOpen(r) \/ PinFlock(r) \/ Unpin(r) PROVE Published'
  BY <1>2, <1>3, <1>5 DEF PinRead, PinOpen, PinFlock, Unpin
<1>6. ASSUME NEW w \in Worker, NEW s \in Snapshot, Stage(w, s) PROVE Published'
  BY <1>2, <1>3, <1>6 DEF Stage
<1>7. ASSUME NEW w \in Worker, Admit(w) \/ Reject(w) \/ Die(w) PROVE Published'
  BY <1>2, <1>3, <1>7 DEF Admit, Reject, Die
<1>8. ASSUME NEW w \in Worker, Place(w) \/ SyncPlaced(w) \/ Reuse(w) PROVE Published'
  BY <1>2, <1>3, <1>8 DEF Place, SyncPlaced, Reuse
<1>9. ASSUME NEW w \in Worker, KeepPrevious(w) PROVE Published'
  <2>1. ptrDisk'["CURRENT"] = ptrDisk["CURRENT"]
    BY <1>9 DEF KeepPrevious, SetPointer, Pointers
  <2>2. Carried
    BY <1>9 DEF KeepPrevious
  <2>3. QED
    BY <1>2, <1>3, <1>9, <2>1, <2>2 DEF KeepPrevious
<1>10. ASSUME NEW w \in Worker, SyncPrevious(w) PROVE Published'
  <2>1. ptrDisk'["CURRENT"] \subseteq ptrDisk["CURRENT"]
    BY <1>4, <1>10 DEF SyncPrevious, SyncRoot, Pointers
  <2>2. Carried
    BY <1>10 DEF SyncPrevious
  <2>3. QED
    BY <1>2, <1>3, <1>10, <2>1, <2>2 DEF SyncPrevious
<1>11. ASSUME NEW w \in Worker, SetCurrent(w) PROVE Published'
  <2>1. ptrDisk'["CURRENT"] = ptrDisk["CURRENT"] \cup {wk[w].key}
    BY <1>11 DEF SetCurrent, SetPointer, Pointers
  <2>2. wk[w].pc \in ActivationPCs /\ wk[w].key \in Snapshot
    BY <1>11 DEF SetCurrent, ActivationPCs, Keyed
  <2>3. \A e \in Nat : AtLeast(e) => e <= Epoch[wk[w].key]
    <3> SUFFICES ASSUME NEW e \in Nat, AtLeast(e) PROVE e <= Epoch[wk[w].key]
      OBVIOUS
    <3>1. ptr["CURRENT"] \in Snapshot /\ e <= Epoch[ptr["CURRENT"]]
      BY <1>4 DEF AtLeast, Pointers
    <3>2. Epoch[ptr["CURRENT"]] <= Epoch[wk[w].key]
      BY <2>2, <3>1 DEF StaysAcceptable
    <3>3. QED
      BY <2>2, <3>1, <3>2
  <2>4. NoOlder
    BY <2>1, <2>2, <2>3 DEF NoOlder
  <2>5. Carried
    BY <1>11 DEF SetCurrent
  <2>6. QED
    BY <1>2, <1>11, <2>4, <2>5 DEF SetCurrent
<1>12. ASSUME NEW w \in Worker, SyncCurrent(w) PROVE Published'
  <2>1. ptrDisk'["CURRENT"] = {ptr["CURRENT"]} /\ UNCHANGED <<confirmed, ptr>>
    BY <1>12 DEF SyncCurrent, SyncRoot, Pointers
  <2>2. ptrDisk'["CURRENT"] \subseteq ptrDisk["CURRENT"]
    BY <1>4, <2>1
  <2>3. wk'[w].key = wk[w].key /\ \A v \in Worker \ {w} : wk'[v] = wk[v]
    BY <1>12 DEF SyncCurrent
  <2>4. wk[w].key = ptr["CURRENT"] /\ wk[w].key \in Snapshot
    BY <1>12 DEF SyncCurrent, Switched, Keyed, ActivationPCs
  <2>5. AtLeast(Epoch[wk[w].key])'
    BY <2>1, <2>3, <2>4 DEF AtLeast
  <2>6. ASSUME NEW v \in Worker, v # w, Reports(v)' PROVE AtLeast(Epoch[wk[v].key])'
    <3>1. Reports(v) /\ wk'[v] = wk[v] /\ wk[v].key \in Snapshot
      BY <2>3, <2>6
    <3>2. AtLeast(Epoch[wk[v].key])
      BY <3>1 DEF Published
    <3>3. QED
      BY <2>2, <3>1, <3>2 DEF AtLeast
  <2>7. confirmed' > 0 => AtLeast(confirmed)'
    <3>1. confirmed > 0 => AtLeast(confirmed)
      BY DEF Published
    <3>2. QED
      BY <2>1, <2>2, <3>1 DEF AtLeast
  <2>8. QED
    BY <2>5, <2>6, <2>7 DEF Published
<1>13. ASSUME NEW w \in Worker, PruneStart(w) PROVE Published'
  <2>1. Carried
    <3>1. wk[w].pc = "published" \/ wk[w].key = None
      BY <1>13 DEF PruneStart, Keyed
    <3>2. wk'[w].key = wk[w].key /\ \A v \in Worker \ {w} : wk'[v] = wk[v]
      BY <1>13, PruneStarts
    <3>3. QED
      BY <3>1, <3>2
  <2>2. QED
    BY <1>2, <1>3, <1>13, <2>1 DEF PruneStart
<1>14. ASSUME NEW w \in Worker, PruneSkip(w) PROVE Published'
  BY <1>2, <1>3, <1>14 DEF PruneSkip
<1>15. ASSUME NEW w \in Worker, PruneRemove(w) PROVE Published'
  BY <1>2, <1>3, <1>15 DEF PruneRemove
<1>16. ASSUME NEW w \in Worker, PruneRemoved(w) PROVE Published'
  BY <1>2, <1>3, <1>16 DEF PruneRemoved
<1>17. ASSUME NEW w \in Worker, PruneEnd(w) PROVE Published'
  <2>1. UNCHANGED ptrDisk /\ \A v \in Worker : Reports(v)' => Reports(v) /\ wk'[v] = wk[v]
    BY <1>17 DEF PruneEnd
  <2>2. \A e \in Nat : AtLeast(e) => AtLeast(e)'
    BY <2>1 DEF AtLeast
  <2>3. ASSUME NEW v \in Worker, Reports(v)' PROVE AtLeast(Epoch[wk[v].key])'
    <3>1. Reports(v) /\ wk'[v] = wk[v] /\ wk[v].key \in Snapshot
      BY <2>1, <2>3
    <3>2. AtLeast(Epoch[wk[v].key])
      BY <3>1 DEF Published
    <3>3. QED
      BY <2>1, <3>1, <3>2 DEF AtLeast
  <2>4. confirmed' > 0 => AtLeast(confirmed)'
    <3>1. CASE confirmed' = confirmed
      BY <2>1, <3>1 DEF Published, AtLeast
    <3>2. CASE confirmed' # confirmed
      <4>1. wk[w].key # None /\ wk[w].pc \in PruningPCs /\ confirmed' = Epoch[wk[w].key]
        BY <1>17, <3>2 DEF PruneEnd
      <4>2. AtLeast(Epoch[wk[w].key])
        BY <4>1 DEF Published
      <4>3. QED
        BY <2>1, <4>1, <4>2 DEF AtLeast
    <3>3. QED
      BY <3>1, <3>2
  <2>5. QED
    BY <2>3, <2>4 DEF Published
<1>18. CASE PowerLoss
  <2>1. \A w \in Worker : ~Reports(w)'
    BY <1>18 DEF PowerLoss
  <2>2. ptrDisk'["CURRENT"] = {ptr'["CURRENT"]} /\ ptr'["CURRENT"] \in ptrDisk["CURRENT"]
    BY <1>18 DEF PowerLoss, Pointers
  <2>3. confirmed > 0 => AtLeast(confirmed)
    BY DEF Published
  <2>4. confirmed' > 0 => AtLeast(confirmed)'
    BY <1>18, <2>2, <2>3 DEF AtLeast, PowerLoss
  <2>5. QED
    BY <2>1, <2>4 DEF Published
<1>19. CASE UNCHANGED vars
  BY <1>2, <1>3, <1>19 DEF vars
<1>20. QED
  BY <1>5, <1>6, <1>7, <1>8, <1>9, <1>10, <1>11, <1>12, <1>13, <1>14, <1>15, <1>16, <1>17, <1>18,
     <1>19 DEF Next, WorkerStep

LEMMA AlwaysStep == Always /\ [Next]_vars => Always'
BY TypesStep, NumbersStep, HolderStep, KnownStep, AcceptableStep, PublishedStep DEF Always

-----------------------------------------------------------------------------
(* In memory: whatever is open, current or previous stays whole. Only a     *)
(* loss of power needs to know what is on disk.                             *)
LEMMA MemoryStep ==
    Always /\ Always' /\ InMemory /\ (deaths = 0 => OnDisk)
      /\ [Next]_vars /\ (PowerLoss => deaths = 0) => InMemory'
<1> SUFFICES ASSUME Always, Always', InMemory, deaths = 0 => OnDisk, [Next]_vars,
                    PowerLoss => deaths = 0
             PROVE InMemory'
  OBVIOUS
<1>0. Types /\ Types' /\ Keyed /\ Keyed' /\ OneHolder /\ OneHolder' /\ InMemory
  BY DEF Always
<1> USE <1>0 DEF Types, UnchangedFiles, UnchangedRest, IdleWorker, IdleReader
<1> DEFINE WorkersKept ==
             \A w \in Worker :
               /\ wk'[w].pc \in PruningPCs => /\ wk[w].pc \in PruningPCs
                                              /\ wk'[w].doomed \subseteq wk[w].doomed
               /\ wk'[w].pc = "removing" => wk[w].pc = "removing" /\ wk'[w].at = wk[w].at
               /\ wk'[w].pc \in {"previous", "kept"} => wk[w].pc \in {"previous", "kept"}
               /\ wk'[w].pc \in ActivationPCs \ {"admitted"} =>
                    wk[w].pc \in ActivationPCs \ {"admitted"} /\ wk'[w].key = wk[w].key
           ReadersKept ==
             \A r \in Reader :
               /\ rd'[r].pc = "pinned" => rd[r].pc \in {"open", "pinned"} /\ rd'[r].key = rd[r].key
               /\ rd'[r].pc \in Shared => rd[r].pc \in Shared /\ rd'[r].key = rd[r].key
(* A reader that holds its lock or is pinned has a whole generation.        *)
<1>1. \A r \in Reader : rd[r].pc # "idle" => rd[r].key \in Snapshot /\ gen[rd[r].key] = "whole"
  BY DEF InMemory, PinnedIsWhole, CurrentIsWhole, ReadsCurrent, Shared, Keyed
<1>2. ASSUME WorkersKept, ReadersKept, UNCHANGED <<gen, ptr>> PROVE InMemory'
  <2>1. PinnedIsWhole'
    BY <1>1, <1>2 DEF PinnedIsWhole
  <2>2. (CurrentIsWhole /\ PreviousIsWhole /\ ReadsCurrent)'
    BY <1>2 DEF InMemory, CurrentIsWhole, PreviousIsWhole, ReadsCurrent
  <2>3. PrunesOthers'
    BY <1>2 DEF InMemory, PrunesOthers, Protected
  <2>4. (KeepsCurrent /\ LinksWhole)'
    BY <1>2 DEF InMemory, KeepsCurrent, LinksWhole
  <2>5. QED
    BY <2>1, <2>2, <2>3, <2>4 DEF InMemory
<1>3. ASSUME NEW r \in Reader, PinRead(r) PROVE InMemory'
  <2>1. PinnedIsWhole'
    BY <1>1, <1>3 DEF PinRead, PinnedIsWhole, Shared
  <2>2. ReadsCurrent'
    BY <1>3 DEF InMemory, PinRead, ReadsCurrent
  <2>3. UNCHANGED <<gen, ptr, wk>>
    BY <1>3 DEF PinRead
  <2>4. QED
    BY <2>1, <2>2, <2>3 DEF InMemory, CurrentIsWhole, PreviousIsWhole, PrunesOthers, Protected,
                            KeepsCurrent, LinksWhole
<1>4. ASSUME NEW r \in Reader, PinOpen(r) \/ PinFlock(r) \/ Unpin(r) PROVE InMemory'
  <2>1. ReadersKept
    BY <1>4 DEF PinOpen, PinFlock, Unpin, Shared
  <2>2. WorkersKept /\ UNCHANGED <<gen, ptr>>
    BY <1>4 DEF PinOpen, PinFlock, Unpin
  <2>3. QED
    BY <1>2, <2>1, <2>2
<1>5. ASSUME NEW w \in Worker, NEW s \in Snapshot, Stage(w, s) PROVE InMemory'
  <2>1. WorkersKept
    BY <1>5 DEF Stage, PruningPCs, ActivationPCs
  <2>2. QED
    BY <1>2, <1>5, <2>1 DEF Stage
<1>6. ASSUME NEW w \in Worker, Admit(w) PROVE InMemory'
  <2>1. WorkersKept
    BY <1>6 DEF Admit, Goto, PruningPCs, ActivationPCs
  <2>2. QED
    BY <1>2, <1>6, <2>1 DEF Admit
<1>7. ASSUME NEW w \in Worker, Reject(w) PROVE InMemory'
  <2>1. WorkersKept
    BY <1>7 DEF Reject, PruningPCs, ActivationPCs
  <2>2. QED
    BY <1>2, <1>7, <2>1 DEF Reject
<1>8. ASSUME NEW w \in Worker, Die(w) PROVE InMemory'
  <2>1. WorkersKept
    BY <1>8 DEF Die, PruningPCs, ActivationPCs
  <2>2. QED
    BY <1>2, <1>8, <2>1 DEF Die
(* The holder of the lock replaces what nobody has open. *)
<1>9. ASSUME NEW w \in Worker, wk[w].pc \in Exclusive
      PROVE  /\ \A v \in Worker \ {w} : wk[v].pc \notin Exclusive
             /\ \A r \in Reader : rd[r].pc \notin Shared
  BY <1>9 DEF OneHolder
<1>10. ASSUME NEW w \in Worker, Place(w) PROVE InMemory'
  <2>1. wk[w].pc = "admitted" /\ wk[w].key \in Snapshot /\ gen[wk[w].key] = "absent"
    BY <1>10 DEF Place, Keyed, ActivationPCs
  <2>2. gen' = [gen EXCEPT ![wk[w].key] = "whole"] /\ UNCHANGED <<ptr, rd>>
    BY <1>10 DEF Place, SetGen
  <2>3. wk' = [wk EXCEPT ![w].pc = "placed"]
    BY <1>10 DEF Place, Goto
  <2>4. \A v \in Worker \ {w} : wk[v].pc \notin Exclusive
    BY <1>9, <2>1 DEF Exclusive, ActivationPCs
  <2>5. (PinnedIsWhole /\ CurrentIsWhole /\ PreviousIsWhole /\ ReadsCurrent)'
    BY <1>1, <2>1, <2>2 DEF InMemory, PinnedIsWhole, CurrentIsWhole, PreviousIsWhole, ReadsCurrent,
                            Pointers
  <2>6. (PrunesOthers /\ KeepsCurrent /\ LinksWhole)'
    BY <2>1, <2>2, <2>3, <2>4 DEF PrunesOthers, KeepsCurrent, LinksWhole, Exclusive, ActivationPCs,
                                  PruningPCs
  <2>7. QED
    BY <2>5, <2>6 DEF InMemory
<1>11. ASSUME NEW w \in Worker, SyncPlaced(w) PROVE InMemory'
  <2>1. WorkersKept
    BY <1>11 DEF SyncPlaced, Goto, PruningPCs, ActivationPCs
  <2>2. QED
    BY <1>2, <1>11, <2>1 DEF SyncPlaced, SyncGenerations
<1>12. ASSUME NEW w \in Worker, Reuse(w) PROVE InMemory'
  <2>1. wk[w].pc = "admitted" /\ gen[wk[w].key] = "whole" /\ UNCHANGED <<gen, ptr, rd>>
    BY <1>12 DEF Reuse
  <2>2. wk' = [wk EXCEPT ![w].pc = "linked"]
    BY <1>12 DEF Reuse, Goto
  <2>3. \A v \in Worker \ {w} : wk[v].pc \notin Exclusive
    BY <1>9, <2>1 DEF Exclusive, ActivationPCs
  <2>4. (PrunesOthers /\ KeepsCurrent /\ LinksWhole)'
    BY <2>1, <2>2, <2>3 DEF PrunesOthers, KeepsCurrent, LinksWhole, Exclusive, ActivationPCs,
                            PruningPCs
  <2>5. QED
    BY <2>1, <2>4 DEF InMemory, PinnedIsWhole, CurrentIsWhole, PreviousIsWhole, ReadsCurrent
<1>13. ASSUME NEW w \in Worker, KeepPrevious(w) PROVE InMemory'
  <2>1. wk[w].pc = "linked" /\ wk' = [wk EXCEPT ![w].pc = "previous"] /\ UNCHANGED <<gen, rd>>
    BY <1>13 DEF KeepPrevious, Goto
  <2>2. ptr'["PREVIOUS"] = ptr["CURRENT"] /\ ptr'["CURRENT"] = ptr["CURRENT"]
    BY <1>13 DEF KeepPrevious, SetPointer, Pointers
  <2>3. \A v \in Worker \ {w} : wk[v].pc \notin Exclusive
    BY <1>9, <2>1 DEF Exclusive, ActivationPCs
  <2>4. (PrunesOthers /\ KeepsCurrent /\ LinksWhole)'
    BY <2>1, <2>2, <2>3 DEF InMemory, PrunesOthers, KeepsCurrent, LinksWhole, Exclusive,
                            ActivationPCs, PruningPCs
  <2>5. QED
    BY <2>1, <2>2, <2>4 DEF InMemory, PinnedIsWhole, CurrentIsWhole, PreviousIsWhole, ReadsCurrent
<1>14. ASSUME NEW w \in Worker, SyncPrevious(w) PROVE InMemory'
  <2>1. WorkersKept
    BY <1>14 DEF SyncPrevious, Goto, PruningPCs, ActivationPCs
  <2>2. QED
    BY <1>2, <1>14, <2>1 DEF SyncPrevious, SyncRoot
<1>15. ASSUME NEW w \in Worker, SetCurrent(w) PROVE InMemory'
  <2>1. wk[w].pc \in {"linked", "kept"} /\ wk' = [wk EXCEPT ![w].pc = "current"]
    BY <1>15 DEF SetCurrent, Goto
  <2>2. ptr'["CURRENT"] = wk[w].key /\ ptr'["PREVIOUS"] = ptr["PREVIOUS"] /\ UNCHANGED <<gen, rd>>
    BY <1>15 DEF SetCurrent, SetPointer, Pointers
  <2>3. /\ \A v \in Worker \ {w} : wk[v].pc \notin Exclusive
        /\ \A r \in Reader : rd[r].pc \notin Shared
    BY <1>9, <2>1 DEF Exclusive, ActivationPCs
  <2>4. gen[wk[w].key] = "whole"
    BY <2>1 DEF InMemory, LinksWhole, ActivationPCs
  <2>5. (PrunesOthers /\ KeepsCurrent /\ LinksWhole)'
    BY <2>1, <2>2, <2>3, <2>4 DEF InMemory, PrunesOthers, KeepsCurrent, LinksWhole, Exclusive,
                                  ActivationPCs, PruningPCs
  <2>6. QED
    BY <2>2, <2>3, <2>4, <2>5 DEF InMemory, PinnedIsWhole, CurrentIsWhole, PreviousIsWhole, ReadsCurrent
<1>16. ASSUME NEW w \in Worker, SyncCurrent(w) PROVE InMemory'
  <2>1. WorkersKept
    BY <1>16 DEF SyncCurrent, Goto, PruningPCs, ActivationPCs
  <2>2. QED
    BY <1>2, <1>16, <2>1 DEF SyncCurrent, SyncRoot
<1>17. ASSUME NEW w \in Worker, PruneStart(w) PROVE InMemory'
  <2>1. UNCHANGED <<gen, ptr, rd>>
    BY <1>17 DEF PruneStart
  <2>2. wk'[w].pc = "pruning" /\ wk'[w].doomed \cap Protected = {}
    BY <1>17, PruneStarts DEF Eligible
  <2>3. \A v \in Worker \ {w} : wk'[v] = wk[v]
    BY <1>17, PruneStarts
  <2>4. (PrunesOthers /\ KeepsCurrent /\ LinksWhole)'
    BY <2>1, <2>2, <2>3 DEF InMemory, PrunesOthers, KeepsCurrent, LinksWhole, Protected,
                            ActivationPCs
  <2>5. QED
    BY <2>1, <2>4 DEF InMemory, PinnedIsWhole, CurrentIsWhole, PreviousIsWhole, ReadsCurrent
<1>18. ASSUME NEW w \in Worker, PruneSkip(w) PROVE InMemory'
  <2>1. WorkersKept
    BY <1>18 DEF PruneSkip, PruningPCs, ActivationPCs
  <2>2. QED
    BY <1>2, <1>18, <2>1 DEF PruneSkip
<1>19. ASSUME NEW w \in Worker, PruneRemove(w) PROVE InMemory'
  <2>1. PICK s \in wk[w].doomed, left \in {"torn", "bare"} :
          /\ wk[w].pc = "pruning" /\ ~Pinned(s)
          /\ gen' = [gen EXCEPT ![s] = left]
          /\ wk' = [wk EXCEPT ![w].pc = "removing", ![w].at = s, ![w].doomed = @ \ {s}]
          /\ UNCHANGED <<ptr, rd>>
    BY <1>19 DEF PruneRemove, SetGen
  <2>2. s \in Snapshot /\ s \notin Protected
    BY <2>1 DEF InMemory, PrunesOthers, PruningPCs
  <2>3. wk'[w].pc = "removing" /\ wk'[w].at = s /\ wk'[w].doomed \subseteq wk[w].doomed
    BY <2>1
  <2>4. \A v \in Worker \ {w} : wk'[v] = wk[v] /\ wk[v].pc \notin Exclusive
    BY <1>9, <2>1 DEF Exclusive, PruningPCs
  <2>5. \A x \in Snapshot : x # s => gen'[x] = gen[x]
    BY <2>1
  <2>6. PinnedIsWhole'
    BY <1>1, <2>1, <2>5 DEF PinnedIsWhole, Pinned
  <2>7. (CurrentIsWhole /\ PreviousIsWhole /\ ReadsCurrent)'
    BY <2>1, <2>2, <2>5 DEF InMemory, CurrentIsWhole, PreviousIsWhole, ReadsCurrent, Protected, Pointers
  <2>8. gen'[s] # "whole"
    BY <2>1, <2>2
  <2>9. (PrunesOthers /\ KeepsCurrent /\ LinksWhole)'
    BY <2>1, <2>3, <2>4, <2>8 DEF InMemory, PrunesOthers, KeepsCurrent, LinksWhole, Protected,
                                  Exclusive, ActivationPCs, PruningPCs
  <2>10. QED
    BY <2>6, <2>7, <2>9 DEF InMemory
<1>20. ASSUME NEW w \in Worker, PruneRemoved(w) PROVE InMemory'
  <2> DEFINE s == wk[w].at
  <2>1. /\ wk[w].pc = "removing" /\ gen' = [gen EXCEPT ![s] = "absent"] /\ UNCHANGED <<ptr, rd>>
        /\ wk' = [wk EXCEPT ![w].pc = "pruning", ![w].at = None]
    BY <1>20 DEF PruneRemoved, SetGen
  <2>2. s \in Snapshot /\ gen[s] # "whole"
    BY <2>1 DEF InMemory, PrunesOthers, Keyed
  <2>3. wk'[w].pc = "pruning" /\ wk'[w].doomed = wk[w].doomed
    BY <2>1
  <2>4. \A v \in Worker \ {w} : wk'[v] = wk[v] /\ wk[v].pc \notin Exclusive
    BY <1>9, <2>1 DEF Exclusive, PruningPCs
  <2>5. \A x \in Snapshot : gen[x] = "whole" => gen'[x] = "whole"
    BY <2>1, <2>2
  <2>6. (PinnedIsWhole /\ CurrentIsWhole /\ PreviousIsWhole /\ ReadsCurrent)'
    BY <1>1, <2>1, <2>5 DEF InMemory, PinnedIsWhole, CurrentIsWhole, PreviousIsWhole, ReadsCurrent,
                            Pointers
  <2>7. (PrunesOthers /\ KeepsCurrent /\ LinksWhole)'
    BY <2>1, <2>3, <2>4 DEF InMemory, PrunesOthers, KeepsCurrent, LinksWhole, Protected,
                            Exclusive, ActivationPCs, PruningPCs
  <2>8. QED
    BY <2>6, <2>7 DEF InMemory
<1>21. ASSUME NEW w \in Worker, PruneEnd(w) PROVE InMemory'
  <2>1. WorkersKept
    BY <1>21 DEF PruneEnd, PruningPCs, ActivationPCs
  <2>2. QED
    BY <1>2, <1>21, <2>1 DEF PruneEnd, SyncGenerations
<1>22. CASE PowerLoss
  <2>1. OnDisk
    BY <1>22
  <2>2. \A p \in Pointers : ptr'[p] # None => gen'[ptr'[p]] = "whole"
    <3> SUFFICES ASSUME NEW p \in Pointers, ptr'[p] # None PROVE gen'[ptr'[p]] = "whole"
      OBVIOUS
    <3>1. ptr'[p] \in ptrDisk[p] /\ ptr'[p] \in Snapshot
      BY <1>22 DEF PowerLoss
    <3>2. genDisk[ptr'[p]] = {"whole"}
      BY <2>1, <3>1 DEF OnDisk, FallsBackWell
    <3>3. QED
      BY <1>22, <3>1, <3>2 DEF PowerLoss
  <2>3. (\A w \in Worker : wk'[w].pc = "idle") /\ (\A r \in Reader : rd'[r].pc = "idle")
    BY <1>22 DEF PowerLoss
  <2>4. QED
    BY <2>2, <2>3 DEF InMemory, PinnedIsWhole, CurrentIsWhole, PreviousIsWhole, PrunesOthers,
                      KeepsCurrent, LinksWhole, ReadsCurrent, PruningPCs, ActivationPCs, Shared, Pointers
<1>23. CASE UNCHANGED vars
  BY <1>2, <1>23 DEF vars, Shared
<1>24. QED
  BY <1>3, <1>4, <1>5, <1>6, <1>7, <1>8, <1>10, <1>11, <1>12, <1>13, <1>14, <1>15, <1>16, <1>17,
     <1>18, <1>19, <1>20, <1>21, <1>22, <1>23 DEF Next, WorkerStep

(* On disk, as long as no worker died: what a pointer names or may fall     *)
(* back to is durable, because each step is synced before the next.         *)
LEMMA DiskStep ==
    Always /\ Always' /\ InMemory /\ OnDisk /\ [Next]_vars /\ deaths' = 0 => OnDisk'
<1> SUFFICES ASSUME Always, Always', InMemory, OnDisk, [Next]_vars, deaths' = 0
             PROVE OnDisk'
  OBVIOUS
<1>0. Types /\ Types' /\ Keyed /\ Keyed' /\ OneHolder /\ PointersKnown
  BY DEF Always
<1> USE <1>0 DEF Types, UnchangedFiles, UnchangedRest, IdleWorker
<1> DEFINE WorkersKept ==
             \A w \in Worker :
               /\ wk[w].pc = "placed" => wk'[w] = wk[w]
               /\ wk[w].pc \in {"previous", "current"} => wk'[w].pc = wk[w].pc
               /\ wk'[w].pc \in ActivationPCs \ {"admitted", "placed"} =>
                    /\ wk[w].pc \in ActivationPCs \ {"admitted", "placed"}
                    /\ wk'[w].key = wk[w].key
<1>1. ASSUME WorkersKept, UNCHANGED <<gen, genDisk, ptr, ptrDisk>> PROVE OnDisk'
  <2>1. PlacedUnsafe'
    BY <1>1 DEF OnDisk, PlacedUnsafe
  <2>2. (ReplacedUnsafe /\ FallsBackWell /\ LinksDurable)'
    BY <1>1 DEF OnDisk, ReplacedUnsafe, FallsBackWell, LinksDurable
  <2>3. QED
    BY <2>1, <2>2 DEF OnDisk
<1>2. ASSUME NEW r \in Reader, PinRead(r) \/ PinOpen(r) \/ PinFlock(r) \/ Unpin(r) PROVE OnDisk'
  BY <1>1, <1>2 DEF PinRead, PinOpen, PinFlock, Unpin
<1>3. ASSUME NEW w \in Worker, NEW s \in Snapshot, Stage(w, s) PROVE OnDisk'
  <2>1. WorkersKept
    BY <1>3 DEF Stage, ActivationPCs
  <2>2. QED
    BY <1>1, <1>3, <2>1 DEF Stage
<1>4. ASSUME NEW w \in Worker, Admit(w) PROVE OnDisk'
  <2>1. WorkersKept
    BY <1>4 DEF Admit, Goto, ActivationPCs
  <2>2. QED
    BY <1>1, <1>4, <2>1 DEF Admit
<1>5. ASSUME NEW w \in Worker, Reject(w) PROVE OnDisk'
  <2>1. WorkersKept
    BY <1>5 DEF Reject, ActivationPCs
  <2>2. QED
    BY <1>1, <1>5, <2>1 DEF Reject
<1>6. ASSUME NEW w \in Worker, wk[w].pc \in Exclusive
      PROVE  \A v \in Worker \ {w} : wk[v].pc \notin Exclusive
  BY <1>6 DEF OneHolder
(* Settled: nobody holds the lock who could have left a name unsynced.      *)
<1>7. ASSUME NEW w \in Worker, wk[w].pc \in Exclusive \ {"placed"}
      PROVE  \A s \in Snapshot : gen[s] = "whole" => genDisk[s] = {"whole"}
  BY <1>6, <1>7 DEF OnDisk, PlacedUnsafe, Exclusive, ActivationPCs
<1>8. ASSUME NEW w \in Worker, wk[w].pc \in Exclusive \ {"previous", "current"}
      PROVE  \A p \in Pointers : ptrDisk[p] = {ptr[p]}
  BY <1>6, <1>8 DEF OnDisk, ReplacedUnsafe, Exclusive, ActivationPCs
<1>9. ASSUME NEW w \in Worker, Place(w) PROVE OnDisk'
  <2>1. wk[w].pc = "admitted" /\ wk[w].key \in Snapshot /\ gen[wk[w].key] = "absent"
    BY <1>9 DEF Place, Keyed, ActivationPCs
  <2>2. /\ gen' = [gen EXCEPT ![wk[w].key] = "whole"] /\ UNCHANGED <<ptr, ptrDisk>>
        /\ genDisk' = [genDisk EXCEPT ![wk[w].key] = @ \cup {"whole"}]
        /\ wk' = [wk EXCEPT ![w].pc = "placed"]
    BY <1>9 DEF Place, SetGen, Goto
  <2>3. \A s \in Snapshot \ {wk[w].key} : gen'[s] = gen[s] /\ genDisk'[s] = genDisk[s]
    BY <2>2
  <2>4. \A v \in Worker \ {w} : wk'[v] = wk[v] /\ wk[v].pc \notin Exclusive
    BY <1>6, <2>1, <2>2 DEF Exclusive, ActivationPCs
  <2>5. wk'[w].pc = "placed" /\ wk'[w].key = wk[w].key
    BY <2>2
  <2>6. PlacedUnsafe'
    <3> SUFFICES ASSUME NEW s \in Snapshot, gen'[s] = "whole", genDisk'[s] # {"whole"}
                 PROVE  \E v \in Worker : wk'[v].pc = "placed" /\ wk'[v].key = s
      BY DEF PlacedUnsafe
    <3>1. s = wk[w].key
      BY <1>7, <2>1, <2>3 DEF Exclusive, ActivationPCs
    <3>2. QED
      BY <2>5, <3>1
  <2>7. ReplacedUnsafe'
    BY <1>8, <2>1, <2>2 DEF ReplacedUnsafe, Exclusive, ActivationPCs
  <2>8. FallsBackWell'
    BY <2>1, <2>2, <2>3 DEF OnDisk, FallsBackWell
  <2>9. LinksDurable'
    BY <2>4, <2>5 DEF LinksDurable, Exclusive, ActivationPCs
  <2>10. QED
    BY <2>6, <2>7, <2>8, <2>9 DEF OnDisk
<1>10. ASSUME SyncGenerations, UNCHANGED <<ptr, ptrDisk>>,
              \A v \in Worker : wk[v].pc \in {"previous", "current"} => wk'[v].pc = wk[v].pc
       PROVE  (PlacedUnsafe /\ ReplacedUnsafe /\ FallsBackWell)'
  BY <1>10 DEF OnDisk, PlacedUnsafe, ReplacedUnsafe, FallsBackWell, SyncGenerations
<1>11. ASSUME NEW w \in Worker, SyncPlaced(w) PROVE OnDisk'
  <2>1. /\ wk[w].pc = "placed" /\ SyncGenerations /\ UNCHANGED <<ptr, ptrDisk>>
        /\ wk' = [wk EXCEPT ![w].pc = "linked"]
    BY <1>11 DEF SyncPlaced, Goto
  <2>2. \A v \in Worker \ {w} : wk'[v] = wk[v] /\ wk[v].pc \notin Exclusive
    BY <1>6, <2>1 DEF Exclusive, ActivationPCs
  <2>3. (PlacedUnsafe /\ ReplacedUnsafe /\ FallsBackWell)'
    BY <1>10, <2>1
  <2>4. gen[wk[w].key] = "whole" /\ wk[w].key \in Snapshot
    BY <2>1 DEF InMemory, LinksWhole, Keyed, ActivationPCs
  <2>5. LinksDurable'
    BY <2>1, <2>2, <2>4 DEF LinksDurable, SyncGenerations, Exclusive, ActivationPCs
  <2>6. QED
    BY <2>3, <2>5 DEF OnDisk
<1>12. ASSUME NEW w \in Worker, Reuse(w) PROVE OnDisk'
  <2>1. /\ wk[w].pc = "admitted" /\ gen[wk[w].key] = "whole"
        /\ UNCHANGED <<gen, genDisk, ptr, ptrDisk>>
        /\ wk' = [wk EXCEPT ![w].pc = "linked"]
    BY <1>12 DEF Reuse, Goto
  <2>2. \A v \in Worker \ {w} : wk'[v] = wk[v] /\ wk[v].pc \notin Exclusive
    BY <1>6, <2>1 DEF Exclusive, ActivationPCs
  <2>3. wk[w].key \in Snapshot
    BY <2>1 DEF Keyed, ActivationPCs
  <2>4. genDisk[wk[w].key] = {"whole"}
    BY <1>7, <2>1, <2>3 DEF Exclusive, ActivationPCs
  <2>5. PlacedUnsafe'
    BY <1>7, <2>1 DEF PlacedUnsafe, Exclusive, ActivationPCs
  <2>6. LinksDurable'
    BY <2>1, <2>2, <2>4 DEF LinksDurable, Exclusive, ActivationPCs
  <2>7. ReplacedUnsafe' /\ FallsBackWell'
    BY <1>8, <2>1 DEF OnDisk, ReplacedUnsafe, FallsBackWell, Exclusive, ActivationPCs
  <2>8. QED
    BY <2>5, <2>6, <2>7 DEF OnDisk
<1>13. ASSUME NEW w \in Worker, KeepPrevious(w) PROVE OnDisk'
  <2>1. /\ wk[w].pc = "linked" /\ UNCHANGED <<gen, genDisk>>
        /\ wk' = [wk EXCEPT ![w].pc = "previous"]
        /\ ptrDisk' = [ptrDisk EXCEPT !["PREVIOUS"] = @ \cup {ptr["CURRENT"]}]
    BY <1>13 DEF KeepPrevious, SetPointer, Goto
  <2>2. \A p \in Pointers : ptrDisk'[p] \subseteq ptrDisk[p] \cup ptrDisk["CURRENT"]
    BY <2>1 DEF PointersKnown, Pointers
  <2>3. FallsBackWell'
    BY <2>1, <2>2 DEF OnDisk, FallsBackWell, Pointers
  <2>4. wk'[w].pc \in {"previous", "current"}
    BY <2>1
  <2>5. \A v \in Worker : wk[v].pc = "placed" => wk'[v] = wk[v]
    BY <2>1
  <2>6. PlacedUnsafe' /\ ReplacedUnsafe'
    BY <2>1, <2>4, <2>5 DEF OnDisk, PlacedUnsafe, ReplacedUnsafe
  <2>7. LinksDurable'
    BY <2>1 DEF OnDisk, LinksDurable, ActivationPCs
  <2>8. QED
    BY <2>3, <2>6, <2>7 DEF OnDisk
<1>14. ASSUME NEW w \in Worker, wk[w].pc \in {"previous", "current"}, SyncRoot,
              UNCHANGED <<gen, genDisk>>,
              \A v \in Worker : wk[v].pc = "placed" => wk'[v] = wk[v]
       PROVE  (PlacedUnsafe /\ ReplacedUnsafe /\ FallsBackWell)'
  <2>1. \A p \in Pointers : ptrDisk'[p] = {ptr'[p]} /\ ptr'[p] \in ptrDisk[p]
    BY <1>14 DEF SyncRoot, PointersKnown
  <2>2. QED
    BY <1>14, <2>1 DEF OnDisk, PlacedUnsafe, ReplacedUnsafe, FallsBackWell
<1>15. ASSUME NEW w \in Worker, SyncPrevious(w) PROVE OnDisk'
  <2>1. /\ wk[w].pc = "previous" /\ SyncRoot /\ UNCHANGED <<gen, genDisk>>
        /\ wk' = [wk EXCEPT ![w].pc = "kept"]
    BY <1>15 DEF SyncPrevious, Goto
  <2>2. (PlacedUnsafe /\ ReplacedUnsafe /\ FallsBackWell)'
    BY <1>14, <2>1
  <2>3. LinksDurable'
    BY <2>1 DEF OnDisk, LinksDurable, ActivationPCs
  <2>4. QED
    BY <2>2, <2>3 DEF OnDisk
<1>16. ASSUME NEW w \in Worker, SetCurrent(w) PROVE OnDisk'
  <2>1. /\ wk[w].pc \in {"linked", "kept"} /\ UNCHANGED <<gen, genDisk>>
        /\ wk' = [wk EXCEPT ![w].pc = "current"]
        /\ ptrDisk' = [ptrDisk EXCEPT !["CURRENT"] = @ \cup {wk[w].key}]
    BY <1>16 DEF SetCurrent, SetPointer, Goto
  <2>2. gen[wk[w].key] = "whole" /\ genDisk[wk[w].key] = {"whole"}
    BY <2>1 DEF InMemory, LinksWhole, OnDisk, LinksDurable, ActivationPCs
  <2>3. FallsBackWell'
    BY <2>1, <2>2 DEF OnDisk, FallsBackWell, Pointers
  <2>4. wk'[w].pc \in {"previous", "current"}
    BY <2>1
  <2>5. \A v \in Worker : wk[v].pc = "placed" => wk'[v] = wk[v]
    BY <2>1
  <2>6. PlacedUnsafe' /\ ReplacedUnsafe'
    BY <2>1, <2>4, <2>5 DEF OnDisk, PlacedUnsafe, ReplacedUnsafe
  <2>7. LinksDurable'
    BY <2>1 DEF OnDisk, LinksDurable, ActivationPCs
  <2>8. QED
    BY <2>3, <2>6, <2>7 DEF OnDisk
<1>17. ASSUME NEW w \in Worker, SyncCurrent(w) PROVE OnDisk'
  <2>1. /\ wk[w].pc = "current" /\ SyncRoot /\ UNCHANGED <<gen, genDisk>>
        /\ wk' = [wk EXCEPT ![w].pc = "published"]
    BY <1>17 DEF SyncCurrent, Goto
  <2>2. (PlacedUnsafe /\ ReplacedUnsafe /\ FallsBackWell)'
    BY <1>14, <2>1
  <2>3. LinksDurable'
    BY <2>1 DEF OnDisk, LinksDurable, ActivationPCs
  <2>4. QED
    BY <2>2, <2>3 DEF OnDisk
<1>18. ASSUME NEW w \in Worker, PruneStart(w) PROVE OnDisk'
  <2>1. wk[w].pc \in {"idle", "published"} /\ wk'[w].pc = "pruning"
    BY <1>18, PruneStarts DEF PruneStart
  <2>2. \A v \in Worker \ {w} : wk'[v] = wk[v]
    BY <1>18, PruneStarts
  <2>3. WorkersKept
    BY <2>1, <2>2 DEF ActivationPCs
  <2>4. QED
    BY <1>1, <1>18, <2>3 DEF PruneStart
<1>19. ASSUME NEW w \in Worker, PruneSkip(w) PROVE OnDisk'
  <2>1. WorkersKept
    BY <1>19 DEF PruneSkip, ActivationPCs
  <2>2. QED
    BY <1>1, <1>19, <2>1 DEF PruneSkip
(* What is removed is not current or previous, nor can a pointer fall back  *)
(* to it: the pointers are synced before the lock is given up.              *)
<1>20. ASSUME NEW w \in Worker, NEW s \in Snapshot, NEW left \in GenStates \ {"whole"},
              wk[w].pc \in PruningPCs, SetGen(s, left), s \notin Protected \/ gen[s] # "whole",
              UNCHANGED <<ptr, ptrDisk>>, wk'[w].pc \in PruningPCs,
              \A v \in Worker \ {w} : wk'[v] = wk[v]
       PROVE  OnDisk'
  <2>1. gen'[s] # "whole" /\ \A x \in Snapshot \ {s} : gen'[x] = gen[x] /\ genDisk'[x] = genDisk[x]
    BY <1>20 DEF SetGen
  <2>2. \A v \in Worker \ {w} : wk'[v] = wk[v] /\ wk[v].pc \notin Exclusive
    BY <1>6, <1>20 DEF Exclusive
  <2>3. \A x \in Snapshot : gen[x] = "whole" => genDisk[x] = {"whole"}
    BY <1>7, <1>20 DEF Exclusive, PruningPCs
  <2>4. \A p \in Pointers : ptrDisk[p] = {ptr[p]}
    BY <1>8, <1>20 DEF Exclusive, PruningPCs
  <2>5. PlacedUnsafe'
    BY <2>1, <2>3 DEF PlacedUnsafe
  <2>6. ReplacedUnsafe'
    BY <1>20, <2>4 DEF ReplacedUnsafe
  <2>7. FallsBackWell'
    BY <1>20, <2>1, <2>4 DEF OnDisk, FallsBackWell, Protected, Pointers
  <2>8. LinksDurable'
    BY <1>20, <2>2 DEF LinksDurable, Exclusive, ActivationPCs, PruningPCs
  <2>9. QED
    BY <2>5, <2>6, <2>7, <2>8 DEF OnDisk
<1>21. ASSUME NEW w \in Worker, PruneRemove(w) PROVE OnDisk'
  <2>1. PICK s \in wk[w].doomed, left \in {"torn", "bare"} :
          /\ wk[w].pc = "pruning" /\ SetGen(s, left) /\ UNCHANGED <<ptr, ptrDisk>>
          /\ wk' = [wk EXCEPT ![w].pc = "removing", ![w].at = s, ![w].doomed = @ \ {s}]
    BY <1>21 DEF PruneRemove
  <2>2. s \in Snapshot /\ s \notin Protected
    BY <2>1 DEF InMemory, PrunesOthers, PruningPCs
  <2>3. wk'[w].pc = "removing" /\ \A v \in Worker \ {w} : wk'[v] = wk[v]
    BY <2>1
  <2>4. wk[w].pc \in PruningPCs /\ wk'[w].pc \in PruningPCs /\ left \in GenStates \ {"whole"}
    BY <2>1, <2>3 DEF PruningPCs, GenStates
  <2>5. QED
    BY <1>20, <2>1, <2>2, <2>3, <2>4
<1>22. ASSUME NEW w \in Worker, PruneRemoved(w) PROVE OnDisk'
  <2>1. /\ wk[w].pc = "removing" /\ SetGen(wk[w].at, "absent") /\ UNCHANGED <<ptr, ptrDisk>>
        /\ wk' = [wk EXCEPT ![w].pc = "pruning", ![w].at = None]
    BY <1>22 DEF PruneRemoved
  <2>2. wk[w].at \in Snapshot /\ gen[wk[w].at] # "whole"
    BY <2>1 DEF InMemory, PrunesOthers, Keyed
  <2>3. wk'[w].pc = "pruning" /\ \A v \in Worker \ {w} : wk'[v] = wk[v]
    BY <2>1
  <2>4. wk[w].pc \in PruningPCs /\ wk'[w].pc \in PruningPCs /\ "absent" \in GenStates \ {"whole"}
    BY <2>1, <2>3 DEF PruningPCs, GenStates
  <2>5. QED
    BY <1>20, <2>1, <2>2, <2>3, <2>4
<1>23. ASSUME NEW w \in Worker, PruneEnd(w) PROVE OnDisk'
  <2>1. /\ wk[w].pc = "pruning" /\ SyncGenerations /\ UNCHANGED <<ptr, ptrDisk>>
        /\ wk' = [wk EXCEPT ![w] = IdleWorker]
    BY <1>23 DEF PruneEnd
  <2>2. \A v \in Worker \ {w} : wk'[v] = wk[v] /\ wk[v].pc \notin Exclusive
    BY <1>6, <2>1 DEF Exclusive, PruningPCs
  <2>3. wk'[w].pc = "idle"
    BY <2>1
  <2>4. (PlacedUnsafe /\ ReplacedUnsafe /\ FallsBackWell)'
    BY <1>10, <2>1, <2>2, <2>3
  <2>5. LinksDurable'
    BY <2>2, <2>3 DEF LinksDurable, Exclusive, ActivationPCs
  <2>6. QED
    BY <2>4, <2>5 DEF OnDisk
<1>24. ASSUME NEW w \in Worker, Die(w) PROVE OnDisk'
  BY <1>24, EpochAssumption DEF Die, Always, Numbers
<1>25. CASE PowerLoss
  <2>1. \A p \in Pointers : ptr'[p] \in ptrDisk[p] /\ ptrDisk'[p] = {ptr'[p]}
    BY <1>25 DEF PowerLoss
  <2>2. \A s \in Snapshot : gen'[s] \in genDisk[s] /\ genDisk'[s] = {gen'[s]}
    BY <1>25 DEF PowerLoss
  <2>3. \A w \in Worker : wk'[w].pc = "idle"
    BY <1>25 DEF PowerLoss
  <2>4. PlacedUnsafe' /\ ReplacedUnsafe' /\ LinksDurable'
    BY <2>1, <2>2, <2>3 DEF PlacedUnsafe, ReplacedUnsafe, LinksDurable, ActivationPCs
  <2>5. FallsBackWell'
    BY <2>1, <2>2 DEF OnDisk, FallsBackWell
  <2>6. QED
    BY <2>4, <2>5 DEF OnDisk
<1>26. CASE UNCHANGED vars
  BY <1>1, <1>26 DEF vars
<1>27. QED
  BY <1>2, <1>3, <1>4, <1>5, <1>9, <1>11, <1>12, <1>13, <1>15, <1>16, <1>17, <1>18, <1>19, <1>21,
     <1>22, <1>23, <1>24, <1>25, <1>26 DEF Next, WorkerStep

-----------------------------------------------------------------------------
(* The two halves together.                                                 *)
LEMMA Inductive == IInv /\ [Next]_vars /\ [PowerLoss => deaths = 0]_vars => IInv'
<1> SUFFICES ASSUME IInv, [Next]_vars, [PowerLoss => deaths = 0]_vars PROVE IInv'
  OBVIOUS
<1>1. Always'
  BY AlwaysStep DEF IInv
<1>2. PowerLoss => deaths = 0
  <2>1. ASSUME PowerLoss, UNCHANGED vars PROVE FALSE
    <3>1. outages' = outages + 1 /\ outages' = outages /\ outages \in Nat
      BY <2>1, EpochAssumption DEF PowerLoss, vars, IInv, Always, Numbers
    <3>2. QED
      BY <3>1
  <2>2. QED
    BY <2>1
<1>3. InMemory'
  BY <1>1, <1>2, MemoryStep DEF IInv
<1>4. deaths' = 0 => deaths = 0
  <2>1. ASSUME NEW w \in Worker, Die(w), deaths' = 0 PROVE FALSE
    BY <2>1, EpochAssumption DEF Die, IInv, Always, Numbers
  <2>2. CASE UNCHANGED deaths
    BY <2>2
  <2>3. QED
    BY <2>1, <2>2
       DEF Next, WorkerStep, vars, UnchangedRest, PinRead, PinOpen, PinFlock, Unpin, Stage, Admit,
           Reject, Place, SyncPlaced, Reuse, KeepPrevious, SyncPrevious, SetCurrent, SyncCurrent,
           PruneStart, PruneSkip, PruneRemove, PruneRemoved, PruneEnd, PowerLoss
<1>5. deaths' = 0 => OnDisk'
  BY <1>1, <1>4, DiskStep DEF IInv
<1>6. QED
  BY <1>1, <1>3, <1>5 DEF IInv

LEMMA AlwaysImplies == Always => TypeOK
<1> SUFFICES ASSUME Always PROVE TypeOK
  OBVIOUS
<1>1. Cardinality({w \in Worker : wk[w].pc \in Exclusive}) <= 1
  <2> DEFINE Holders == {w \in Worker : wk[w].pc \in Exclusive}
  <2>1. CASE Holders = {}
    BY <2>1, FS_EmptySet
  <2>2. CASE Holders # {}
    <3>1. PICK w \in Worker : wk[w].pc \in Exclusive
      BY <2>2
    <3>2. Holders = {w}
      BY <3>1 DEF Always, OneHolder
    <3>3. Cardinality(Holders) = 1
      BY <3>2, FS_Singleton
    <3>4. QED
      BY <3>3
  <2>3. QED
    BY <2>1, <2>2
<1>2. (\E w \in Worker : wk[w].pc \in Exclusive) => \A r \in Reader : rd[r].pc \notin Shared
  BY DEF Always, OneHolder
<1>3. QED
  BY <1>1, <1>2 DEF Always, Types, Numbers, TypeOK

LEMMA AlwaysHolds == Spec => []Always
<1>1. Init => Always
  BY InitIInv DEF IInv
<1>2. QED
  BY <1>1, AlwaysStep, PTL DEF Spec

LEMMA InvariantHolds == Spec /\ NoLossAfterDeath => []IInv
BY InitIInv, Inductive, PTL DEF Spec, NoLossAfterDeath

(* Every generation somebody may open is complete: what a reader has        *)
(* pinned, CURRENT and PREVIOUS, for any number of deaths of workers and    *)
(* losses of power as long as no power is lost after a death                *)
(* (storage/generations.py, storage/snapshots.py).                          *)
THEOREM GenerationsAreWhole == Spec /\ NoLossAfterDeath => []Wholeness
<1>1. IInv => Wholeness
  BY AlwaysImplies DEF IInv, InMemory, Wholeness
<1>2. QED
  BY <1>1, InvariantHolds, PTL

(* While the power stays on, CURRENT never goes back to an earlier epoch,   *)
(* whatever dies and in whatever order activations come to the lock         *)
(* (publish_locked and its callers).                                        *)
THEOREM ReadersNeverGoBack == Spec => NeverBackward
<1> DEFINE Forward == outages' = outages /\ ptr["CURRENT"] # None =>
             ptr'["CURRENT"] # None /\ Epoch[ptr["CURRENT"]] <= Epoch[ptr'["CURRENT"]]
<1>1. Always /\ [Next]_vars => [Forward]_vars
  <2> SUFFICES ASSUME Always, [Next]_vars, outages' = outages, ptr["CURRENT"] # None
               PROVE  ptr'["CURRENT"] # None /\ Epoch[ptr["CURRENT"]] <= Epoch[ptr'["CURRENT"]]
    OBVIOUS
  <2>1. ptr["CURRENT"] \in Snapshot /\ Epoch[ptr["CURRENT"]] \in Nat
    BY EpochAssumption DEF Always, Types, Pointers
  <2>2. CASE ptr'["CURRENT"] = ptr["CURRENT"]
    BY <2>1, <2>2
  <2>3. ASSUME NEW w \in Worker, SetCurrent(w)
        PROVE  ptr'["CURRENT"] # None /\ Epoch[ptr["CURRENT"]] <= Epoch[ptr'["CURRENT"]]
    <3>1. ptr'["CURRENT"] = wk[w].key /\ wk[w].pc \in ActivationPCs
      BY <2>3 DEF SetCurrent, SetPointer, Always, Types, Pointers, ActivationPCs
    <3>2. QED
      BY <3>1 DEF Always, Keyed, StaysAcceptable
  <2>4. CASE PowerLoss
    <3>1. outages' = outages + 1 /\ outages \in Nat
      BY <2>4, EpochAssumption DEF PowerLoss, Always, Numbers
    <3>2. QED
      BY <3>1
  <2>5. ASSUME NEW w \in Worker, KeepPrevious(w) PROVE ptr'["CURRENT"] = ptr["CURRENT"]
    BY <2>5 DEF KeepPrevious, SetPointer, Always, Types, Pointers
  <2>6. QED
    BY <2>2, <2>3, <2>4, <2>5
       DEF Next, WorkerStep, vars, UnchangedFiles, PinRead, PinOpen, PinFlock, Unpin, Stage, Admit,
           Reject, Place, SyncPlaced, Reuse, SyncPrevious, SyncRoot, SyncCurrent, PruneStart,
           PruneSkip, PruneRemove, PruneRemoved, PruneEnd, Die
<1>2. QED
  BY <1>1, AlwaysHolds, PTL DEF Spec, NeverBackward

-----------------------------------------------------------------------------
(* The refinement of PinnedStore: what it is shown, step by step.           *)
WholeSet == {s \in Snapshot : gen[s] = "whole"}
Pins == [r \in Reader |-> IF rd[r].pc = "pinned" THEN rd[r].key ELSE None]
StoreVars == <<WholeSet, ptr["CURRENT"], Pins, confirmed>>

LEMMA StoreInit == Init => Store!Init
BY EpochAssumption DEF Init, Store!Init, IdleReader, Pointers

LEMMA StoreStep == IInv /\ IInv' /\ [Next]_vars => [Store!Next]_(Store!vars)
<1> SUFFICES ASSUME IInv, IInv', [Next]_vars PROVE Store!Next \/ UNCHANGED Store!vars
  OBVIOUS
<1>0. Types /\ Types' /\ Keyed /\ InMemory /\ InMemory' /\ StaysAcceptable
      /\ Published /\ Published' /\ PointersKnown /\ Numbers
  BY DEF IInv, Always
<1> USE <1>0, EpochAssumption DEF Types, UnchangedFiles, UnchangedRest
<1>1. UNCHANGED <<gen, ptr, rd, confirmed>> => UNCHANGED Store!vars
  BY DEF Store!vars
<1>2. ASSUME NEW r \in Reader, PinRead(r) \/ PinOpen(r) PROVE UNCHANGED Store!vars
  <2>1. UNCHANGED <<gen, ptr, confirmed>> /\ UNCHANGED Pins
    BY <1>2 DEF PinRead, PinOpen, Pins, IdleReader
  <2>2. QED
    BY <2>1 DEF Store!vars, Pins
<1>3. ASSUME NEW r \in Reader, PinFlock(r) PROVE Store!Pin(r)
  <2>1. rd[r].pc = "open" /\ rd' = [rd EXCEPT ![r].pc = "pinned"] /\ UNCHANGED <<gen, ptr, confirmed>>
    BY <1>3 DEF PinFlock
  <2>2. rd[r].key = ptr["CURRENT"] /\ ptr["CURRENT"] # None
    BY <2>1 DEF InMemory, ReadsCurrent, Shared, Keyed
  <2>3. Pins' = [Pins EXCEPT ![r] = ptr["CURRENT"]]
    BY <2>1, <2>2 DEF Pins
  <2>4. QED
    BY <2>1, <2>2, <2>3 DEF Store!Pin, Pins
<1>4. ASSUME NEW r \in Reader, Unpin(r) PROVE Store!Unpin(r)
  <2>1. rd' = [rd EXCEPT ![r] = IdleReader] /\ UNCHANGED <<gen, ptr, confirmed>>
    BY <1>4 DEF Unpin
  <2>2. Pins' = [Pins EXCEPT ![r] = None]
    BY <2>1 DEF Pins, IdleReader
  <2>3. QED
    BY <2>1, <2>2 DEF Store!Unpin, Pins
<1>5. ASSUME NEW w \in Worker, Place(w) PROVE \E s \in Snapshot : Store!Add(s)
  <2>1. gen' = [gen EXCEPT ![wk[w].key] = "whole"] /\ UNCHANGED <<ptr, rd, confirmed>>
    BY <1>5 DEF Place, SetGen
  <2>2. PICK s \in Snapshot : s = wk[w].key
    BY <1>5 DEF Place, Keyed, ActivationPCs
  <2>3. WholeSet' = WholeSet \cup {s}
    BY <2>1, <2>2 DEF WholeSet
  <2>4. Store!Add(s)
    BY <2>1, <2>3 DEF Store!Add, WholeSet
  <2>5. QED
    BY <2>4
<1>6. ASSUME NEW w \in Worker, KeepPrevious(w) PROVE UNCHANGED Store!vars
  <2>1. ptr'["CURRENT"] = ptr["CURRENT"] /\ UNCHANGED <<gen, rd, confirmed>>
    BY <1>6 DEF KeepPrevious, SetPointer, Pointers
  <2>2. QED
    BY <2>1 DEF Store!vars
<1>7. ASSUME NEW w \in Worker, SetCurrent(w) PROVE \E s \in Snapshot : Store!Publish(s)
  <2>1. ptr'["CURRENT"] = wk[w].key /\ UNCHANGED <<gen, rd, confirmed>>
    BY <1>7 DEF SetCurrent, SetPointer, Pointers
  <2>2. wk[w].pc \in ActivationPCs \ {"admitted"}
    BY <1>7 DEF SetCurrent, ActivationPCs
  <2>3. PICK s \in Snapshot : s = wk[w].key /\ gen[s] = "whole"
    BY <2>2 DEF InMemory, LinksWhole, Keyed
  <2>4. ptr["CURRENT"] # None => Epoch[ptr["CURRENT"]] <= Epoch[s]
    BY <2>2, <2>3 DEF StaysAcceptable
  <2>5. Store!Publish(s)
    BY <2>1, <2>3, <2>4 DEF Store!Publish
  <2>6. QED
    BY <2>5
<1>8. ASSUME NEW w \in Worker, PruneRemove(w) PROVE Store!Next \/ UNCHANGED Store!vars
  <2>1. PICK s \in wk[w].doomed, left \in {"torn", "bare"} :
          /\ wk[w].pc = "pruning" /\ ~Pinned(s)
          /\ gen' = [gen EXCEPT ![s] = left]
          /\ UNCHANGED <<ptr, rd, confirmed>>
    BY <1>8 DEF PruneRemove, SetGen
  <2>2. s \in Snapshot /\ s # ptr["CURRENT"]
    BY <2>1 DEF InMemory, PrunesOthers, PruningPCs, Protected
  <2>3. WholeSet' = WholeSet \ {s}
    BY <2>1, <2>2 DEF WholeSet
  <2>4. \A r \in Reader : Pins[r] # s
    BY <2>1, <2>2 DEF Pins, Pinned
  <2>5. Store!Remove(s)
    BY <2>1, <2>2, <2>3, <2>4 DEF Store!Remove, WholeSet, Pins
  <2>6. QED
    BY <2>2, <2>5 DEF Store!Next
<1>9. ASSUME NEW w \in Worker, PruneRemoved(w) PROVE UNCHANGED Store!vars
  <2>1. gen' = [gen EXCEPT ![wk[w].at] = "absent"] /\ UNCHANGED <<ptr, rd, confirmed>>
    BY <1>9 DEF PruneRemoved, SetGen
  <2>2. wk[w].at \in Snapshot /\ gen[wk[w].at] # "whole"
    BY <1>9 DEF PruneRemoved, InMemory, PrunesOthers, Keyed
  <2>3. WholeSet' = WholeSet
    BY <2>1, <2>2 DEF WholeSet
  <2>4. QED
    BY <2>1, <2>3 DEF Store!vars, WholeSet
<1>10. ASSUME NEW w \in Worker, PruneEnd(w) PROVE Store!Next \/ UNCHANGED Store!vars
  <2>1. UNCHANGED <<gen, ptr, rd>>
    BY <1>10 DEF PruneEnd, SyncGenerations
  <2>2. CASE confirmed' = confirmed
    BY <1>1, <2>1, <2>2
  <2>3. CASE confirmed' # confirmed
    <3>1. /\ wk[w].key \in Snapshot /\ wk[w].pc \in PruningPCs
          /\ confirmed' = Epoch[wk[w].key] /\ confirmed < Epoch[wk[w].key]
      BY <1>10, <2>3 DEF PruneEnd, PruningPCs
    <3>2. ptr["CURRENT"] # None /\ Epoch[wk[w].key] <= Epoch[ptr["CURRENT"]]
      BY <3>1 DEF Published, AtLeast, PointersKnown, Pointers
    <3>3. PICK s \in Snapshot : s = wk[w].key
      BY <3>1
    <3>4. Store!Confirm(s)
      BY <2>1, <3>1, <3>2, <3>3 DEF Store!Confirm
    <3>5. QED
      BY <3>4 DEF Store!Next
  <2>4. QED
    BY <2>2, <2>3
<1>11. CASE PowerLoss
  <2>1. UNCHANGED confirmed /\ ptr'["CURRENT"] \in ptrDisk["CURRENT"]
    BY <1>11 DEF PowerLoss, Pointers
  <2>2. Pins' = [r \in Reader |-> None]
    BY <1>11 DEF PowerLoss, Pins, IdleReader
  <2>3. ptr'["CURRENT"] \in WholeSet' \cup {None}
    BY DEF InMemory, CurrentIsWhole, WholeSet, Pointers
  <2>4. confirmed > 0 => ptr'["CURRENT"] # None /\ confirmed <= Epoch[ptr'["CURRENT"]]
    BY <2>1 DEF Published, AtLeast
  <2>5. Store!Outage
    BY <2>1, <2>2, <2>3, <2>4 DEF Store!Outage, WholeSet, Pins
  <2>6. QED
    BY <2>5 DEF Store!Next
<1>12. ASSUME NEW w \in Worker, NEW s \in Snapshot, Stage(w, s) PROVE UNCHANGED Store!vars
  BY <1>1, <1>12 DEF Stage
<1>13. ASSUME NEW w \in Worker, Admit(w) \/ Reject(w) \/ SyncPlaced(w) \/ Reuse(w)
       PROVE UNCHANGED Store!vars
  BY <1>1, <1>13 DEF Admit, Reject, SyncPlaced, SyncGenerations, Reuse
<1>14. ASSUME NEW w \in Worker, SyncPrevious(w) \/ SyncCurrent(w) \/ PruneStart(w)
                                \/ PruneSkip(w) \/ Die(w)
       PROVE UNCHANGED Store!vars
  BY <1>1, <1>14 DEF SyncPrevious, SyncCurrent, SyncRoot, PruneStart, PruneSkip, Die
<1>15. CASE UNCHANGED vars
  BY <1>1, <1>15 DEF vars
<1>16. (\E s \in Snapshot : Store!Add(s) \/ Store!Publish(s)) => Store!Next
  BY DEF Store!Next
<1>17. ASSUME NEW w \in Worker, WorkerStep(w) PROVE Store!Next \/ UNCHANGED Store!vars
  BY <1>5, <1>6, <1>7, <1>8, <1>9, <1>10, <1>13, <1>14, <1>16, <1>17 DEF WorkerStep
<1>18. ASSUME NEW r \in Reader, PinRead(r) \/ PinOpen(r) \/ PinFlock(r) \/ Unpin(r)
       PROVE  Store!Next \/ UNCHANGED Store!vars
  BY <1>2, <1>3, <1>4, <1>18 DEF Store!Next
<1>19. QED
  BY <1>11, <1>12, <1>14, <1>15, <1>17, <1>18 DEF Next

(* The replica implements PinnedStore: what is pinned or current is not     *)
(* removed, and what was confirmed to a sender, which then deletes its      *)
(* copy, is served, under the same condition on losses of power             *)
(* (activate_replica and prune_replica).                                    *)
THEOREM StoreIsImplemented == Spec /\ NoLossAfterDeath => ImplementsStore
BY InvariantHolds, StoreInit, StoreStep, PTL DEF Spec, ImplementsStore, Store!Spec

(* In particular with the one fault of the run: the fault that is a loss of *)
(* power comes after no death (storage/generations.py).                     *)
COROLLARY OneFaultIsHarmless ==
    ASSUME MaxFaults <= 1 PROVE Spec => []Wholeness /\ ImplementsStore
<1>1. Always /\ [Next]_vars => [PowerLoss => deaths = 0]_vars
  BY EpochAssumption DEF Always, Numbers, PowerLoss
<1>2. Spec => NoLossAfterDeath
  BY <1>1, AlwaysHolds, PTL DEF Spec, NoLossAfterDeath
<1>3. QED
  BY <1>2, GenerationsAreWhole, StoreIsImplemented, PTL
=============================================================================
