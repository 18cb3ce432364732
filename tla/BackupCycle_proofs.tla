------------------------- MODULE BackupCycle_proofs -------------------------
(* What the backup cycle, the handover of the primary's role and the        *)
(* replication of device credentials promise, for any bounds. The three are *)
(* what a standby needs to take over: the data, the fence and the           *)
(* revocations. Each part has an inductive invariant that relates what a    *)
(* process has in memory, what it has saved, and what the other side holds: *)
(* it dies between any two of them, and its successor relies on the rest.   *)
EXTENDS BackupCycle, Handover, Credentials, FiniteSetTheorems, TLAPS

Memory == [snap : Snapshot \cup {None}, receipts : Receipts]

TypeWorld ==
    /\ made \in 0..MaxSnapshots
    /\ deaths \in 0..MaxDeaths /\ repoints \in 0..MaxRepoints
    /\ identity \in [Repository -> Identity]

TypeOutbox ==
    /\ pending \in Snapshot \cup {None}
    /\ retired \in [state : {"none", "whole", "torn"}, snap : Snapshot \cup {None}]
    /\ state \in Memory
    /\ completed \in [Snapshot -> Receipts \cup {None}]
    /\ status \in [kind : {"none", "deferred", "partial", "restore_verified"}, snap : Snapshot \cup {None}]
    /\ stored \subseteq Copy /\ IsFiniteSet(stored)

(* Where a run is at work with one repository. *)
WithOne == {"identified", "backup", "restored"}
HasCopy == {"backup", "restored"}

TypeCycle ==
    /\ cy \in [pc : CyclePCs, mem : Memory \cup {None}, todo : SUBSET Repository,
               known : SUBSET Identity, repo : Repository \cup {None},
               id : Identity \cup {None}, copy : Copy \cup {None}, failed : BOOLEAN]
    /\ cy.pc # "idle" => cy.mem \in Memory
    /\ cy.pc \in WithOne => cy.repo \in cy.todo /\ cy.id \in Identity
    /\ cy.pc \in HasCopy => cy.copy \in Copy

Types == TypeWorld /\ TypeOutbox /\ TypeCycle

(* Numbers of snapshots are given once. *)
Numbers ==
    /\ pending # None => pending <= made
    /\ state.snap # None => state.snap <= made
    /\ \A s \in Snapshot : s > made => completed[s] = None

(* Where a run stands, and what of the outbox it may rely on. *)
Busy == WithOne \cup {"verify", "repositories", "retire"}

Phases ==
    /\ cy.pc \in {"inspect", "building", "record"} => retired.state = "none"
    /\ cy.pc = "building" => pending = None
    /\ cy.pc \in Busy => pending # None
    /\ pending # None => retired.state = "none"

(* What a run holds in memory is what a successor would read. *)
Fresh == cy.mem.receipts = NoReceipts /\ cy.mem.snap = state.snap /\ state.snap # pending

InMemory ==
    /\ cy.pc \notin {"idle", "verify"} => cy.mem = state
    /\ cy.pc = "verify" => cy.mem = state \/ Fresh
    /\ cy.pc \in WithOne \cup {"repositories", "retire"} => state.snap = pending
    /\ cy.pc \in {"retire", "retired", "record"} =>
          ~cy.failed /\ state.snap # None /\ completed[state.snap] = state.receipts

(* Every receipt is of the snapshot the state is of, and its backup exists. *)
Truthful ==
    \A r \in Repository : state.receipts[r] # None =>
       state.receipts[r].backup \in stored /\ state.receipts[r].backup.snap = state.snap

(* A run that has seen no failure has a receipt from every repository it is *)
(* done with, each from another one that it knows.                          *)
Done == Repository \ cy.todo

DoneHaveReceipts ==
    cy.pc \in WithOne \cup {"repositories"} /\ ~cy.failed =>
       /\ \A r \in Done : state.receipts[r] # None /\ state.receipts[r].id \in cy.known
       /\ \A r, q \in Done : r # q => state.receipts[r].id # state.receipts[q].id

(* The repository at work is a new one; a backup that waits for its receipt *)
(* is there.                                                                *)
OneAtATime ==
    /\ cy.pc \in WithOne =>
          /\ cy.id \in cy.known
          /\ ~cy.failed => \A r \in Done : state.receipts[r].id # cy.id
    /\ cy.pc \in HasCopy =>
          cy.copy \in stored /\ cy.copy.snap = pending /\ state.receipts[cy.repo] = None

Receipted == Truthful /\ DoneHaveReceipts /\ OneAtATime

(* A complete receipt but for where its backups are. *)
Named ==
    \A s \in Snapshot : completed[s] # None =>
       \A r \in Repository :
          /\ completed[s][r] # None
          /\ completed[s][r].backup \in stored /\ completed[s][r].backup.snap = s
          /\ \A q \in Repository \ {r} : completed[s][q].id # completed[s][r].id

Promises == Named /\ RetiredIsComplete /\ NeverDiffers /\ StatusIsHonest

IInv ==
    /\ Types /\ litter \in BOOLEAN
    /\ Numbers /\ Phases /\ InMemory /\ Receipted /\ Promises
-----------------------------------------------------------------------------
(* The lemmas about helpers and the first state. *)
LEMMA NextCopyType == ASSUME TypeOutbox, NEW i \in Identity PROVE NextCopy(i) \in 1..MaxCopies
<1> DEFINE S == {x \in stored : x.snap = pending /\ x.home = i}
<1>1. Cardinality(S) \in Nat
  BY FS_Subset, FS_CardinalityType DEF TypeOutbox
<1> HIDE DEF S
<1>2. NextCopy(i) = IF Cardinality(S) < MaxCopies THEN Cardinality(S) + 1 ELSE MaxCopies
  BY DEF NextCopy, S
<1>3. QED
  BY <1>1, <1>2, RepositoryAssumption

LEMMA InitIInv == Init => IInv
<1> SUFFICES ASSUME Init PROVE IInv
  OBVIOUS
<1>1. Types
  BY RepositoryAssumption, FS_EmptySet
     DEF Init, Types, TypeWorld, TypeOutbox, TypeCycle, WithOne, HasCopy, Memory, CyclePCs,
         IdleCycle, Receipts, NoReceipts
<1>2. Numbers /\ Phases /\ InMemory /\ litter \in BOOLEAN
  BY DEF Init, Numbers, Phases, Busy, WithOne, InMemory, IdleCycle
<1>3. Receipted /\ Promises
  BY DEF Init, Receipted, Truthful, DoneHaveReceipts, OneAtATime, WithOne, HasCopy, NoReceipts,
         IdleCycle,
         Promises, Named, RetiredIsComplete, NeverDiffers, StatusIsHonest
<1>4. QED
  BY <1>1, <1>2, <1>3 DEF IInv

-----------------------------------------------------------------------------
(* Types, step by step. *)
LEMMA WorldStep == TypeWorld /\ [Next]_vars => TypeWorld'
<1> SUFFICES ASSUME TypeWorld, [Next]_vars PROVE TypeWorld'
  OBVIOUS
<1> USE RepositoryAssumption DEF TypeWorld, UnchangedWorld, UnchangedOutbox
<1>1. ASSUME NEW r \in Repository, Identify(r) PROVE TypeWorld'
  BY <1>1 DEF Identify
<1>2. ASSUME NEW r \in Repository, NEW i \in Identity, Repoint(r,i) PROVE TypeWorld'
  BY <1>2 DEF Repoint
<1>3. CASE Build
  BY <1>3 DEF Build
<1>4. CASE Die
  BY <1>4 DEF Die
<1>5. CASE Begin \/ CleanRetired \/ Inspect \/ SaveState \/ SaveReceipt \/ Complete
  BY <1>5 DEF Begin, CleanRetired, Inspect, SaveState, Recall, SaveReceipt, Finished, Complete
<1>6. CASE Retire \/ RemoveRetired \/ Record \/ Defer \/ BuildFails \/ UNCHANGED vars
  BY <1>6 DEF Retire, RemoveRetired, Record, Defer, BuildFails, vars
<1>7. CASE Confirm \/ VerifyRestore
  BY <1>7 DEF Confirm, Cached, VerifyRestore, Finished
<1>8. CASE Backup
  BY <1>8 DEF Backup, Cached
<1>9. ASSUME NEW r \in Repository, Fail(r) PROVE TypeWorld'
  BY <1>9 DEF Fail
<1>10. QED
  BY <1>1, <1>2, <1>3, <1>4, <1>5, <1>6, <1>7, <1>8, <1>9 DEF Next, CycleStep

LEMMA OutboxStep == Types /\ Phases /\ [Next]_vars => TypeOutbox'
<1> SUFFICES ASSUME Types, Phases, [Next]_vars PROVE TypeOutbox'
  OBVIOUS
<1> USE DEF Types, TypeWorld, TypeOutbox, TypeCycle, WithOne, HasCopy, Memory, Receipts,
            UnchangedWorld,
            UnchangedOutbox
<1>1. ASSUME NEW r \in Repository, Identify(r) PROVE TypeOutbox'
  BY <1>1 DEF Identify
<1>2. ASSUME NEW r \in Repository, NEW i \in Identity, Repoint(r,i) PROVE TypeOutbox'
  BY <1>2 DEF Repoint
<1>3. CASE Begin \/ Inspect \/ Defer \/ BuildFails \/ Die \/ UNCHANGED vars
  BY <1>3 DEF Begin, Inspect, Defer, BuildFails, Die, vars
<1>4. CASE CleanRetired
  BY <1>4 DEF CleanRetired
<1>5. CASE Build
  BY <1>5, RepositoryAssumption DEF Build, Snapshot
<1>6. CASE SaveState
  BY <1>6 DEF SaveState, Recall, NoReceipts
<1>7. CASE Confirm \/ VerifyRestore
  BY <1>7 DEF Confirm, Cached, VerifyRestore, Finished
<1>8. CASE Backup
  <2> DEFINE i == identity[cy.repo]
             b == [snap |-> pending, home |-> i, copy |-> NextCopy(i)]
  <2>1. i \in Identity /\ NextCopy(i) \in 1..MaxCopies
    BY <1>8, NextCopyType DEF Backup
  <2>2. b \in Copy
    BY <1>8, <2>1 DEF Copy, Backup, Phases, Busy
  <2>3. stored' = stored \cup {b}
    BY <1>8 DEF Backup
  <2> HIDE DEF b
  <2>4. IsFiniteSet(stored')
    BY <2>3, FS_AddElement
  <2>5. QED
    BY <1>8, <2>2, <2>3, <2>4 DEF Backup
<1>9. CASE SaveReceipt
  <2> DEFINE x == [id |-> cy.id, backup |-> cy.copy]
  <2>1. x \in Receipt
    BY <1>9 DEF Receipt, SaveReceipt
  <2>2. state' = [cy.mem EXCEPT !.receipts[cy.repo] = x]
    BY <1>9 DEF SaveReceipt
  <2> HIDE DEF x
  <2>3. state' \in Memory
    BY <1>9, <2>1, <2>2 DEF SaveReceipt
  <2>4. QED
    BY <1>9, <2>3 DEF SaveReceipt
<1>10. ASSUME NEW r \in Repository, Fail(r) PROVE TypeOutbox'
  BY <1>10 DEF Fail
<1>11. CASE Complete
  BY <1>11 DEF Complete
<1>12. CASE Retire
  BY <1>12 DEF Retire
<1>13. CASE RemoveRetired
  BY <1>13 DEF RemoveRetired
<1>14. CASE Record
  BY <1>14 DEF Record
<1>15. QED
  BY <1>1, <1>2, <1>3, <1>4, <1>5, <1>6, <1>7, <1>8, <1>9, <1>10, <1>11, <1>12, <1>13,
     <1>14 DEF Next, CycleStep

LEMMA RunStep == Types /\ Phases /\ [Next]_vars => TypeCycle'
<1> SUFFICES ASSUME Types, Phases, [Next]_vars PROVE TypeCycle'
  OBVIOUS
<1> USE DEF Types, TypeOutbox, TypeCycle, WithOne, HasCopy, CyclePCs, UnchangedWorld,
            UnchangedOutbox
<1>1. ASSUME NEW r \in Repository, Identify(r) PROVE TypeCycle'
  <2>1. identity[r] \in Identity
    BY DEF TypeWorld
  <2>2. QED
    BY <1>1, <2>1 DEF Identify
<1>2. ASSUME NEW r \in Repository, NEW i \in Identity, Repoint(r,i) PROVE TypeCycle'
  BY <1>2 DEF Repoint
<1>3. CASE Begin
  <2>1. \E p \in {"inspect", "cleaning"} :
          cy' = [pc |-> p, mem |-> state, todo |-> {}, known |-> {}, repo |-> None,
                 id |-> None, copy |-> None, failed |-> FALSE]
    BY <1>3 DEF Begin, IdleCycle
  <2>2. QED
    BY <2>1 DEF Memory
<1>4. CASE CleanRetired
  <2>1. CASE cy' = [cy EXCEPT !.pc = "inspect"]
    BY <1>4, <2>1 DEF CleanRetired
  <2>2. CASE cy' = IdleCycle
    BY <2>2 DEF IdleCycle
  <2>3. QED
    BY <1>4, <2>1, <2>2 DEF CleanRetired
<1>5. CASE Inspect
  BY <1>5 DEF Inspect
<1>6. CASE Build
  BY <1>6 DEF Build, Memory, Receipts, NoReceipts
<1>7. CASE SaveState
  <2>1. Recall \in Memory
    BY <1>7 DEF SaveState, Recall, Memory, Receipts, NoReceipts
  <2>2. cy' = [cy EXCEPT !.pc = "repositories", !.mem = Recall, !.todo = Repository]
    BY <1>7 DEF SaveState
  <2>3. QED
    BY <2>1, <2>2
<1>8. CASE Confirm \/ VerifyRestore
  <2>1. CASE Confirm
    BY <2>1 DEF Confirm, Finished
  <2>2. CASE VerifyRestore
    BY <2>2 DEF VerifyRestore
  <2>3. QED
    BY <1>8, <2>1, <2>2
<1>9. CASE Backup
  <2> DEFINE i == identity[cy.repo]
             b == [snap |-> pending, home |-> i, copy |-> NextCopy(i)]
  <2>1. i \in Identity /\ NextCopy(i) \in 1..MaxCopies
    BY <1>9, NextCopyType DEF Backup, TypeWorld
  <2>2. b \in Copy
    BY <1>9, <2>1 DEF Copy, Backup, Phases, Busy
  <2>3. cy' = [cy EXCEPT !.pc = "backup", !.copy = b]
    BY <1>9 DEF Backup
  <2> HIDE DEF b
  <2>4. QED
    BY <1>9, <2>2, <2>3 DEF Backup
<1>10. CASE SaveReceipt
  <2> DEFINE x == [id |-> cy.id, backup |-> cy.copy]
  <2> DEFINE m == [cy.mem EXCEPT !.receipts[cy.repo] = x]
  <2>1. x \in Receipt
    BY <1>10 DEF Receipt, SaveReceipt
  <2>2. m \in Memory
    BY <1>10, <2>1 DEF SaveReceipt, Memory, Receipts
  <2>3. cy' = Finished(m)
    BY <1>10 DEF SaveReceipt
  <2> HIDE DEF m
  <2>4. QED
    BY <2>2, <2>3 DEF Finished
<1>11. ASSUME NEW r \in Repository, Fail(r) PROVE TypeCycle'
  BY <1>11 DEF Fail
<1>12. CASE Complete
  <2>1. CASE cy' = [cy EXCEPT !.pc = "retire"]
    BY <1>12, <2>1 DEF Complete
  <2>2. CASE cy' = IdleCycle
    BY <2>2 DEF IdleCycle
  <2>3. QED
    BY <1>12, <2>1, <2>2 DEF Complete
<1>13. CASE Retire
  BY <1>13 DEF Retire
<1>14. CASE RemoveRetired
  BY <1>14 DEF RemoveRetired
<1>15. CASE Record
  BY <1>15 DEF Record, IdleCycle
<1>16. CASE Defer
  BY <1>16 DEF Defer, IdleCycle
<1>17. CASE BuildFails
  BY <1>17 DEF BuildFails, IdleCycle
<1>18. CASE Die
  BY <1>18 DEF Die, IdleCycle
<1>19. CASE UNCHANGED vars
  BY <1>19 DEF vars
<1>20. QED
  BY <1>1, <1>2, <1>3, <1>4, <1>5, <1>6, <1>7, <1>8, <1>9, <1>10, <1>11, <1>12, <1>13,
     <1>14, <1>15, <1>16, <1>17, <1>18, <1>19 DEF Next, CycleStep

(* What only some of the steps change. *)
LEMMA Frame ==
    ASSUME [Next]_vars
    PROVE  /\ Die \/ UNCHANGED litter
           /\ Build \/ Retire \/ UNCHANGED pending
           /\ Complete \/ UNCHANGED completed
           /\ Backup \/ UNCHANGED stored
           /\ (\E r \in Repository, i \in Identity : Repoint(r, i)) \/ UNCHANGED identity
<1> DEFINE Rest == UNCHANGED <<litter, pending, completed, stored, identity>>
<1> USE DEF UnchangedOutbox, UnchangedWorld
<1>1. ASSUME NEW r \in Repository, Identify(r) \/ Fail(r) PROVE Rest
  BY <1>1 DEF Identify, Fail
<1>2. CASE Begin \/ Inspect
  BY <1>2 DEF Begin, Inspect
<1>3. CASE Confirm \/ VerifyRestore
  BY <1>3 DEF Confirm, VerifyRestore
<1>4. CASE Record \/ Defer \/ BuildFails
  BY <1>4 DEF Record, Defer, BuildFails
<1>5. CASE CleanRetired \/ RemoveRetired
  BY <1>5 DEF CleanRetired, RemoveRetired
<1>6. CASE SaveState \/ SaveReceipt
  BY <1>6 DEF SaveState, SaveReceipt
<1>7. CASE Build \/ Retire
  BY <1>7 DEF Build, Retire
<1>8. CASE Complete
  BY <1>8 DEF Complete
<1>9. CASE Backup
  BY <1>9 DEF Backup
<1>10. CASE Die
  BY <1>10 DEF Die
<1>11. ASSUME NEW r \in Repository, NEW i \in Identity, Repoint(r, i)
       PROVE  UNCHANGED <<litter, pending, completed, stored>>
  BY <1>11 DEF Repoint
<1>12. CASE UNCHANGED vars
  BY <1>12 DEF vars
<1>13. QED
  BY <1>1, <1>2, <1>3, <1>4, <1>5, <1>6, <1>7, <1>8, <1>9, <1>10, <1>11, <1>12
     DEF Next, CycleStep

LEMMA LitterStep == litter \in BOOLEAN /\ [Next]_vars => litter' \in BOOLEAN
BY Frame DEF Die

-----------------------------------------------------------------------------
(* A new snapshot has a number that nothing in the outbox has used.         *)
LEMMA NumbersStep == Types /\ Numbers /\ Phases /\ InMemory /\ [Next]_vars => Numbers'
<1> SUFFICES ASSUME Types, Numbers, Phases, InMemory, [Next]_vars PROVE Numbers'
  OBVIOUS
<1> USE DEF Types, TypeWorld, TypeOutbox, TypeCycle, WithOne, HasCopy, Numbers, Snapshot, Memory,
            UnchangedWorld, UnchangedOutbox
<1>1. ASSUME NEW r \in Repository, Identify(r) PROVE Numbers'
  BY <1>1 DEF Identify
<1>2. ASSUME NEW r \in Repository, NEW i \in Identity, Repoint(r,i) PROVE Numbers'
  BY <1>2 DEF Repoint
<1>3. CASE Begin \/ CleanRetired \/ Inspect \/ Defer \/ BuildFails \/ Die \/ UNCHANGED vars
  BY <1>3 DEF Begin, CleanRetired, Inspect, Defer, BuildFails, Die, vars
<1>4. CASE Build
  BY <1>4 DEF Build
<1>5. CASE SaveState
  BY <1>5 DEF SaveState, Recall
<1>6. CASE Confirm \/ VerifyRestore
  <2>1. UNCHANGED <<made, pending, state, completed>>
    BY <1>6 DEF Confirm, VerifyRestore
  <2>2. QED
    BY <2>1
<1>7. CASE Backup
  BY <1>7 DEF Backup
<1>8. CASE SaveReceipt
  BY <1>8 DEF SaveReceipt, InMemory
<1>9. ASSUME NEW r \in Repository, Fail(r) PROVE Numbers'
  BY <1>9 DEF Fail
<1>10. CASE Complete
  <2>1. pending \in Snapshot /\ pending <= made
    BY <1>10, NoneAssumption DEF Complete, Phases, Busy
  <2>2. \A s \in Snapshot \ {pending} : completed'[s] = completed[s]
    BY <1>10 DEF Complete
  <2>3. UNCHANGED <<made, pending, state>>
    BY <1>10 DEF Complete
  <2>4. QED
    BY <2>1, <2>2, <2>3
<1>11. CASE Retire
  BY <1>11 DEF Retire
<1>12. CASE RemoveRetired
  BY <1>12 DEF RemoveRetired
<1>13. CASE Record
  BY <1>13 DEF Record
<1>14. QED
  BY <1>1, <1>2, <1>3, <1>4, <1>5, <1>6, <1>7, <1>8, <1>9, <1>10, <1>11, <1>12, <1>13 DEF
     Next, CycleStep

LEMMA PhasesStep == Types /\ Numbers /\ Phases /\ [Next]_vars => Phases'
<1> SUFFICES ASSUME Types, Numbers, Phases, [Next]_vars PROVE Phases'
  OBVIOUS
<1> USE RepositoryAssumption, NoneAssumption
<1> USE DEF Types, TypeWorld, TypeOutbox, TypeCycle, WithOne, HasCopy, Snapshot, Phases, Busy,
            UnchangedWorld, UnchangedOutbox
<1>0. ASSUME NEW r \in Repository, Identify(r) PROVE Phases'
  BY <1>0 DEF Identify, Independent
<1>1. CASE UNCHANGED vars
  BY <1>1 DEF vars
<1>2. ASSUME NEW r \in Repository, NEW i \in Identity, Repoint(r,i) PROVE Phases'
  BY <1>2 DEF Repoint
<1>3. CASE Begin
  BY <1>3 DEF Begin, IdleCycle
<1>4. CASE CleanRetired
  BY <1>4 DEF CleanRetired, IdleCycle
<1>5. CASE Inspect
  BY <1>5 DEF Inspect
<1>6. CASE Build
  BY <1>6 DEF Build
<1>7. CASE SaveState
  BY <1>7 DEF SaveState, Recall
<1>8. CASE Confirm \/ VerifyRestore
  BY <1>8 DEF Confirm, Cached, VerifyRestore, Finished
<1>9. CASE Backup
  BY <1>9 DEF Backup, Cached
<1>10. CASE SaveReceipt
  BY <1>10 DEF SaveReceipt, Finished
<1>11. ASSUME NEW r \in Repository, Fail(r) PROVE Phases'
  BY <1>11 DEF Fail
<1>12. CASE Complete
  BY <1>12 DEF Complete, IdleCycle
<1>13. CASE Retire
  BY <1>13 DEF Retire
<1>14. CASE RemoveRetired
  BY <1>14 DEF RemoveRetired
<1>15. CASE Record \/ Defer \/ BuildFails \/ Die
  BY <1>15 DEF Record, Defer, BuildFails, Die, IdleCycle
<1>16. QED
  BY <1>0, <1>1, <1>2, <1>3, <1>4, <1>5, <1>6, <1>7, <1>8, <1>9, <1>10, <1>11, <1>12, <1>13,
     <1>14, <1>15 DEF Next, CycleStep

(* What a run has in memory stays what it has saved: a run that dies loses  *)
(* nothing that its successor would need to know.                           *)
LEMMA MemoryStep ==
    Types /\ Numbers /\ Phases /\ InMemory /\ Receipted /\ Promises /\ [Next]_vars => InMemory'
<1> SUFFICES ASSUME Types, Numbers, Phases, InMemory, Receipted, Promises, [Next]_vars
             PROVE  InMemory'
  OBVIOUS
<1> USE DEF Types, TypeOutbox, TypeCycle, WithOne, HasCopy, Phases, Busy, InMemory, Fresh,
            UnchangedWorld,
            UnchangedOutbox
<1>0. ASSUME NEW r \in Repository, Identify(r) PROVE InMemory'
  BY <1>0 DEF Identify, Independent
<1>1. CASE UNCHANGED vars
  BY <1>1 DEF vars
<1>2. ASSUME NEW r \in Repository, NEW i \in Identity, Repoint(r,i) PROVE InMemory'
  BY <1>2 DEF Repoint
<1>3. CASE Begin
  BY <1>3 DEF Begin, IdleCycle
<1>4. CASE CleanRetired \/ Inspect
  BY <1>4 DEF CleanRetired, Inspect, IdleCycle
<1>5. CASE Defer \/ BuildFails \/ Die
  BY <1>5 DEF Defer, BuildFails, Die, IdleCycle
<1>6. CASE Build
  <2>1. state.snap # made + 1
    BY <1>6, RepositoryAssumption, NoneAssumption DEF Build, Numbers, Memory, Snapshot,
       TypeWorld
  <2>2. QED
    BY <1>6, <2>1 DEF Build, Memory
<1>7. CASE SaveState
  BY <1>7 DEF SaveState, Recall
<1>8. CASE Confirm \/ VerifyRestore
  BY <1>8 DEF Confirm, Cached, VerifyRestore, Finished
<1>9. CASE Backup
  BY <1>9 DEF Backup, Cached
<1>10. CASE SaveReceipt
  BY <1>10 DEF SaveReceipt, Finished, Memory
<1>11. ASSUME NEW r \in Repository, Fail(r) PROVE InMemory'
  BY <1>11 DEF Fail
<1>12. CASE Complete
  <2>1. cy.mem = state /\ state.snap = pending /\ pending \in Snapshot
    BY <1>12 DEF Complete
  <2>2. CASE cy' = IdleCycle
    BY <2>2 DEF IdleCycle
  <2>3. CASE cy' = [cy EXCEPT !.pc = "retire"] /\ completed' = [completed EXCEPT ![pending] = cy.mem.receipts]
    <3>1. completed'[pending] = state.receipts
      BY <2>1, <2>3
    <3>2. QED
      BY <1>12, <2>1, <2>3, <3>1, NoneAssumption DEF Complete
  <2>4. QED
    BY <1>12, <2>2, <2>3 DEF Complete
<1>13. CASE Retire
  BY <1>13 DEF Retire
<1>14. CASE RemoveRetired
  BY <1>14 DEF RemoveRetired, Promises, RetiredIsComplete
<1>15. CASE Record
  BY <1>15 DEF Record, IdleCycle
<1>16. QED
  BY <1>0, <1>1, <1>2, <1>3, <1>4, <1>5, <1>6, <1>7, <1>8, <1>9, <1>10, <1>11, <1>12, <1>13,
     <1>14, <1>15 DEF Next, CycleStep

-----------------------------------------------------------------------------
(* Receipts say what the repositories hold, and a run that is done with two *)
(* repositories has two backups.                                            *)
LEMMA ReceiptedStep == Types /\ Phases /\ InMemory /\ Receipted /\ [Next]_vars => Receipted'
<1> SUFFICES ASSUME Types, Phases, InMemory, Receipted, [Next]_vars PROVE Receipted'
  OBVIOUS
<1> USE DEF Types, TypeOutbox, TypeCycle, WithOne, HasCopy, Memory, Phases, Busy, InMemory,
            Fresh, Receipted,
            Truthful,
            DoneHaveReceipts, Done, OneAtATime, UnchangedWorld, UnchangedOutbox
<1>0. ASSUME NEW r \in Repository, Identify(r) PROVE Receipted'
  BY <1>0 DEF Identify, Independent
<1>1. CASE UNCHANGED vars
  BY <1>1 DEF vars
<1>2. ASSUME NEW r \in Repository, NEW i \in Identity, Repoint(r,i) PROVE Receipted'
  BY <1>2 DEF Repoint
<1>3. CASE Begin
  BY <1>3 DEF Begin, IdleCycle
<1>4. CASE CleanRetired
  BY <1>4 DEF CleanRetired, IdleCycle
<1>5. CASE Inspect
  BY <1>5 DEF Inspect
<1>6. CASE Defer \/ BuildFails \/ Die
  BY <1>6 DEF Defer, BuildFails, Die, IdleCycle
<1>7. CASE Build
  BY <1>7 DEF Build
<1>8. CASE SaveState
  BY <1>8 DEF SaveState, Recall, NoReceipts
<1>9. CASE Confirm \/ VerifyRestore
  <2>1. CASE Confirm
    <3>1. /\ cy.pc = "identified" /\ cy.mem = state /\ UNCHANGED <<state, stored, pending>>
          /\ state.receipts[cy.repo] # None /\ state.receipts[cy.repo].id = cy.id
      BY <2>1 DEF Confirm, Cached
    <3>2. /\ cy'.pc = "repositories" /\ cy'.todo = cy.todo \ {cy.repo}
          /\ cy'.failed = cy.failed /\ cy'.known = cy.known
      BY <2>1 DEF Confirm, Finished
    <3>3. DoneHaveReceipts'
      BY <3>1, <3>2
    <3>4. QED
      BY <3>1, <3>2, <3>3
  <2>2. CASE VerifyRestore
    BY <2>2 DEF VerifyRestore
  <2>3. QED
    BY <1>9, <2>1, <2>2
<1>10. CASE Backup
  BY <1>10 DEF Backup, Cached
<1>11. CASE SaveReceipt
  <2> DEFINE x == [id |-> cy.id, backup |-> cy.copy]
  <2>1. /\ cy.repo \in Repository /\ state.receipts \in Receipts /\ state.snap = pending
        /\ x.backup \in stored /\ x # None /\ x.backup.snap = pending /\ x.id = cy.id
    <3>1. x \in Receipt
      BY <1>11 DEF SaveReceipt, Receipt
    <3>2. QED
      BY <1>11, <3>1, NoneAssumption DEF SaveReceipt
  <2>2. state' = [state EXCEPT !.receipts[cy.repo] = x]
    BY <1>11 DEF SaveReceipt, Finished
  <2>3. cy'.pc = "repositories" /\ cy'.todo = cy.todo \ {cy.repo} /\ cy'.failed = cy.failed /\ cy'.known = cy.known
    BY <1>11 DEF SaveReceipt, Finished
  <2> HIDE DEF x
  <2>4. state'.snap = pending /\ state'.receipts = [state.receipts EXCEPT ![cy.repo] = x]
    BY <2>1, <2>2
  <2>5. /\ state'.receipts[cy.repo] = x
        /\ \A q \in Repository \ {cy.repo} : state'.receipts[q] = state.receipts[q]
    BY <2>1, <2>4 DEF Receipts
  <2>6. Truthful'
    BY <1>11, <2>1, <2>4, <2>5 DEF SaveReceipt, Finished
  <2>7. DoneHaveReceipts'
    BY <1>11, <2>1, <2>3, <2>5 DEF SaveReceipt, Finished
  <2>8. QED
    BY <2>3, <2>6, <2>7
<1>12. ASSUME NEW r \in Repository, Fail(r) PROVE Receipted'
  BY <1>12 DEF Fail
<1>13. CASE Complete
  BY <1>13 DEF Complete, IdleCycle
<1>14. CASE Retire
  BY <1>14 DEF Retire
<1>15. CASE RemoveRetired
  BY <1>15 DEF RemoveRetired
<1>16. CASE Record
  BY <1>16 DEF Record, IdleCycle
<1>17. QED
  BY <1>0, <1>1, <1>2, <1>3, <1>4, <1>5, <1>6, <1>7, <1>8, <1>9, <1>10, <1>11, <1>12, <1>13,
     <1>14, <1>15, <1>16 DEF Next, CycleStep

(* The promises of the outbox and of the status. *)
LEMMA NamedStep ==
    Types /\ Phases /\ InMemory /\ Receipted /\ Named /\ [Next]_vars => Named'
<1> SUFFICES ASSUME Types, Phases, InMemory, Receipted, Named, [Next]_vars
             PROVE  Named'
  OBVIOUS
<1>1. CASE Complete
  BY <1>1 DEF Complete, Types, TypeOutbox, TypeCycle, Phases, Busy, InMemory, Receipted,
     Truthful,
              DoneHaveReceipts, Done, Named, UnchangedWorld, UnchangedOutbox
<1>2. CASE UNCHANGED completed
  <2>1. stored \subseteq stored'
    BY Frame DEF Backup
  <2>2. QED
    BY <1>2, <2>1 DEF Named
<1>3. QED
  BY <1>1, <1>2, Frame

LEMMA AgreementStep ==
    /\ Types /\ Numbers /\ Phases /\ InMemory /\ Receipted /\ Promises /\ [Next]_vars
    => (RetiredIsComplete /\ NeverDiffers /\ StatusIsHonest)'
<1> DEFINE Agreement == RetiredIsComplete /\ NeverDiffers /\ StatusIsHonest
<1> SUFFICES ASSUME Types, Numbers, Phases, InMemory, Receipted, Promises, [Next]_vars
             PROVE  Agreement'
  OBVIOUS
<1> USE DEF Types, TypeOutbox, TypeCycle, WithOne, HasCopy, Memory, Phases, Busy, InMemory,
            Fresh, Receipted,
            OneAtATime,
            Promises, RetiredIsComplete, NeverDiffers, StatusIsHonest, UnchangedWorld, UnchangedOutbox
<1>0. ASSUME NEW r \in Repository, Identify(r) PROVE Agreement'
  BY <1>0 DEF Identify, Independent
<1>1. CASE UNCHANGED vars
  BY <1>1 DEF vars
<1>2. ASSUME NEW r \in Repository, NEW i \in Identity, Repoint(r,i) PROVE Agreement'
  BY <1>2 DEF Repoint
<1>3. CASE Begin \/ CleanRetired \/ Inspect \/ Defer \/ BuildFails \/ Die
  BY <1>3 DEF Begin, CleanRetired, Inspect, Defer, BuildFails, Die, IdleCycle
<1>4. CASE Build
  <2>1. made + 1 \in Snapshot /\ completed[made + 1] = None
    BY <1>4, RepositoryAssumption DEF Build, Numbers, Snapshot, TypeWorld
  <2>2. QED
    BY <1>4, <2>1 DEF Build
<1>5. CASE SaveState
  BY <1>5 DEF SaveState, Recall
<1>6. CASE Confirm \/ VerifyRestore
  BY <1>6 DEF Confirm, Cached, VerifyRestore, Finished
<1>7. CASE Backup
  BY <1>7 DEF Backup, Cached
<1>8. CASE SaveReceipt
  BY <1>8 DEF SaveReceipt, Finished, Named
<1>9. ASSUME NEW r \in Repository, Fail(r) PROVE Agreement'
  BY <1>9 DEF Fail
<1>10. CASE Complete
  <2>1. cy.mem.receipts # None /\ pending \in Snapshot /\ retired.state = "none"
    BY <1>10, NoneAssumption DEF Complete
  <2>2. QED
    BY <1>10, <2>1 DEF Complete
<1>11. CASE Retire
  BY <1>11 DEF Retire
<1>12. CASE RemoveRetired
  BY <1>12 DEF RemoveRetired
<1>13. CASE Record
  <2>1. StatusIsHonest'
    BY <1>13, NoneAssumption DEF Record
  <2>2. QED
    BY <1>13, <2>1 DEF Record
<1>14. QED
  BY <1>0, <1>1, <1>2, <1>3, <1>4, <1>5, <1>6, <1>7, <1>8, <1>9, <1>10, <1>11, <1>12, <1>13 DEF
     Next, CycleStep

-----------------------------------------------------------------------------
LEMMA IInvStep == IInv /\ [Next]_vars => IInv'
<1> SUFFICES ASSUME IInv, [Next]_vars PROVE IInv'
  OBVIOUS
<1>1. Types'
  BY WorldStep, OutboxStep, RunStep DEF IInv, Types
<1>2. litter' \in BOOLEAN /\ Numbers' /\ Phases' /\ InMemory'
  BY LitterStep, NumbersStep, PhasesStep, MemoryStep DEF IInv
<1>3. Receipted' /\ Promises'
  BY ReceiptedStep, NamedStep, AgreementStep DEF IInv, Promises
<1>4. QED
  BY <1>1, <1>2, <1>3 DEF IInv

LEMMA IInvAlways == Spec => []IInv
BY InitIInv, IInvStep, PTL DEF Spec

-----------------------------------------------------------------------------
(* Where the backups are. The identity is read before a backup and compared *)
(* after it, but the backup goes to whatever the name means in between. A   *)
(* name that has led elsewhere while the backup was made must not have come *)
(* back when it is compared.                                                *)
Returns(r) == identity'[r] # identity[r] /\ identity'[r] = cy.id

NoNameReturns == [][cy.pc \in HasCopy => ~Returns(cy.repo)]_vars

AtHome(receipts) ==
    \A r \in Repository : receipts[r] # None => receipts[r].backup.home = receipts[r].id

Homes ==
    /\ AtHome(state.receipts)
    /\ \A s \in Snapshot : completed[s] # None => AtHome(completed[s])
    /\ cy.pc \in HasCopy /\ identity[cy.repo] = cy.id => cy.copy.home = cy.id

LEMMA HomesStep ==
    IInv /\ Homes /\ [Next]_vars /\ (cy.pc \in HasCopy => ~Returns(cy.repo)) => Homes'
<1> SUFFICES ASSUME IInv, Homes, [Next]_vars, cy.pc \in HasCopy => ~Returns(cy.repo)
             PROVE  Homes'
  OBVIOUS
<1> USE DEF IInv, Types, TypeWorld, TypeOutbox, TypeCycle, Memory, Phases, Busy, InMemory, Fresh,
            WithOne, HasCopy, Homes, AtHome, UnchangedWorld, UnchangedOutbox
<1>1. ASSUME NEW r \in Repository, Identify(r) PROVE Homes'
  BY <1>1 DEF Identify
<1>2. ASSUME NEW r \in Repository, NEW i \in Identity, Repoint(r, i) PROVE Homes'
  BY <1>2 DEF Repoint, Returns
<1>3. CASE Begin \/ CleanRetired \/ Inspect
  <2>1. cy'.pc \in {"idle", "inspect", "cleaning", "verify", "building"}
    <3>1. Begin => cy'.pc \in {"inspect", "cleaning"}
      BY DEF Begin, IdleCycle
    <3>2. CleanRetired => cy'.pc \in {"inspect", "idle"}
      BY DEF CleanRetired, IdleCycle
    <3>3. Inspect => cy'.pc \in {"verify", "building"}
      BY DEF Inspect
    <3>4. QED
      BY <1>3, <3>1, <3>2, <3>3
  <2>2. UNCHANGED <<state, completed>>
    BY <1>3 DEF Begin, CleanRetired, Inspect
  <2>3. QED
    BY <2>1, <2>2
<1>4. CASE Build
  BY <1>4 DEF Build
<1>5. CASE SaveState
  BY <1>5 DEF SaveState, Recall, NoReceipts
<1>6. CASE Confirm
  BY <1>6 DEF Confirm, Finished
<1>7. CASE Backup
  BY <1>7 DEF Backup
<1>8. CASE VerifyRestore
  BY <1>8 DEF VerifyRestore
<1>9. CASE SaveReceipt
  <2> DEFINE x == [id |-> cy.id, backup |-> cy.copy]
  <2>1. x.backup.home = x.id /\ cy.repo \in Repository /\ state.receipts \in Receipts
    BY <1>9 DEF SaveReceipt
  <2>2. state' = [state EXCEPT !.receipts[cy.repo] = x]
    BY <1>9 DEF SaveReceipt
  <2>3. cy'.pc = "repositories" /\ completed' = completed
    BY <1>9 DEF SaveReceipt, Finished
  <2> HIDE DEF x
  <2>4. state'.receipts = [state.receipts EXCEPT ![cy.repo] = x]
    BY <2>1, <2>2
  <2>5. AtHome(state'.receipts)
    BY <2>1, <2>4 DEF Receipts
  <2>6. QED
    BY <2>3, <2>5
<1>10. ASSUME NEW r \in Repository, Fail(r) PROVE Homes'
  BY <1>10 DEF Fail
<1>11. CASE Complete
  <2>1. cy.mem = state /\ pending \in Snapshot
    BY <1>11 DEF Complete
  <2>2. \A s \in Snapshot : completed'[s] \in {completed[s], state.receipts}
    BY <1>11, <2>1 DEF Complete
  <2>3. cy'.pc \in {"retire", "idle"} /\ state' = state
    BY <1>11 DEF Complete, IdleCycle
  <2>4. QED
    BY <2>2, <2>3
<1>12. CASE Retire \/ RemoveRetired
  BY <1>12 DEF Retire, RemoveRetired
<1>13. CASE Record \/ Defer \/ BuildFails \/ Die
  BY <1>13 DEF Record, Defer, BuildFails, Die, IdleCycle
<1>14. CASE UNCHANGED vars
  BY <1>14 DEF vars
<1>15. QED
  BY <1>1, <1>2, <1>3, <1>4, <1>5, <1>6, <1>7, <1>8, <1>9, <1>10, <1>11, <1>12, <1>13,
     <1>14 DEF Next, CycleStep

LEMMA HomesAlways == Spec /\ NoNameReturns => []Homes
<1>1. Init => Homes
  BY DEF Init, Homes, AtHome, NoReceipts, IdleCycle, HasCopy
<1>2. IInv /\ Homes /\ [Next]_vars /\ [cy.pc \in HasCopy => ~Returns(cy.repo)]_vars => Homes'
  <2>1. UNCHANGED vars /\ Homes => Homes'
    BY DEF vars, Homes, AtHome
  <2>2. QED
    BY <2>1, HomesStep
<1>3. QED
  BY <1>1, <1>2, IInvAlways, PTL DEF Spec, NoNameReturns

LEMMA InvariantImplied == IInv /\ Homes => ReceiptInvariant
<1> SUFFICES ASSUME IInv, Homes PROVE ReceiptInvariant
  OBVIOUS
<1>1. TypeOK
  BY DEF IInv, Types, TypeWorld, TypeOutbox, TypeCycle, Memory, Phases, TypeOK
<1>2. CompleteIsBackedUp
  BY DEF IInv, Promises, Named, Homes, AtHome, CompleteIsBackedUp
<1>3. QED
  BY <1>1, <1>2 DEF IInv, Promises, ReceiptInvariant

(* For any number of repositories, snapshots, deaths and moved names, as    *)
(* long as no name leads elsewhere while its backup is made and back before *)
(* the identity is compared: a complete receipt names backups that exist,   *)
(* each in the repository it says, in as many repositories; what is retired *)
(* has its receipt; a run never meets a complete receipt that differs from  *)
(* its own; the status is honest (backup_cycle.py 119-173, backups.py       *)
(* 45-56).                                                                  *)
THEOREM ReceiptsAreTrue == Spec /\ NoNameReturns => []ReceiptInvariant
BY IInvAlways, HomesAlways, InvariantImplied, PTL

(* With at most one move no name can come back: until then a name at work   *)
(* means what it meant when its repository was identified.                  *)
Settled == cy.pc \in WithOne /\ repoints = 0 => identity[cy.repo] = cy.id

LEMMA SettledStep == IInv /\ Settled /\ [Next]_vars => Settled'
<1> SUFFICES ASSUME IInv, Settled, [Next]_vars PROVE Settled'
  OBVIOUS
<1> USE DEF IInv, Types, TypeWorld, TypeCycle, WithOne, HasCopy, Settled, UnchangedWorld,
            UnchangedOutbox
<1>1. ASSUME NEW r \in Repository, Identify(r) PROVE Settled'
  BY <1>1 DEF Identify
<1>2. ASSUME NEW r \in Repository, NEW i \in Identity, Repoint(r, i) PROVE Settled'
  BY <1>2 DEF Repoint
<1>3. CASE Backup \/ VerifyRestore
  BY <1>3 DEF Backup, VerifyRestore
<1>4. CASE UNCHANGED vars
  BY <1>4 DEF vars
<1>5. CASE Begin \/ CleanRetired \/ Inspect \/ Build \/ SaveState
  <2>1. Begin => cy'.pc \in {"inspect", "cleaning"}
    BY DEF Begin, IdleCycle
  <2>2. CleanRetired => cy'.pc \in {"inspect", "idle"}
    BY DEF CleanRetired, IdleCycle
  <2>3. Inspect \/ Build \/ SaveState => cy'.pc \in {"verify", "building", "repositories"}
    BY DEF Inspect, Build, SaveState
  <2>4. QED
    BY <1>5, <2>1, <2>2, <2>3
<1>6. CASE Confirm \/ SaveReceipt \/ Complete
  <2>1. Confirm \/ SaveReceipt => cy'.pc = "repositories"
    BY DEF Confirm, SaveReceipt, Finished
  <2>2. Complete => cy'.pc \in {"retire", "idle"}
    BY DEF Complete, IdleCycle
  <2>3. QED
    BY <1>6, <2>1, <2>2
<1>7. CASE Retire \/ RemoveRetired \/ Record \/ Defer \/ BuildFails \/ Die
  BY <1>7 DEF Retire, RemoveRetired, Record, Defer, BuildFails, Die, IdleCycle
<1>8. ASSUME NEW r \in Repository, Fail(r) PROVE Settled'
  BY <1>8 DEF Fail
<1>9. QED
  BY <1>1, <1>2, <1>3, <1>4, <1>5, <1>6, <1>7, <1>8 DEF Next, CycleStep

LEMMA NoReturnStep ==
    ASSUME MaxRepoints <= 1
    PROVE  IInv /\ Settled /\ [Next]_vars => (cy.pc \in HasCopy => ~Returns(cy.repo))
<1> SUFFICES ASSUME IInv, Settled, [Next]_vars, cy.pc \in HasCopy, Returns(cy.repo) PROVE FALSE
  OBVIOUS
<1>1. PICK r \in Repository, i \in Identity : Repoint(r, i)
  BY Frame DEF Returns
<1>2. repoints = 0
  BY <1>1, RepositoryAssumption DEF Repoint, IInv, Types, TypeWorld
<1>3. QED
  BY <1>2 DEF Settled, WithOne, HasCopy, Returns

(* While a name is moved at most once, receipts are true whenever that is:  *)
(* the comparison of the identity before and after the backup is enough     *)
(* (backup_cycle.py 121-145).                                               *)
THEOREM OneMoveIsSafe == ASSUME MaxRepoints <= 1 PROVE Spec => []ReceiptInvariant
<1>1. Init => Settled
  BY DEF Init, Settled, IdleCycle, WithOne
<1>2. IInv /\ Settled /\ [Next]_vars => [cy.pc \in HasCopy => ~Returns(cy.repo)]_vars
  BY NoReturnStep
<1>3. Spec => NoNameReturns
  BY <1>1, <1>2, SettledStep, IInvAlways, PTL DEF Spec, NoNameReturns
<1>4. QED
  BY <1>3, ReceiptsAreTrue

(* A pending snapshot is replaced only by a step that finds its complete    *)
(* receipt: no run, however often it dies, throws away work.                *)
LEMMA PendingStep == IInv /\ [Next]_vars => (pending # None /\ pending' # pending => completed[pending] # None)
<1> SUFFICES ASSUME IInv, [Next]_vars, pending # None, pending' # pending
             PROVE  completed[pending] # None
  OBVIOUS
<1>1. CASE Build
  BY <1>1 DEF Build, IInv, Phases
<1>2. CASE Retire
  BY <1>2, NoneAssumption DEF Retire, IInv, Types, TypeOutbox, Memory, InMemory
<1>3. QED
  BY <1>1, <1>2, Frame

(* Work is never thrown away: for any deaths, failures and moved names, a  *)
(* pending snapshot is replaced only when its complete receipt is written   *)
(* (storage/backup_cycle.py backup_cycle).                                  *)
THEOREM PendingSnapshotIsKept == Spec => PendingIsKept
<1>1. IInv /\ [Next]_vars => [pending # None /\ pending' # pending => completed[pending] # None]_vars
  BY PendingStep
<1>2. QED
  BY <1>1, IInvAlways, PTL DEF Spec, PendingIsKept
-----------------------------------------------------------------------------
(* The handover to a new primary, see Handover: the fence and the           *)
(* replacement, for any writers, commits and faults.                        *)

(* A fence that dies once the marker has its name leaves it unsynced, and   *)
(* the repetition returns it so: the power is not lost after that.          *)
MarkerIsSafe == safeMarker = marker \/ fencer.pc = "marked"

NoLossAfterLostFence == [][PrimaryLosesPower => MarkerIsSafe]_handoverVars

HandoverTypes ==
    /\ commits \in Publication
    /\ writer \in [Writer -> {"idle", "leased", "writing"}]
    /\ marker \in Publication \cup {Absent} /\ safeMarker \in Publication \cup {Absent}
    /\ fencer \in [pc : {"idle", "locked", "read", "marked"}, publication : Publication]
    /\ fenced \in Publication \cup {Absent}
    /\ backups \subseteq Publication
    /\ faults \in 0..MaxFaults

RecoveryTypes ==
    /\ restored \in Directory \cup {Absent} /\ restore \in Stage
    /\ replacement \in Directory \cup {Absent} /\ prepare \in Stage

(* flock: a fence runs alone, so what it reads is what it marks. *)
FencesAlone ==
    /\ fencer.pc # "idle" => \A w \in Writer : writer[w] = "idle"
    /\ fencer.pc \in {"read", "marked"} => fencer.publication = commits

(* The marker, from the moment it has its name, names the last publication; *)
(* whoever leases after it leaves again.                                    *)
MarkerEnds ==
    /\ marker # Absent => marker = commits /\ \A w \in Writer : writer[w] # "writing"
    /\ safeMarker \in {Absent, marker}
    /\ fencer.pc = "marked" => marker # Absent

FencedIsMarked == fenced # Absent => marker = fenced /\ fencer.pc # "marked"

(* What has a name, or will have one next, was verified; what has a name    *)
(* was synced before.                                                       *)
Verified ==
    /\ prepare.pc \in {"checked", "synced", "placed"} => prepare.intact
    /\ prepare.pc = "placed" => replacement # Absent
    /\ restore.pc = "placed" => restored # Absent
    /\ replacement # Absent => replacement.intact /\ replacement.synced

HandoverAlways ==
    HandoverTypes /\ RecoveryTypes /\ FencesAlone /\ MarkerEnds /\ Verified

(* Without a fault, only a fence in progress has not synced its marker.     *)
SyncedAtFirst == faults = 0 => MarkerIsSafe

HandoverIInv == HandoverAlways /\ FencedIsMarked

-----------------------------------------------------------------------------
LEMMA IdleStageIsStage == IdleStage \in Stage /\ 0 \in Publication
BY HandoverAssumption DEF IdleStage, Stage, Publication

(* A stage under a name is a directory; what a loss of power leaves is one. *)
LEMMA PlacedIsDirectory ==
    ASSUME NEW stage \in Stage PROVE Placed(stage) \in Directory
BY DEF Placed, Directory, Stage

LEMMA RemainsDirectory ==
    ASSUME NEW directory \in Directory \cup {Absent}, NEW left \in Remains(directory)
    PROVE  /\ left \in Directory \cup {Absent}
           /\ left # Absent => directory # Absent
           /\ left # Absent /\ directory.intact /\ directory.synced => left.intact /\ left.synced
<1>1. CASE directory = Absent
  BY <1>1 DEF Remains
<1>2. CASE left = Absent /\ directory # Absent
  BY <1>2
<1>3. CASE left # Absent /\ directory # Absent
  <2>1. PICK whole \in {directory.intact, directory.intact /\ directory.synced} :
          left = [directory EXCEPT !.named = TRUE, !.intact = whole]
    BY <1>3 DEF Remains
  <2>2. directory \in Directory /\ whole \in BOOLEAN
    BY <1>3 DEF Directory
  <2>3. left = [made |-> directory.made, source |-> directory.source, intact |-> whole,
                synced |-> directory.synced, named |-> TRUE]
    BY <2>1, <2>2 DEF Directory
  <2>4. left \in Directory
    BY <2>2, <2>3 DEF Directory
  <2>5. directory.intact /\ directory.synced => left.intact /\ left.synced
    BY <2>1, <2>3
  <2>6. QED
    BY <1>3, <2>4, <2>5
<1>4. QED
  BY <1>1, <1>2, <1>3

LEMMA HandoverIInvInit == HandoverInit => HandoverIInv /\ SyncedAtFirst
BY HandoverAssumption DEF HandoverInit, HandoverIInv, HandoverAlways, HandoverTypes,
                          RecoveryTypes, FencesAlone, MarkerEnds, FencedIsMarked, Verified,
                          SyncedAtFirst, MarkerIsSafe, Publication, Stage, IdleStage

(* Every step keeps the types of the primary's side, and of the recovery's. *)
LEMMA PrimaryTypesStep == HandoverTypes /\ [HandoverNext]_handoverVars => HandoverTypes'
<1> SUFFICES ASSUME HandoverTypes, [HandoverNext]_handoverVars PROVE HandoverTypes'
  OBVIOUS
<1> USE HandoverAssumption, AbsentAssumption, IdleStageIsStage
    DEF HandoverTypes, Publication, primaryVars, recoveryVars
<1>1. ASSUME NEW w \in Writer, Lease(w) PROVE HandoverTypes'
  BY <1>1 DEF Lease
<1>2. ASSUME NEW w \in Writer, Enter(w) PROVE HandoverTypes'
  BY <1>2 DEF Enter
<1>3. ASSUME NEW w \in Writer, Commit(w) PROVE HandoverTypes'
  BY <1>3 DEF Commit
<1>4. ASSUME NEW w \in Writer, Close(w) PROVE HandoverTypes'
  BY <1>4 DEF Close
<1>5. CASE FenceLock
  BY <1>5 DEF FenceLock
<1>6. CASE FenceRead
  BY <1>6 DEF FenceRead
<1>7. CASE FenceAgain
  BY <1>7 DEF FenceAgain
<1>8. CASE FenceMark
  BY <1>8 DEF FenceMark
<1>9. CASE FenceReturn
  BY <1>9 DEF FenceReturn
<1>10. CASE BackUp
  BY <1>10 DEF BackUp
<1>11. ASSUME NEW w \in Writer, KillWriter(w) PROVE HandoverTypes'
  BY <1>11 DEF KillWriter
<1>12. CASE KillFencer
  BY <1>12 DEF KillFencer
<1>13. CASE PrimaryLosesPower
  BY <1>13 DEF PrimaryLosesPower
<1>14. ASSUME UNCHANGED primaryVars,
              faults' = faults \/ (faults < MaxFaults /\ faults' = faults + 1)
      PROVE  HandoverTypes'
  BY <1>14
<1>15. CASE UNCHANGED handoverVars
  BY <1>14, <1>15 DEF handoverVars
<1>16. QED
  BY <1>1, <1>2, <1>3, <1>4, <1>5, <1>6, <1>7, <1>8, <1>9, <1>10, <1>11, <1>12, <1>13, <1>14,
     <1>15
     DEF HandoverNext, FenceStep, RestoreStep, PrepareStep, Fault, RestoreStart,
         RestoreVerify, RestoreSync, RestorePlace, RestoreReturn, PrepareStart, PrepareCopy,
         PrepareCheck, PrepareSync, PreparePlace, PrepareReturn, ServiceStarts, KillRecovery,
         RecoveryLosesPower, Decay

LEMMA RecoveryTypesStep ==
    HandoverTypes /\ RecoveryTypes /\ Verified /\ [HandoverNext]_handoverVars
      => RecoveryTypes'
<1> SUFFICES ASSUME HandoverTypes, RecoveryTypes, Verified, [HandoverNext]_handoverVars
             PROVE  RecoveryTypes'
  OBVIOUS
<1> USE HandoverAssumption, AbsentAssumption, IdleStageIsStage
    DEF HandoverTypes, RecoveryTypes, primaryVars, recoveryVars, Verified
<1>1. ASSUME NEW p \in backups, RestoreStart(p) PROVE RecoveryTypes'
  BY <1>1 DEF RestoreStart, Stage
<1>2. CASE RestoreVerify
  BY <1>2 DEF RestoreVerify, Stage
<1>3. CASE RestoreSync
  BY <1>3 DEF RestoreSync, Stage
<1>4. CASE RestorePlace
  BY <1>4, PlacedIsDirectory DEF RestorePlace, Stage
<1>5. CASE RestoreReturn
  BY <1>5 DEF RestoreReturn, Directory
<1>6. CASE PrepareStart
  BY <1>6 DEF PrepareStart, Stage, Directory, IdleStage
<1>7. CASE PrepareCopy
  BY <1>7 DEF PrepareCopy, Stage, Directory
<1>8. CASE PrepareCheck
  BY <1>8 DEF PrepareCheck, Stage
<1>9. CASE PrepareSync
  BY <1>9 DEF PrepareSync, Stage
<1>10. CASE PreparePlace
  BY <1>10, PlacedIsDirectory DEF PreparePlace, Stage
<1>11. CASE PrepareReturn
  BY <1>11 DEF PrepareReturn, Directory
<1>12. CASE ServiceStarts
  BY <1>12 DEF ServiceStarts, Directory
<1>13. CASE KillRecovery
  BY <1>13 DEF KillRecovery
<1>14. CASE RecoveryLosesPower
  BY <1>14, RemainsDirectory DEF RecoveryLosesPower
<1>15. CASE Decay
  BY <1>15 DEF Decay, Stage, Directory
<1>16. ASSUME UNCHANGED recoveryVars PROVE RecoveryTypes'
  BY <1>16
<1>17. CASE UNCHANGED handoverVars
  BY <1>16, <1>17 DEF handoverVars
<1>18. QED
  BY <1>1, <1>2, <1>3, <1>4, <1>5, <1>6, <1>7, <1>8, <1>9, <1>10, <1>11, <1>12, <1>13, <1>14,
     <1>15, <1>16, <1>17
     DEF HandoverNext, FenceStep, RestoreStep, PrepareStep, Fault, Lease, Enter, Commit,
         Close, FenceLock, FenceRead, FenceAgain, FenceMark, FenceReturn, BackUp, KillWriter,
         KillFencer, PrimaryLosesPower

(* Nobody writes while a fence runs, and nobody gets past its marker.       *)
LEMMA FencesStep ==
    HandoverTypes /\ FencesAlone /\ MarkerEnds /\ [HandoverNext]_handoverVars
      => (FencesAlone /\ MarkerEnds)'
<1> SUFFICES ASSUME HandoverTypes, FencesAlone, MarkerEnds, [HandoverNext]_handoverVars
             PROVE  (FencesAlone /\ MarkerEnds)'
  OBVIOUS
<1> USE HandoverAssumption, AbsentAssumption, IdleStageIsStage
    DEF HandoverTypes, FencesAlone, MarkerEnds, Publication, primaryVars, recoveryVars
<1>1. ASSUME NEW w \in Writer, Lease(w) PROVE (FencesAlone /\ MarkerEnds)'
  BY <1>1 DEF Lease
<1>2. ASSUME NEW w \in Writer, Enter(w) PROVE (FencesAlone /\ MarkerEnds)'
  BY <1>2 DEF Enter
<1>3. ASSUME NEW w \in Writer, Commit(w) PROVE (FencesAlone /\ MarkerEnds)'
  BY <1>3 DEF Commit
<1>4. ASSUME NEW w \in Writer, Close(w) PROVE (FencesAlone /\ MarkerEnds)'
  BY <1>4 DEF Close
<1>5. CASE FenceLock
  BY <1>5 DEF FenceLock
<1>6. CASE FenceRead
  BY <1>6 DEF FenceRead
<1>7. CASE FenceAgain
  BY <1>7 DEF FenceAgain
<1>8. CASE FenceMark
  BY <1>8 DEF FenceMark
<1>9. CASE FenceReturn
  BY <1>9 DEF FenceReturn
<1>10. CASE BackUp
  BY <1>10 DEF BackUp
<1>11. ASSUME NEW w \in Writer, KillWriter(w) PROVE (FencesAlone /\ MarkerEnds)'
  BY <1>11 DEF KillWriter
<1>12. CASE KillFencer
  BY <1>12 DEF KillFencer
<1>13. CASE PrimaryLosesPower
  BY <1>13 DEF PrimaryLosesPower
<1>14. ASSUME UNCHANGED primaryVars,
              faults' = faults \/ (faults < MaxFaults /\ faults' = faults + 1)
      PROVE  (FencesAlone /\ MarkerEnds)'
  BY <1>14
<1>15. CASE UNCHANGED handoverVars
  BY <1>14, <1>15 DEF handoverVars
<1>16. QED
  BY <1>1, <1>2, <1>3, <1>4, <1>5, <1>6, <1>7, <1>8, <1>9, <1>10, <1>11, <1>12, <1>13, <1>14,
     <1>15
     DEF HandoverNext, FenceStep, RestoreStep, PrepareStep, Fault, RestoreStart,
         RestoreVerify, RestoreSync, RestorePlace, RestoreReturn, PrepareStart, PrepareCopy,
         PrepareCheck, PrepareSync, PreparePlace, PrepareReturn, ServiceStarts, KillRecovery,
         RecoveryLosesPower, Decay

(* A directory gets its name after it was verified and synced.              *)
LEMMA VerifiedStep == RecoveryTypes /\ Verified /\ [HandoverNext]_handoverVars => Verified'
<1> SUFFICES ASSUME RecoveryTypes, Verified, [HandoverNext]_handoverVars PROVE Verified'
  OBVIOUS
<1> USE HandoverAssumption, AbsentAssumption, IdleStageIsStage
    DEF RecoveryTypes, Verified, IdleStage, primaryVars, recoveryVars
<1>1. ASSUME NEW p \in backups, RestoreStart(p) PROVE Verified'
  BY <1>1 DEF RestoreStart, Stage
<1>2. CASE RestoreVerify
  BY <1>2 DEF RestoreVerify, Stage
<1>3. CASE RestoreSync
  BY <1>3 DEF RestoreSync, Stage
<1>4. CASE RestorePlace
  BY <1>4, PlacedIsDirectory DEF RestorePlace, Stage
<1>5. CASE RestoreReturn
  BY <1>5 DEF RestoreReturn, Directory
<1>6. CASE PrepareStart
  BY <1>6 DEF PrepareStart, Stage
<1>7. CASE PrepareCopy
  BY <1>7 DEF PrepareCopy, Stage
<1>8. CASE PrepareCheck
  BY <1>8 DEF PrepareCheck, Stage
<1>9. CASE PrepareSync
  BY <1>9 DEF PrepareSync, Stage
<1>10. CASE PreparePlace
  BY <1>10, PlacedIsDirectory DEF PreparePlace, Placed, Stage
<1>11. CASE PrepareReturn
  BY <1>11 DEF PrepareReturn, Directory
<1>12. CASE ServiceStarts
  BY <1>12 DEF ServiceStarts, Directory
<1>13. CASE KillRecovery
  BY <1>13 DEF KillRecovery
<1>14. CASE RecoveryLosesPower
  <2>1. replacement' \in Remains(replacement) /\ restore' = IdleStage /\ prepare' = IdleStage
    BY <1>14 DEF RecoveryLosesPower
  <2>2. replacement' # Absent => /\ replacement # Absent
                                 /\ replacement.intact /\ replacement.synced =>
                                      replacement'.intact /\ replacement'.synced
    BY <2>1, RemainsDirectory
  <2>3. QED
    BY <2>1, <2>2
<1>15. CASE Decay
  <2>1. restored # Absent => restored' # Absent
    BY <1>15 DEF Decay, Directory
  <2>2. QED
    BY <1>15, <2>1 DEF Decay, Stage
<1>16. ASSUME UNCHANGED recoveryVars PROVE Verified'
  BY <1>16
<1>17. CASE UNCHANGED handoverVars
  BY <1>16, <1>17 DEF handoverVars
<1>18. QED
  BY <1>1, <1>2, <1>3, <1>4, <1>5, <1>6, <1>7, <1>8, <1>9, <1>10, <1>11, <1>12, <1>13, <1>14,
     <1>15, <1>16, <1>17
     DEF HandoverNext, FenceStep, RestoreStep, PrepareStep, Fault, Lease, Enter, Commit,
         Close, FenceLock, FenceRead, FenceAgain, FenceMark, FenceReturn, BackUp, KillWriter,
         KillFencer, PrimaryLosesPower

LEMMA HandoverAlwaysStep == HandoverAlways /\ [HandoverNext]_handoverVars => HandoverAlways'
BY PrimaryTypesStep, RecoveryTypesStep, FencesStep, VerifiedStep DEF HandoverAlways

(* A receipt stays true as long as a loss of power leaves its marker.       *)
LEMMA FencedStep ==
    HandoverTypes /\ FencesAlone /\ MarkerEnds /\ FencedIsMarked
      /\ [PrimaryLosesPower => MarkerIsSafe]_handoverVars /\ [HandoverNext]_handoverVars
      => FencedIsMarked'
<1> SUFFICES ASSUME HandoverTypes, FencesAlone, MarkerEnds, FencedIsMarked,
                     [PrimaryLosesPower => MarkerIsSafe]_handoverVars, [HandoverNext]_handoverVars
             PROVE  FencedIsMarked'
  OBVIOUS
<1> USE HandoverAssumption, AbsentAssumption, IdleStageIsStage
    DEF HandoverTypes, FencesAlone, MarkerEnds, FencedIsMarked, MarkerIsSafe, primaryVars,
        recoveryVars
<1>1. ASSUME NEW w \in Writer, Lease(w) PROVE FencedIsMarked'
  BY <1>1 DEF Lease
<1>2. ASSUME NEW w \in Writer, Enter(w) PROVE FencedIsMarked'
  BY <1>2 DEF Enter
<1>3. ASSUME NEW w \in Writer, Commit(w) PROVE FencedIsMarked'
  BY <1>3 DEF Commit
<1>4. ASSUME NEW w \in Writer, Close(w) PROVE FencedIsMarked'
  BY <1>4 DEF Close
<1>5. CASE FenceLock
  BY <1>5 DEF FenceLock
<1>6. CASE FenceRead
  BY <1>6 DEF FenceRead
<1>7. CASE FenceAgain
  BY <1>7 DEF FenceAgain
<1>8. CASE FenceMark
  BY <1>8 DEF FenceMark
<1>9. CASE FenceReturn
  BY <1>9 DEF FenceReturn
<1>10. CASE BackUp
  BY <1>10 DEF BackUp
<1>11. ASSUME NEW w \in Writer, KillWriter(w) PROVE FencedIsMarked'
  BY <1>11 DEF KillWriter
<1>12. CASE KillFencer
  BY <1>12 DEF KillFencer
<1>13. CASE PrimaryLosesPower
  BY <1>13 DEF PrimaryLosesPower, handoverVars
<1>14. ASSUME UNCHANGED primaryVars,
              faults' = faults \/ (faults < MaxFaults /\ faults' = faults + 1)
      PROVE  FencedIsMarked'
  BY <1>14
<1>15. CASE UNCHANGED handoverVars
  BY <1>14, <1>15 DEF handoverVars
<1>16. QED
  BY <1>1, <1>2, <1>3, <1>4, <1>5, <1>6, <1>7, <1>8, <1>9, <1>10, <1>11, <1>12, <1>13, <1>14,
     <1>15
     DEF HandoverNext, FenceStep, RestoreStep, PrepareStep, Fault, RestoreStart,
         RestoreVerify, RestoreSync, RestorePlace, RestoreReturn, PrepareStart, PrepareCopy,
         PrepareCheck, PrepareSync, PreparePlace, PrepareReturn, ServiceStarts, KillRecovery,
         RecoveryLosesPower, Decay

LEMMA SyncedStep ==
    HandoverTypes /\ FencesAlone /\ MarkerEnds /\ SyncedAtFirst /\ [HandoverNext]_handoverVars
      => SyncedAtFirst'
<1> SUFFICES ASSUME HandoverTypes, FencesAlone, MarkerEnds, SyncedAtFirst,
                     [HandoverNext]_handoverVars
             PROVE  SyncedAtFirst'
  OBVIOUS
<1> USE HandoverAssumption, AbsentAssumption, IdleStageIsStage
    DEF HandoverTypes, FencesAlone, MarkerEnds, SyncedAtFirst, MarkerIsSafe, primaryVars,
        recoveryVars
<1>1. ASSUME NEW w \in Writer, Lease(w) PROVE SyncedAtFirst'
  BY <1>1 DEF Lease
<1>2. ASSUME NEW w \in Writer, Enter(w) PROVE SyncedAtFirst'
  BY <1>2 DEF Enter
<1>3. ASSUME NEW w \in Writer, Commit(w) PROVE SyncedAtFirst'
  BY <1>3 DEF Commit
<1>4. ASSUME NEW w \in Writer, Close(w) PROVE SyncedAtFirst'
  BY <1>4 DEF Close
<1>5. CASE FenceLock
  BY <1>5 DEF FenceLock
<1>6. CASE FenceRead
  BY <1>6 DEF FenceRead
<1>7. CASE FenceAgain
  BY <1>7 DEF FenceAgain
<1>8. CASE FenceMark
  BY <1>8 DEF FenceMark
<1>9. CASE FenceReturn
  BY <1>9 DEF FenceReturn
<1>10. CASE BackUp
  BY <1>10 DEF BackUp
<1>11. ASSUME NEW w \in Writer, KillWriter(w) PROVE SyncedAtFirst'
  BY <1>11 DEF KillWriter
<1>12. CASE KillFencer
  BY <1>12 DEF KillFencer
<1>13. CASE PrimaryLosesPower
  BY <1>13 DEF PrimaryLosesPower
<1>14. ASSUME UNCHANGED primaryVars,
              faults' = faults \/ (faults < MaxFaults /\ faults' = faults + 1)
      PROVE  SyncedAtFirst'
  BY <1>14
<1>15. CASE UNCHANGED handoverVars
  BY <1>14, <1>15 DEF handoverVars
<1>16. QED
  BY <1>1, <1>2, <1>3, <1>4, <1>5, <1>6, <1>7, <1>8, <1>9, <1>10, <1>11, <1>12, <1>13, <1>14,
     <1>15
     DEF HandoverNext, FenceStep, RestoreStep, PrepareStep, Fault, RestoreStart,
         RestoreVerify, RestoreSync, RestorePlace, RestoreReturn, PrepareStart, PrepareCopy,
         PrepareCheck, PrepareSync, PreparePlace, PrepareReturn, ServiceStarts, KillRecovery,
         RecoveryLosesPower, Decay

LEMMA HandoverIInvStep ==
    HandoverIInv /\ [HandoverNext]_handoverVars
                 /\ [PrimaryLosesPower => MarkerIsSafe]_handoverVars
      => HandoverIInv'
BY HandoverAlwaysStep, FencedStep DEF HandoverIInv, HandoverAlways

LEMMA HandoverIInvImplies == HandoverIInv => HandoverInvariant
BY DEF HandoverIInv, HandoverAlways, HandoverTypes, RecoveryTypes, FencesAlone, MarkerEnds,
       FencedIsMarked, Verified, HandoverInvariant, HandoverTypeOK, FenceHolds,
       ReplacementIsWhole, NothingIsLost

-----------------------------------------------------------------------------
(* What has the name of the new primary is complete, however many processes *)
(* die, copies decay and losses of power there are (storage/recovery.py,    *)
(* backups.py restore_backup).                                              *)
THEOREM PreparedIsWhole == HandoverSpec => []ReplacementIsWhole
<1>1. HandoverInit => HandoverAlways
  BY HandoverIInvInit DEF HandoverIInv
<1>2. HandoverAlways => ReplacementIsWhole
  BY DEF HandoverAlways, Verified, ReplacementIsWhole
<1>3. QED
  BY <1>1, <1>2, HandoverAlwaysStep, PTL DEF HandoverSpec

(* A primary whose fence returned a receipt takes no write any more, and    *)
(* the new one prepared from the fenced publication has all it committed,   *)
(* for any number of faults as long as no power is lost over a marker that  *)
(* a dead fence left unsynced (storage/fencing.py fence_primary).           *)
THEOREM HandoverIsSafe == HandoverSpec /\ NoLossAfterLostFence => []HandoverInvariant
<1>1. HandoverInit => HandoverIInv
  BY HandoverIInvInit
<1>2. QED
  BY <1>1, HandoverIInvStep, HandoverIInvImplies, PTL DEF HandoverSpec, NoLossAfterLostFence

(* In particular with the one fault of the run.                             *)
COROLLARY OneFaultKeepsTheFence ==
    ASSUME MaxFaults <= 1 PROVE HandoverSpec => []HandoverInvariant
<1> DEFINE Inv == HandoverAlways /\ SyncedAtFirst
<1>1. HandoverInit => Inv
  BY HandoverIInvInit DEF HandoverIInv
<1>2. Inv /\ [HandoverNext]_handoverVars => Inv'
  BY HandoverAlwaysStep, SyncedStep DEF HandoverAlways
<1>3. Inv /\ [HandoverNext]_handoverVars =>
        [PrimaryLosesPower => MarkerIsSafe]_handoverVars
  BY HandoverAssumption DEF HandoverAlways, HandoverTypes, SyncedAtFirst, PrimaryLosesPower
<1>4. HandoverSpec => NoLossAfterLostFence
  BY <1>1, <1>2, <1>3, PTL DEF HandoverSpec, NoLossAfterLostFence
<1>5. QED
  BY <1>4, HandoverIsSafe

(* The hypothesis: a loss of power takes from the authority at most what    *)
(* the process in its critical section was writing. It fails only after a   *)
(* death between the replaced file and its sync, while nobody has synced    *)
(* the directory since; a run may have sent that revision meanwhile.        *)
Recoverable ==
    \/ safe["authority"] = registry["authority"]
    \/ registry["authority"].version = 1
    \/ lock["authority"] = "export"
    \/ /\ lock["authority"] = "edit" /\ safe["authority"].version = 2
       /\ registry["authority"].epoch = safe["authority"].epoch + 1

NoLossAfterDeadEdit == [][AuthorityLosesPower => Recoverable]_credentialVars

Acknowledged(r) == IF r = Unset THEN Unset ELSE r.acknowledged

Plain(r) == [r EXCEPT !.replica = FALSE]

(* Revisions that left the authority: in calls, with the run, in receipts,  *)
(* and in what the standby keeps.                                           *)
InCalls == {call.document : call \in wire}
           \cup (IF receiver = Unset THEN {} ELSE {receiver.document})
InRun == {sync.document} \ {Unset}
InReceipts == {Acknowledged(receipt), Acknowledged(safeReceipt)} \ {Unset}
Copies(kept) == {Plain(r) : r \in {s \in kept : s # Unset /\ s.replica}}
AtStandby == {registry["standby"], safe["standby"]}

Abroad == InCalls \cup InRun \cup InReceipts \cup Copies(AtStandby)

SyncTypes ==
    /\ receipt \in SyncReceipt \cup {Unset} /\ safeReceipt \in SyncReceipt \cup {Unset}
    /\ sync \in [pc : {"idle", "export", "wait", "answered", "refused", "record"},
                 document : Registry \cup {Unset}, issued : 0..MaxTokens]
    /\ sync.pc \in {"idle", "export"} <=> sync.document = Unset
    /\ sync.pc = "record" => receipt # Unset

FileTypes ==
    /\ registry \in [Host -> Registry \cup {Unset}] /\ safe \in [Host -> Registry \cup {Unset}]
    /\ \A file \in {registry["authority"], safe["authority"]} :
         file # Unset /\ ~file.replica /\ file.epoch <= edits
    /\ \A file \in {registry["standby"], safe["standby"]} :
         file # Unset => (file.version = 2 <=> file.replica)
    /\ edits \in 1..MaxTokens /\ minted \in 0..MaxCredentialFaults + 1
    /\ told \subseteq 1..edits /\ sync.issued <= edits
    /\ credentialFaults \in 0..MaxCredentialFaults

LockTypes ==
    /\ lock \in [Host -> {"free", "edit", "export", "receive"}]
    /\ lock["standby"] = "receive" <=> receiver # Unset
    /\ lock["authority"] = "export" <=> sync.pc = "export"
    /\ lock["authority"] # "receive"
    /\ sync.pc = "export" => registry["authority"].version = 2

(* A call that is waited for is the run's own. *)
Own(call) == call.awaited => sync.pc = "wait" /\ call.document = sync.document

WireTypes ==
    /\ wire \subseteq Call /\ receiver \in Call \cup {Unset}
    /\ \A call \in wire : Own(call) /\ (call.awaited => receiver = Unset \/ ~receiver.awaited)
    /\ receiver # Unset => /\ Own(receiver) /\ registry["standby"] # Unset
                           /\ registry["standby"].replica
                           /\ Plain(registry["standby"]) = receiver.document

CredentialTypes == SyncTypes /\ FileTypes /\ LockTypes /\ WireTypes

(* d is r, or an earlier revision of it. *)
Before(d, r) ==
    /\ d.version = 2 /\ r.version = 2 /\ d.authority = r.authority
    /\ d.epoch <= r.epoch /\ (d.epoch = r.epoch => d.entries = r.entries)

(* What left the authority is in its past, also in the past of what a loss  *)
(* of power leaves.                                                         *)
OnePast ==
    /\ safe["authority"].version = 2 => Before(safe["authority"], registry["authority"])
    /\ \A d \in Abroad : /\ ~d.replica /\ Before(d, registry["authority"])
                         /\ Recoverable => Before(d, safe["authority"])

(* The standby holds what it acknowledged, and goes on holding it after a   *)
(* loss of power.                                                           *)
Held(d, r) ==
    /\ r # Unset /\ r.replica /\ r.authority = d.authority
    /\ r.epoch > d.epoch \/ Same(r, d)

Promised ==
    ({Acknowledged(receipt), Acknowledged(safeReceipt)}
      \cup (IF sync.pc = "answered" THEN {sync.document} ELSE {})) \ {Unset}

PromisesHeld == \A d \in Promised : Held(d, registry["standby"]) /\ Held(d, safe["standby"])

(* Receipts go forward. *)
ReceiptsForward ==
    /\ Acknowledged(safeReceipt) # Unset =>
          /\ Acknowledged(receipt) # Unset
          /\ Acknowledged(safeReceipt).epoch <= Acknowledged(receipt).epoch
    /\ Acknowledged(receipt) # Unset /\ sync.document # Unset =>
          Acknowledged(receipt).epoch <= sync.document.epoch

(* What is reported revoked is in no revision from the acknowledged one on, *)
(* and what the run is to report in none from the one it sent.              *)
Known ==
    Abroad \cup {registry["authority"]}
    \cup (IF Recoverable THEN {safe["authority"]} ELSE {})

Purged(d) ==
    /\ Acknowledged(safeReceipt) # Unset /\ Acknowledged(safeReceipt).epoch <= d.epoch =>
          told \cap Tokens(d) = {}
    /\ sync.document # Unset /\ sync.document.epoch <= d.epoch =>
          (1..sync.issued) \cap Tokens(d) \subseteq Tokens(sync.document)

RevokedAreGone ==
    /\ told # {} => Acknowledged(safeReceipt) # Unset
    /\ \A d \in Known : Purged(d)

CredentialIInv ==
    CredentialTypes /\ OnePast /\ PromisesHeld /\ ReceiptsForward /\ RevokedAreGone

(* Before the first fault nobody has died.                                  *)
RecoverableAtFirst == credentialFaults = 0 => Recoverable
-----------------------------------------------------------------------------
(* What kind of thing each variable holds. *)
LEMMA Sorts ==
    /\ Unset \notin Registry /\ Unset \notin Call /\ Unset \notin SyncReceipt
    /\ MaxTokens \in Nat \ {0} /\ MaxCredentialFaults \in Nat
    /\ IdleSync.document = Unset /\ IdleSync.pc = "idle" /\ IdleSync.issued = 0
BY UnsetAssumption, CredentialAssumption DEF IdleSync

LEMMA PlainReceived ==
    ASSUME NEW d \in Registry, ~d.replica
    PROVE  /\ [d EXCEPT !.replica = TRUE] \in Registry
           /\ [d EXCEPT !.replica = TRUE].replica
           /\ [d EXCEPT !.replica = TRUE].version = d.version
           /\ Same([d EXCEPT !.replica = TRUE], d)
           /\ Plain([d EXCEPT !.replica = TRUE]) = d
BY DEF Registry, Plain, Same

LEMMA SyncTypesStep ==
    CredentialTypes /\ [CredentialNext]_credentialVars => SyncTypes'
<1> SUFFICES ASSUME CredentialTypes, [CredentialNext]_credentialVars
             PROVE  SyncTypes'
  OBVIOUS
<1> USE Sorts DEF CredentialTypes, SyncTypes
<1>1. ASSUME NEW h \in Host, NEW d \in Device, NEW token \in 0..MaxTokens, Edit(h, d, token)
      PROVE  SyncTypes'
  BY <1>1 DEF Edit
<1>2. ASSUME NEW h \in Host, EditSynced(h) PROVE SyncTypes'
  BY <1>2 DEF EditSynced
<1>3. CASE Start
  BY <1>3 DEF Start, Calling, FileTypes, Host
<1>4. CASE Mint
  BY <1>4 DEF Mint
<1>5. CASE Minted
  BY <1>5 DEF Minted, Calling, FileTypes, Host
<1>6. ASSUME NEW call \in wire, Receive(call) PROVE SyncTypes'
  BY <1>6 DEF Receive
<1>7. ASSUME NEW call \in wire, Reject(call) PROVE SyncTypes'
  BY <1>7 DEF Reject, Answer, WireTypes, Own
<1>8. CASE Received
  BY <1>8 DEF Received, Answer, WireTypes, Own
<1>9. CASE GiveUp
  BY <1>9 DEF GiveUp
<1>10. CASE RecordSync
  BY <1>10 DEF RecordSync, SyncReceipt, LastAcknowledged
<1>11. CASE Recorded
  BY <1>11 DEF Recorded, IdleSync
<1>12. ASSUME NEW h \in Host, KillEditor(h) PROVE SyncTypes'
  BY <1>12 DEF KillEditor
<1>13. CASE KillSync
  BY <1>13 DEF KillSync, IdleSync
<1>14. CASE KillReceiver
  BY <1>14 DEF KillReceiver, Answer, WireTypes, Own
<1>15. CASE AuthorityLosesPower
  BY <1>15 DEF AuthorityLosesPower, IdleSync
<1>16. CASE StandbyLosesPower
  BY <1>16 DEF StandbyLosesPower
<1>17. CASE UNCHANGED credentialVars
  BY <1>17 DEF credentialVars
<1>18. QED
  BY <1>1, <1>2, <1>3, <1>4, <1>5, <1>6, <1>7, <1>8, <1>9, <1>10, <1>11, <1>12, <1>13, <1>14,
     <1>15, <1>16, <1>17
     DEF CredentialNext, Editing, SyncStep, CredentialFault, Serve

LEMMA AbandonedCall ==
    ASSUME NEW call \in Call
    PROVE  /\ Abandoned(call) \in Call /\ Abandoned(call) # Unset
           /\ Abandoned(call).document = call.document /\ ~Abandoned(call).awaited
BY Sorts DEF Call, Abandoned

LEMMA DisconnectedCalls ==
    ASSUME WireTypes, Disconnect
    PROVE  /\ wire' \subseteq Call /\ receiver' \in Call \cup {Unset}
           /\ \A call \in wire' : ~call.awaited
           /\ receiver' # Unset <=> receiver # Unset
           /\ receiver # Unset => ~receiver'.awaited /\ receiver'.document = receiver.document
           /\ {call.document : call \in wire'} = {call.document : call \in wire}
<1>1. \A call \in wire' : \E old \in wire : call = Abandoned(old)
  BY DEF Disconnect
<1>2. \A old \in wire : Abandoned(old) \in wire'
  BY DEF Disconnect
<1>3. \A old \in wire : Abandoned(old).document = old.document
  BY AbandonedCall DEF WireTypes
<1>4. {call.document : call \in wire'} = {call.document : call \in wire}
  BY <1>1, <1>2, <1>3
<1>5. wire' \subseteq Call /\ \A call \in wire' : ~call.awaited
  BY <1>1, AbandonedCall DEF WireTypes
<1>6. QED
  BY <1>4, <1>5, AbandonedCall, Sorts DEF WireTypes, Disconnect

LEMMA LockTypesStep ==
    CredentialTypes /\ [CredentialNext]_credentialVars => LockTypes'
<1> SUFFICES ASSUME CredentialTypes, [CredentialNext]_credentialVars
             PROVE  LockTypes'
  OBVIOUS
<1> USE Sorts DEF CredentialTypes, LockTypes, Host, FileTypes
<1>1. ASSUME NEW h \in Host, NEW d \in Device, NEW token \in 0..MaxTokens, Edit(h, d, token)
      PROVE  LockTypes'
  BY <1>1 DEF Edit, Current
<1>2. ASSUME NEW h \in Host, EditSynced(h) PROVE LockTypes'
  BY <1>2 DEF EditSynced
<1>3. CASE Start
  BY <1>3 DEF Start, Calling
<1>4. CASE Mint
  BY <1>4 DEF Mint, SyncTypes, Registry
<1>5. CASE Minted
  BY <1>5 DEF Minted, Calling
<1>6. ASSUME NEW call \in wire, Receive(call) PROVE LockTypes'
  BY <1>6 DEF Receive, WireTypes
<1>7. ASSUME NEW call \in wire, Reject(call) PROVE LockTypes'
  BY <1>7 DEF Reject, Answer, SyncTypes, WireTypes, Own
<1>8. CASE Received
  BY <1>8 DEF Received, Answer, SyncTypes, WireTypes, Own
<1>9. CASE GiveUp
  BY <1>9, DisconnectedCalls DEF GiveUp
<1>10. CASE RecordSync
  BY <1>10 DEF RecordSync
<1>11. CASE Recorded
  BY <1>11 DEF Recorded
<1>12. ASSUME NEW h \in Host, KillEditor(h) PROVE LockTypes'
  BY <1>12 DEF KillEditor
<1>13. CASE KillSync
  BY <1>13, DisconnectedCalls DEF KillSync
<1>14. CASE KillReceiver
  BY <1>14 DEF KillReceiver, Answer, SyncTypes, WireTypes, Own
<1>15. CASE AuthorityLosesPower
  BY <1>15, DisconnectedCalls DEF AuthorityLosesPower, Survives
<1>16. CASE StandbyLosesPower
  BY <1>16 DEF StandbyLosesPower, Survives
<1>17. CASE UNCHANGED credentialVars
  BY <1>17 DEF credentialVars
<1>18. QED
  BY <1>1, <1>2, <1>3, <1>4, <1>5, <1>6, <1>7, <1>8, <1>9, <1>10, <1>11, <1>12, <1>13, <1>14,
     <1>15, <1>16, <1>17
     DEF CredentialNext, Editing, SyncStep, CredentialFault, Serve

(* What left the authority is a revision that it numbered. *)
LEMMA Sent ==
    ASSUME CredentialTypes, OnePast
    PROVE  /\ \A d \in Abroad : /\ d \in Registry /\ ~d.replica /\ d.version = 2
                                /\ registry["authority"].version = 2
           /\ \A call \in wire : call.document \in Abroad
           /\ receiver # Unset => receiver.document \in Abroad
           /\ sync.document # Unset => sync.document \in Abroad
           /\ Acknowledged(receipt) # Unset => Acknowledged(receipt) \in Abroad
           /\ Acknowledged(safeReceipt) # Unset => Acknowledged(safeReceipt) \in Abroad
           /\ \A r \in {registry["standby"], safe["standby"]} :
                r # Unset /\ r.replica => Plain(r) \in Abroad
<1>1. \A call \in wire : call.document \in Registry
  BY DEF CredentialTypes, WireTypes, Call
<1>2. receiver # Unset => receiver.document \in Registry
  BY DEF CredentialTypes, WireTypes, Call
<1>3. \A r \in {receipt, safeReceipt} : Acknowledged(r) \in Registry \cup {Unset}
  BY DEF CredentialTypes, SyncTypes, SyncReceipt, Acknowledged
<1>4. \A r \in {registry["standby"], safe["standby"]} : r # Unset => Plain(r) \in Registry
  BY DEF CredentialTypes, FileTypes, Host, Plain, Registry
<1>5. sync.document \in Registry \cup {Unset}
  BY DEF CredentialTypes, SyncTypes
<1>6. Abroad \subseteq Registry
  BY <1>1, <1>2, <1>3, <1>4, <1>5 DEF Abroad, InCalls, InRun, InReceipts, Copies, AtStandby
<1>7. \A d \in Abroad : ~d.replica /\ d.version = 2 /\ registry["authority"].version = 2
  BY DEF OnePast, Before
<1>8. QED
  BY <1>6, <1>7 DEF Abroad, InCalls, InRun, InReceipts, Copies, AtStandby

LEMMA CurrentType ==
    ASSUME CredentialTypes, NEW h \in Host
    PROVE  Current(h) \in Registry /\ (registry[h] = Unset => Current(h).version = 1)
<1>1. Legacy(NoEntries) \in Registry /\ Legacy(NoEntries).version = 1
  <2>1. NoEntries \in Entries
    BY Sorts DEF NoEntries, Entries
  <2>2. QED
    BY <2>1, Sorts DEF Legacy, Registry
<1>2. QED
  BY <1>1 DEF Current, CredentialTypes, FileTypes

LEMMA EditedType ==
    ASSUME NEW old \in Registry, NEW entries \in Entries,
           old.version = 2 => old.epoch < MaxTokens
    PROVE  /\ Edited(old, entries) \in Registry /\ Edited(old, entries).entries = entries
           /\ Edited(old, entries).version = old.version
           /\ Edited(old, entries).replica = old.replica
           /\ Edited(old, entries).authority = old.authority
           /\ Edited(old, entries).epoch = IF old.version = 2 THEN old.epoch + 1 ELSE old.epoch
<1>1. CASE old.version = 2
  <2>1. old.epoch + 1 \in 0..MaxTokens
    BY <1>1, Sorts DEF Registry
  <2>2. QED
    BY <1>1, <2>1 DEF Edited, Registry
<1>2. CASE old.version # 2
  BY <1>2 DEF Edited, Registry
<1>3. QED
  BY <1>1, <1>2

(* An edit, by its parts. *)
LEMMA EditEffect ==
    ASSUME CredentialTypes, NEW h \in Host, NEW d \in Device, NEW token \in 0..MaxTokens,
           Edit(h, d, token)
    PROVE  \E new \in Registry :
             /\ registry' = [registry EXCEPT ![h] = new]
             /\ new.version = Current(h).version /\ ~new.replica /\ ~Current(h).replica
             /\ new.authority = Current(h).authority
             /\ new.epoch = IF Current(h).version = 2 THEN Current(h).epoch + 1 ELSE Current(h).epoch
             /\ Tokens(new) \subseteq Tokens(Current(h)) \cup {edits + 1}
<1> DEFINE entries == [Current(h).entries EXCEPT ![d] = token]
           new == Edited(Current(h), entries)
<1>1. Current(h) \in Registry
  BY CurrentType
<1>2. entries \in Entries
  BY <1>1 DEF Registry, Entries
<1>3. Current(h).version = 2 => Current(h).epoch < MaxTokens
  <2>1. CASE h = "authority"
    BY <2>1, Sorts DEF Edit, CredentialTypes, FileTypes, Current, Registry
  <2>2. CASE h = "standby"
    BY <2>2, CurrentType DEF Edit, Current, CredentialTypes, FileTypes
  <2>3. QED
    BY <2>1, <2>2 DEF Host
<1>4. registry' = [registry EXCEPT ![h] = new] /\ ~Current(h).replica /\ token \in {0, edits + 1}
  BY DEF Edit
<1> HIDE DEF new
<1>5. /\ new \in Registry /\ new.entries = entries
      /\ new.version = Current(h).version /\ new.replica = Current(h).replica
      /\ new.authority = Current(h).authority
      /\ new.epoch = IF Current(h).version = 2 THEN Current(h).epoch + 1 ELSE Current(h).epoch
  BY <1>1, <1>2, <1>3, EditedType DEF new
<1>6. Tokens(new) \subseteq Tokens(Current(h)) \cup {edits + 1}
  <2>1. \A x \in Device : new.entries[x] = IF x = d THEN token ELSE Current(h).entries[x]
    BY <1>1, <1>5 DEF Registry, Entries
  <2>2. QED
    BY <1>4, <2>1 DEF Tokens
<1>7. QED
  BY <1>4, <1>5, <1>6

LEMMA WireTypesStep ==
    CredentialTypes /\ OnePast /\ [CredentialNext]_credentialVars => WireTypes'
<1> SUFFICES ASSUME CredentialTypes, OnePast, [CredentialNext]_credentialVars
             PROVE  WireTypes'
  OBVIOUS
<1> USE Sorts DEF CredentialTypes, WireTypes, Own, Host
<1>1. ASSUME NEW h \in Host, NEW d \in Device, NEW token \in 0..MaxTokens, Edit(h, d, token)
      PROVE  WireTypes'
  BY <1>1 DEF Edit, LockTypes
<1>2. ASSUME NEW h \in Host, EditSynced(h) PROVE WireTypes'
  BY <1>2 DEF EditSynced
<1>3. CASE Start
  <2> USE <1>3 DEF Start, Minted
  <2>1. \A call \in wire : ~call.awaited
    OBVIOUS
  <2>2. receiver = Unset \/ ~receiver.awaited
    OBVIOUS
  <2>3. registry["authority"] \in Registry
    BY DEF FileTypes
  <2> DEFINE minting == [document |-> registry["authority"], awaited |-> TRUE]
  <2>4. minting \in Call /\ minting.awaited /\ minting.document = registry["authority"]
    BY <2>3 DEF Call
  <2>5. wire' = wire \cup {minting} /\ sync'.pc = "wait" /\ sync'.document = registry["authority"]
    BY DEF Calling
  <2> HIDE DEF minting
  <2>6. UNCHANGED <<receiver, registry>>
    OBVIOUS
  <2> HIDE <1>3 DEF Start, Minted
  <2>7. QED
    BY <2>1, <2>2, <2>4, <2>5, <2>6
<1>4. CASE Mint
  BY <1>4 DEF Mint, SyncTypes
<1>5. CASE Minted
  <2> USE <1>5 DEF Start, Minted
  <2>1. \A call \in wire : ~call.awaited
    OBVIOUS
  <2>2. receiver = Unset \/ ~receiver.awaited
    OBVIOUS
  <2>3. registry["authority"] \in Registry
    BY DEF FileTypes
  <2> DEFINE minting == [document |-> registry["authority"], awaited |-> TRUE]
  <2>4. minting \in Call /\ minting.awaited /\ minting.document = registry["authority"]
    BY <2>3 DEF Call
  <2>5. wire' = wire \cup {minting} /\ sync'.pc = "wait" /\ sync'.document = registry["authority"]
    BY DEF Calling
  <2> HIDE DEF minting
  <2>6. UNCHANGED <<receiver, registry>>
    OBVIOUS
  <2> HIDE <1>5 DEF Start, Minted
  <2>7. QED
    BY <2>1, <2>2, <2>4, <2>5, <2>6
<1>6. ASSUME NEW call \in wire, Receive(call) PROVE WireTypes'
  <2>1. call.document \in Registry /\ ~call.document.replica /\ call \in Call
    BY <1>6, Sent
  <2>2. /\ receiver' = call /\ wire' = wire \ {call} /\ sync' = sync
        /\ registry' = [registry EXCEPT !["standby"] = [call.document EXCEPT !.replica = TRUE]]
    BY <1>6 DEF Receive
  <2>3. registry["standby"]' = [call.document EXCEPT !.replica = TRUE]
    BY <2>2 DEF FileTypes
  <2>4. \A other \in wire : other.awaited /\ call.awaited => other = call
    BY DEF Call
  <2>5. QED
    BY <2>1, <2>2, <2>3, <2>4, PlainReceived
<1>7. ASSUME NEW call \in wire, Reject(call) PROVE WireTypes'
  <2>1. \A other \in wire : other.awaited /\ call.awaited => other = call
    BY DEF Call
  <2>2. /\ wire' = wire \ {call}
        /\ sync' = IF call.awaited THEN [sync EXCEPT !.pc = "refused"] ELSE sync
    BY <1>7 DEF Reject, Answer
  <2>3. UNCHANGED <<receiver, registry>>
    BY <1>7 DEF Reject
  <2>4. call.awaited => receiver = Unset \/ ~receiver.awaited
    OBVIOUS
  <2>5. sync'.document = sync.document /\ (~call.awaited => sync' = sync)
    BY <2>2 DEF SyncTypes
  <2>6. \A other \in wire' : call.awaited => ~other.awaited
    BY <2>1, <2>2
  <2>7. QED
    BY <2>2, <2>3, <2>4, <2>5, <2>6
<1>8. CASE Received
  <2>1. wire' = wire /\ receiver' = Unset /\ (~receiver.awaited => sync' = sync)
    BY <1>8 DEF Received, Answer
  <2>2. receiver # Unset /\ (receiver.awaited => \A call \in wire : ~call.awaited)
    BY <1>8 DEF Received
  <2>3. QED
    BY <2>1, <2>2
<1>9. CASE GiveUp
  BY <1>9, DisconnectedCalls DEF GiveUp
<1>10. CASE RecordSync
  BY <1>10 DEF RecordSync
<1>11. CASE Recorded
  BY <1>11 DEF Recorded
<1>12. ASSUME NEW h \in Host, KillEditor(h) PROVE WireTypes'
  BY <1>12 DEF KillEditor
<1>13. CASE KillSync
  BY <1>13, DisconnectedCalls DEF KillSync
<1>14. CASE KillReceiver
  <2>1. wire' = wire /\ receiver' = Unset /\ (~receiver.awaited => sync' = sync)
    BY <1>14 DEF KillReceiver, Answer
  <2>2. receiver # Unset /\ (receiver.awaited => \A call \in wire : ~call.awaited)
    BY <1>14 DEF KillReceiver
  <2>3. QED
    BY <2>1, <2>2
<1>15. CASE AuthorityLosesPower
  BY <1>15, DisconnectedCalls DEF AuthorityLosesPower, Survives
<1>16. CASE StandbyLosesPower
  BY <1>16 DEF StandbyLosesPower, Survives
<1>17. CASE UNCHANGED credentialVars
  BY <1>17 DEF credentialVars
<1>18. QED
  BY <1>1, <1>2, <1>3, <1>4, <1>5, <1>6, <1>7, <1>8, <1>9, <1>10, <1>11, <1>12, <1>13, <1>14,
     <1>15, <1>16, <1>17
     DEF CredentialNext, Editing, SyncStep, CredentialFault, Serve

LEMMA FileTypesStep ==
    CredentialTypes /\ OnePast /\ [CredentialNext]_credentialVars => FileTypes'
<1> SUFFICES ASSUME CredentialTypes, OnePast, [CredentialNext]_credentialVars
             PROVE  FileTypes'
  OBVIOUS
<1> USE Sorts DEF CredentialTypes, FileTypes, Host
<1>1. ASSUME NEW h \in Host, NEW d \in Device, NEW token \in 0..MaxTokens, Edit(h, d, token)
      PROVE  FileTypes'
  <2>1. PICK new \in Registry :
          /\ registry' = [registry EXCEPT ![h] = new]
          /\ new.version = Current(h).version /\ ~new.replica /\ ~Current(h).replica
          /\ new.epoch = IF Current(h).version = 2 THEN Current(h).epoch + 1 ELSE Current(h).epoch
    BY <1>1, EditEffect
  <2>2. edits' = edits + 1 /\ edits < MaxTokens /\ UNCHANGED <<safe, sync, minted, told, credentialFaults>>
    BY <1>1 DEF Edit
  <2>3. Current(h) \in Registry /\ (registry[h] = Unset => Current(h).version = 1)
    BY CurrentType
  <2>4. CASE h = "authority"
    BY <2>1, <2>2, <2>3, <2>4 DEF Current, Registry, SyncTypes
  <2>5. CASE h = "standby"
    <3>1. Current(h).version = 1
      BY <2>1, <2>3, <2>5 DEF Current, Registry
    <3>2. QED
      BY <2>1, <2>2, <2>5, <3>1 DEF Registry, SyncTypes
  <2>6. QED
    BY <2>4, <2>5
<1>2. ASSUME NEW h \in Host, EditSynced(h) PROVE FileTypes'
  BY <1>2 DEF EditSynced
<1>3. CASE Start
  BY <1>3 DEF Start, Calling
<1>4. CASE Mint
  <2> DEFINE new == [registry["authority"] EXCEPT !.version = 2, !.authority = minted + 1]
  <2>1. minted + 1 \in 0..MaxCredentialFaults + 1
    BY <1>4 DEF Mint
  <2>2. /\ new \in Registry /\ new.replica = registry["authority"].replica
        /\ new.epoch = registry["authority"].epoch
    BY <2>1 DEF Registry
  <2>3. registry' = [registry EXCEPT !["authority"] = new] /\ minted' = minted + 1
    BY <1>4 DEF Mint
  <2>4. sync'.issued = sync.issued /\ UNCHANGED <<safe, edits, told, credentialFaults>>
    BY <1>4 DEF Mint, SyncTypes
  <2> HIDE DEF new
  <2>5. QED
    BY <2>1, <2>2, <2>3, <2>4
<1>5. CASE Minted
  BY <1>5 DEF Minted, Calling
<1>6. ASSUME NEW call \in wire, Receive(call) PROVE FileTypes'
  <2>1. call.document \in Registry /\ ~call.document.replica /\ call.document.version = 2
    BY <1>6, Sent
  <2>2. registry' = [registry EXCEPT !["standby"] = [call.document EXCEPT !.replica = TRUE]]
    BY <1>6 DEF Receive
  <2>3. UNCHANGED <<safe, sync, edits, minted, told, credentialFaults>>
    BY <1>6 DEF Receive
  <2>4. QED
    BY <2>1, <2>2, <2>3, PlainReceived
<1>7. ASSUME NEW call \in wire, Reject(call) PROVE FileTypes'
  <2>1. sync'.issued = sync.issued
    BY <1>7 DEF Reject, Answer, SyncTypes
  <2>2. QED
    BY <1>7, <2>1 DEF Reject
<1>8. CASE Received
  <2>1. sync'.issued = sync.issued
    BY <1>8 DEF Received, Answer, SyncTypes
  <2>2. QED
    BY <1>8, <2>1 DEF Received
<1>9. CASE GiveUp
  BY <1>9 DEF GiveUp
<1>10. CASE RecordSync
  BY <1>10 DEF RecordSync
<1>11. CASE Recorded
  <2>1. sync.issued \in Nat
    BY DEF SyncTypes
  <2>2. told' \subseteq told \cup (1..sync.issued)
    BY <1>11 DEF Recorded
  <2>3. 1..sync.issued \subseteq 1..edits
    BY <2>1
  <2>4. told' \subseteq 1..edits /\ sync'.issued = 0
    BY <1>11, <2>2, <2>3 DEF Recorded
  <2>5. UNCHANGED <<registry, safe, edits, minted, credentialFaults>>
    BY <1>11 DEF Recorded
  <2>6. QED
    BY <2>4, <2>5
<1>12. ASSUME NEW h \in Host, KillEditor(h) PROVE FileTypes'
  BY <1>12 DEF KillEditor
<1>13. CASE KillSync
  BY <1>13 DEF KillSync, IdleSync
<1>14. CASE KillReceiver
  <2>1. sync'.issued = sync.issued
    BY <1>14 DEF KillReceiver, Answer, SyncTypes
  <2>2. QED
    BY <1>14, <2>1 DEF KillReceiver
<1>15. CASE AuthorityLosesPower
  <2>1. PICK left \in {registry["authority"], safe["authority"]} :
          /\ registry' = [registry EXCEPT !["authority"] = left]
          /\ safe' = [safe EXCEPT !["authority"] = left]
    BY <1>15 DEF AuthorityLosesPower, Survives
  <2>2. /\ sync' = IdleSync
        /\ credentialFaults' = credentialFaults + 1 /\ credentialFaults < MaxCredentialFaults
        /\ UNCHANGED <<edits, minted, told>>
    BY <1>15 DEF AuthorityLosesPower
  <2>3. QED
    BY <2>1, <2>2
<1>16. CASE StandbyLosesPower
  <2>1. PICK left \in {registry["standby"], safe["standby"]} :
          /\ registry' = [registry EXCEPT !["standby"] = left]
          /\ safe' = [safe EXCEPT !["standby"] = left]
    BY <1>16 DEF StandbyLosesPower, Survives
  <2>2. sync'.issued = sync.issued /\ credentialFaults' = credentialFaults + 1
        /\ credentialFaults < MaxCredentialFaults /\ UNCHANGED <<edits, minted, told>>
    BY <1>16 DEF StandbyLosesPower, SyncTypes
  <2>3. QED
    BY <2>1, <2>2
<1>17. CASE UNCHANGED credentialVars
  BY <1>17 DEF credentialVars
<1>18. QED
  BY <1>1, <1>2, <1>3, <1>4, <1>5, <1>6, <1>7, <1>8, <1>9, <1>10, <1>11, <1>12, <1>13, <1>14,
     <1>15, <1>16, <1>17
     DEF CredentialNext, Editing, SyncStep, CredentialFault, Serve

-----------------------------------------------------------------------------
(* What leaves the authority: only what a run sends.                        *)
Sending(d) == (Start \/ Minted) /\ d = registry["authority"]

LEMMA FewerCopies ==
    ASSUME NEW more, NEW fewer, fewer \subseteq more
    PROVE  Copies(fewer) \subseteq Copies(more)
BY DEF Copies

LEMMA CallsStep ==
    CredentialTypes /\ [CredentialNext]_credentialVars
      => \A r \in InCalls' : r \in InCalls \/ Sending(r)
<1> SUFFICES ASSUME CredentialTypes, [CredentialNext]_credentialVars
             PROVE  \A r \in InCalls' : r \in InCalls \/ Sending(r)
  OBVIOUS
<1> USE Sorts DEF CredentialTypes, InCalls, WireTypes, Sending
<1>1. ASSUME NEW h \in Host, NEW d \in Device, NEW token \in 0..MaxTokens, Edit(h, d, token)
      PROVE  \A r \in InCalls' : r \in InCalls \/ Sending(r)
  BY <1>1 DEF Edit
<1>2. ASSUME NEW h \in Host, EditSynced(h) PROVE \A r \in InCalls' : r \in InCalls \/ Sending(r)
  BY <1>2 DEF EditSynced
<1>3. CASE Start
  BY <1>3 DEF Start, Calling
<1>4. CASE Mint
  BY <1>4 DEF Mint
<1>5. CASE Minted
  BY <1>5 DEF Minted, Calling
<1>6. ASSUME NEW call \in wire, Receive(call)
      PROVE  \A r \in InCalls' : r \in InCalls \/ Sending(r)
  BY <1>6 DEF Receive
<1>7. ASSUME NEW call \in wire, Reject(call)
      PROVE  \A r \in InCalls' : r \in InCalls \/ Sending(r)
  BY <1>7 DEF Reject
<1>8. CASE Received
  BY <1>8 DEF Received
<1>9. CASE GiveUp
  BY <1>9, DisconnectedCalls DEF GiveUp
<1>10. CASE RecordSync
  BY <1>10 DEF RecordSync
<1>11. CASE Recorded
  BY <1>11 DEF Recorded
<1>12. ASSUME NEW h \in Host, KillEditor(h)
       PROVE  \A r \in InCalls' : r \in InCalls \/ Sending(r)
  BY <1>12 DEF KillEditor
<1>13. CASE KillSync
  BY <1>13, DisconnectedCalls DEF KillSync
<1>14. CASE KillReceiver
  BY <1>14 DEF KillReceiver
<1>15. CASE AuthorityLosesPower
  BY <1>15, DisconnectedCalls DEF AuthorityLosesPower
<1>16. CASE StandbyLosesPower
  BY <1>16 DEF StandbyLosesPower
<1>17. CASE UNCHANGED credentialVars
  BY <1>17 DEF credentialVars
<1>18. QED
  BY <1>1, <1>2, <1>3, <1>4, <1>5, <1>6, <1>7, <1>8, <1>9, <1>10, <1>11, <1>12, <1>13, <1>14,
     <1>15, <1>16, <1>17
     DEF CredentialNext, Editing, SyncStep, CredentialFault, Serve

LEMMA RunsStep ==
    CredentialTypes /\ [CredentialNext]_credentialVars
      => \A r \in InRun' : r \in InRun \/ Sending(r)
<1> SUFFICES ASSUME CredentialTypes, [CredentialNext]_credentialVars
             PROVE  \A r \in InRun' : r \in InRun \/ Sending(r)
  OBVIOUS
<1> USE Sorts DEF CredentialTypes, InRun, SyncTypes, Sending
<1>1. ASSUME NEW h \in Host, NEW d \in Device, NEW token \in 0..MaxTokens, Edit(h, d, token)
      PROVE  \A r \in InRun' : r \in InRun \/ Sending(r)
  BY <1>1 DEF Edit
<1>2. ASSUME NEW h \in Host, EditSynced(h) PROVE \A r \in InRun' : r \in InRun \/ Sending(r)
  BY <1>2 DEF EditSynced
<1>3. CASE Start
  BY <1>3 DEF Start, Calling
<1>4. CASE Mint
  BY <1>4 DEF Mint
<1>5. CASE Minted
  BY <1>5 DEF Minted, Calling
<1>6. ASSUME NEW call \in wire, Receive(call) PROVE \A r \in InRun' : r \in InRun \/ Sending(r)
  BY <1>6 DEF Receive
<1>7. ASSUME NEW call \in wire, Reject(call) PROVE \A r \in InRun' : r \in InRun \/ Sending(r)
  BY <1>7 DEF Reject, Answer
<1>8. CASE Received
  BY <1>8 DEF Received, Answer
<1>9. CASE GiveUp
  BY <1>9 DEF GiveUp
<1>10. CASE RecordSync
  BY <1>10 DEF RecordSync
<1>11. CASE Recorded
  BY <1>11 DEF Recorded
<1>12. ASSUME NEW h \in Host, KillEditor(h) PROVE \A r \in InRun' : r \in InRun \/ Sending(r)
  BY <1>12 DEF KillEditor
<1>13. CASE KillSync
  BY <1>13 DEF KillSync
<1>14. CASE KillReceiver
  BY <1>14 DEF KillReceiver, Answer
<1>15. CASE AuthorityLosesPower
  BY <1>15 DEF AuthorityLosesPower
<1>16. CASE StandbyLosesPower
  BY <1>16 DEF StandbyLosesPower
<1>17. CASE UNCHANGED credentialVars
  BY <1>17 DEF credentialVars
<1>18. QED
  BY <1>1, <1>2, <1>3, <1>4, <1>5, <1>6, <1>7, <1>8, <1>9, <1>10, <1>11, <1>12, <1>13, <1>14,
     <1>15, <1>16, <1>17
     DEF CredentialNext, Editing, SyncStep, CredentialFault, Serve

LEMMA ReceiptsStep ==
    CredentialTypes /\ [CredentialNext]_credentialVars
      => InReceipts' \subseteq InReceipts \cup InRun
<1> SUFFICES ASSUME CredentialTypes, [CredentialNext]_credentialVars
             PROVE  InReceipts' \subseteq InReceipts \cup InRun
  OBVIOUS
<1> USE Sorts DEF CredentialTypes, InReceipts, InRun, Acknowledged, SyncTypes
<1>1. ASSUME NEW h \in Host, NEW d \in Device, NEW token \in 0..MaxTokens, Edit(h, d, token)
      PROVE  InReceipts' \subseteq InReceipts \cup InRun
  BY <1>1 DEF Edit
<1>2. ASSUME NEW h \in Host, EditSynced(h) PROVE InReceipts' \subseteq InReceipts \cup InRun
  BY <1>2 DEF EditSynced
<1>3. CASE Start
  BY <1>3 DEF Start
<1>4. CASE Mint
  BY <1>4 DEF Mint
<1>5. CASE Minted
  BY <1>5 DEF Minted
<1>6. ASSUME NEW call \in wire, Receive(call) PROVE InReceipts' \subseteq InReceipts \cup InRun
  BY <1>6 DEF Receive
<1>7. ASSUME NEW call \in wire, Reject(call) PROVE InReceipts' \subseteq InReceipts \cup InRun
  BY <1>7 DEF Reject
<1>8. CASE Received
  BY <1>8 DEF Received
<1>9. CASE GiveUp
  BY <1>9 DEF GiveUp
<1>10. CASE RecordSync
  BY <1>10 DEF RecordSync, LastAcknowledged
<1>11. CASE Recorded
  BY <1>11 DEF Recorded
<1>12. ASSUME NEW h \in Host, KillEditor(h) PROVE InReceipts' \subseteq InReceipts \cup InRun
  BY <1>12 DEF KillEditor
<1>13. CASE KillSync
  BY <1>13 DEF KillSync
<1>14. CASE KillReceiver
  BY <1>14 DEF KillReceiver
<1>15. CASE AuthorityLosesPower
  BY <1>15 DEF AuthorityLosesPower
<1>16. CASE StandbyLosesPower
  BY <1>16 DEF StandbyLosesPower
<1>17. CASE UNCHANGED credentialVars
  BY <1>17 DEF credentialVars
<1>18. QED
  BY <1>1, <1>2, <1>3, <1>4, <1>5, <1>6, <1>7, <1>8, <1>9, <1>10, <1>11, <1>12, <1>13, <1>14,
     <1>15, <1>16, <1>17
     DEF CredentialNext, Editing, SyncStep, CredentialFault, Serve

LEMMA CopiesStep ==
    CredentialTypes /\ OnePast /\ [CredentialNext]_credentialVars
      => Copies(AtStandby)' \subseteq Copies(AtStandby) \cup InCalls
<1> SUFFICES ASSUME CredentialTypes, OnePast, [CredentialNext]_credentialVars
             PROVE  Copies(AtStandby)' \subseteq Copies(AtStandby) \cup InCalls
  OBVIOUS
<1> USE FewerCopies, Sorts DEF AtStandby
<1>1. ASSUME NEW h \in Host, NEW d \in Device, NEW token \in 0..MaxTokens, Edit(h, d, token)
      PROVE  Copies(AtStandby)' \subseteq Copies(AtStandby) \cup InCalls
  <2>1. PICK new \in Registry : registry' = [registry EXCEPT ![h] = new] /\ ~new.replica
    BY <1>1, EditEffect
  <2>2. CASE h = "authority"
    BY <1>1, <2>1, <2>2 DEF Edit, CredentialTypes, FileTypes, Host
  <2>3. CASE h = "standby"
    BY <1>1, <2>1, <2>3 DEF Edit, CredentialTypes, FileTypes, Host, Copies
  <2>4. QED
    BY <2>2, <2>3 DEF Host
<1>2. ASSUME NEW h \in Host, EditSynced(h)
      PROVE  Copies(AtStandby)' \subseteq Copies(AtStandby) \cup InCalls
  <2>1. AtStandby' \subseteq AtStandby
    BY <1>2 DEF EditSynced, CredentialTypes, FileTypes, Host
  <2>2. QED
    BY ONLY <2>1, FewerCopies DEF Copies
<1>3. CASE Start
  BY <1>3 DEF Start
<1>4. CASE Mint
  <2>1. AtStandby' = AtStandby
    BY <1>4 DEF Mint, CredentialTypes, FileTypes, Host
  <2>2. QED
    BY ONLY <2>1 DEF Copies
<1>5. CASE Minted
  <2>1. AtStandby' = AtStandby
    BY <1>5 DEF Minted, CredentialTypes, FileTypes, Host
  <2>2. QED
    BY ONLY <2>1 DEF Copies
<1>6. ASSUME NEW call \in wire, Receive(call)
      PROVE  Copies(AtStandby)' \subseteq Copies(AtStandby) \cup InCalls
  <2>1. call.document \in Registry /\ ~call.document.replica
    BY <1>6, Sent
  <2>2. registry["standby"]' = [call.document EXCEPT !.replica = TRUE] /\ safe' = safe
    BY <1>6 DEF Receive, CredentialTypes, FileTypes, Host
  <2>3. Plain(registry["standby"]') = call.document
    BY <2>1, <2>2, PlainReceived
  <2>4. call.document \in InCalls
    BY <1>6 DEF InCalls
  <2>5. \A r \in AtStandby' : r \in AtStandby \/ Plain(r) \in InCalls
    BY <2>2, <2>3, <2>4
  <2>6. QED
    BY ONLY <2>5 DEF Copies
<1>7. ASSUME NEW call \in wire, Reject(call)
      PROVE  Copies(AtStandby)' \subseteq Copies(AtStandby) \cup InCalls
  BY <1>7 DEF Reject
<1>8. CASE Received
  <2>1. AtStandby' \subseteq AtStandby
    BY <1>8 DEF Received, CredentialTypes, FileTypes, Host
  <2>2. QED
    BY ONLY <2>1, FewerCopies DEF Copies
<1>9. CASE GiveUp
  BY <1>9 DEF GiveUp
<1>10. CASE RecordSync
  BY <1>10 DEF RecordSync
<1>11. CASE Recorded
  BY <1>11 DEF Recorded
<1>12. ASSUME NEW h \in Host, KillEditor(h)
       PROVE  Copies(AtStandby)' \subseteq Copies(AtStandby) \cup InCalls
  BY <1>12 DEF KillEditor
<1>13. CASE KillSync
  BY <1>13 DEF KillSync
<1>14. CASE KillReceiver
  BY <1>14 DEF KillReceiver
<1>15. CASE AuthorityLosesPower
  <2>1. AtStandby' = AtStandby
    BY <1>15 DEF AuthorityLosesPower, Survives, CredentialTypes, FileTypes, Host
  <2>2. QED
    BY ONLY <2>1 DEF Copies
<1>16. CASE StandbyLosesPower
  <2>1. AtStandby' \subseteq AtStandby
    BY <1>16 DEF StandbyLosesPower, Survives, CredentialTypes, FileTypes, Host
  <2>2. QED
    BY ONLY <2>1, FewerCopies DEF Copies
<1>17. CASE UNCHANGED credentialVars
  BY <1>17 DEF credentialVars
<1>18. QED
  BY <1>1, <1>2, <1>3, <1>4, <1>5, <1>6, <1>7, <1>8, <1>9, <1>10, <1>11, <1>12, <1>13, <1>14,
     <1>15, <1>16, <1>17
     DEF CredentialNext, Editing, SyncStep, CredentialFault, Serve

LEMMA AbroadStep ==
    ASSUME CredentialTypes, OnePast, [CredentialNext]_credentialVars, NEW d \in Abroad'
    PROVE  d \in Abroad \/ Sending(d)
<1>1. \A x \in InCalls' \cup InRun' : x \in InCalls \cup InRun \/ Sending(x)
  BY CallsStep, RunsStep DEF CredentialTypes
<1>2. InReceipts' \cup Copies(AtStandby)'
        \subseteq InReceipts \cup InRun \cup Copies(AtStandby) \cup InCalls
  BY ReceiptsStep, CopiesStep
<1>3. QED
  BY <1>1, <1>2 DEF Abroad
-----------------------------------------------------------------------------
(* What the authority does to its own file.                                 *)
LEMMA BeforeItself ==
    ASSUME NEW r \in Registry, r.version = 2 PROVE Before(r, r)
BY DEF Before, Registry

LEMMA BeforeThat ==
    ASSUME NEW d \in Registry, NEW r \in Registry, NEW s \in Registry, Before(d, r), Before(r, s)
    PROVE  Before(d, s)
BY DEF Before, Registry

(* Which steps touch the file of the authority, or its lock. *)
LEMMA AuthorityChanges ==
    CredentialTypes /\ [CredentialNext]_credentialVars =>
      \/ \E d \in Device, token \in 0..MaxTokens : Edit("authority", d, token)
      \/ EditSynced("authority") \/ Mint \/ Minted \/ AuthorityLosesPower
      \/ /\ registry'["authority"] = registry["authority"]
         /\ safe'["authority"] = safe["authority"]
         /\ lock'["authority"] \in {lock["authority"], "free"}
<1> SUFFICES ASSUME CredentialTypes, [CredentialNext]_credentialVars
             PROVE  \/ \E d \in Device, token \in 0..MaxTokens : Edit("authority", d, token)
                    \/ EditSynced("authority") \/ Mint \/ Minted \/ AuthorityLosesPower
                    \/ /\ registry'["authority"] = registry["authority"]
                       /\ safe'["authority"] = safe["authority"]
                       /\ lock'["authority"] \in {lock["authority"], "free"}
  OBVIOUS
<1> USE DEF CredentialTypes, FileTypes, LockTypes, Host
<1> DEFINE Same3 == /\ registry'["authority"] = registry["authority"]
                    /\ safe'["authority"] = safe["authority"]
                    /\ lock'["authority"] \in {lock["authority"], "free"}
<1>1. ASSUME NEW d \in Device, NEW token \in 0..MaxTokens, Edit("standby", d, token) PROVE Same3
  BY <1>1 DEF Edit
<1>2. EditSynced("standby") => Same3
  BY DEF EditSynced
<1>3. Start \/ GiveUp \/ RecordSync \/ Recorded => Same3
  BY DEF Start, GiveUp, RecordSync, Recorded
<1>4. ASSUME NEW call \in wire, Receive(call) \/ Reject(call) PROVE Same3
  BY <1>4 DEF Receive, Reject
<1>5. Received \/ KillReceiver \/ StandbyLosesPower => Same3
  BY DEF Received, KillReceiver, StandbyLosesPower, Survives
<1>6. ASSUME NEW h \in Host, KillEditor(h) PROVE Same3
  BY <1>6 DEF KillEditor
<1>7. KillSync \/ UNCHANGED credentialVars => Same3
  BY DEF KillSync, credentialVars
<1> HIDE DEF CredentialTypes, FileTypes, LockTypes, Same3
<1>8. \/ \E d \in Device, token \in 0..MaxTokens : Edit("authority", d, token)
      \/ EditSynced("authority") \/ Mint \/ Minted \/ AuthorityLosesPower \/ Same3
  BY <1>1, <1>2, <1>3, <1>4, <1>5, <1>6, <1>7
     DEF CredentialNext, Editing, SyncStep, CredentialFault, Serve
<1>9. QED
  BY <1>8 DEF Same3

LEMMA OnePastStep ==
    ASSUME CredentialTypes, OnePast, [CredentialNext]_credentialVars,
           AuthorityLosesPower => Recoverable
    PROVE  OnePast'
<1> DEFINE A == registry["authority"]
           B == safe["authority"]
<1>1. /\ A \in Registry /\ B \in Registry /\ registry \in [Host -> Registry \cup {Unset}]
      /\ safe \in [Host -> Registry \cup {Unset}] /\ ~A.replica
      /\ lock \in [Host -> {"free", "edit", "export", "receive"}]
  BY DEF CredentialTypes, FileTypes, LockTypes, Host
<1>2. /\ B.version = 2 => Before(B, A)
      /\ \A d \in Abroad : /\ d \in Registry /\ ~d.replica /\ d.version = 2 /\ A.version = 2
                           /\ Before(d, A) /\ (Recoverable => Before(d, B))
  BY Sent DEF OnePast
<1>3. \A d \in Abroad' : d \in Abroad \/ Sending(d)
  BY AbroadStep
<1>4. ASSUME NEW d \in Device, NEW token \in 0..MaxTokens, Edit("authority", d, token)
      PROVE  OnePast'
  <2>1. PICK new \in Registry :
          /\ registry' = [registry EXCEPT !["authority"] = new]
          /\ new.version = A.version /\ new.authority = A.authority
          /\ new.epoch = IF A.version = 2 THEN A.epoch + 1 ELSE A.epoch
    BY <1>4, EditEffect DEF Host, Current, CredentialTypes, FileTypes
  <2>2. A' = new /\ B' = B /\ lock'["authority"] = "edit" /\ lock["authority"] = "free"
    BY <1>1, <1>4, <2>1 DEF Edit, Host
  <2>3. ~Start /\ ~Minted
    BY <1>1, <2>2 DEF Start, Minted, Host
  <2>4. Before(A, new) \/ A.version # 2
    BY <1>1, <2>1 DEF Before, Registry
  <2>5. B'.version = 2 => Before(B', A')
    BY <1>1, <1>2, <2>1, <2>2, <2>4, BeforeThat DEF Before
  <2>6. ASSUME NEW x \in Abroad'
        PROVE  ~x.replica /\ Before(x, A') /\ (Recoverable' => Before(x, B'))
    <3>1. x \in Abroad
      BY <1>3, <2>3 DEF Sending
    <3>2. Before(x, A')
      BY <1>1, <1>2, <2>2, <2>4, <3>1, BeforeThat
    <3>3. ASSUME Recoverable' PROVE Before(x, B)
      <4>1. A.version = 2 /\ new.version = 2 /\ new.epoch = A.epoch + 1
        BY <1>2, <2>1, <3>1
      <4>2. B.version = 2 /\ B.epoch = A.epoch
        <5>1. B = new \/ (B.version = 2 /\ new.epoch = B.epoch + 1)
          BY <2>2, <3>3, <4>1 DEF Recoverable
        <5>2. B # new
          BY <1>1, <1>2, <4>1 DEF Before, Registry
        <5>3. QED
          BY <1>1, <4>1, <5>1, <5>2 DEF Registry
      <4>3. Before(A, B)
        BY <1>1, <1>2, <4>1, <4>2 DEF Before, Registry
      <4>4. QED
        BY <1>1, <1>2, <3>1, <4>3, BeforeThat
    <3>4. QED
      BY <1>2, <2>2, <3>1, <3>2, <3>3
  <2>7. QED
    BY <2>5, <2>6 DEF OnePast
<1>5. CASE EditSynced("authority") \/ Minted
  <2>1. A' = A /\ B' = A
    BY <1>1, <1>5 DEF EditSynced, Minted, Host
  <2>2. Minted => A.version = 2
    BY DEF Minted, CredentialTypes, LockTypes
  <2>3. \A x \in Abroad' : x \in Abroad \/ (x = A /\ A.version = 2)
    BY <1>3, <2>2, <1>5 DEF Sending, EditSynced, Start
  <2>4. \A x \in Abroad' : ~x.replica /\ Before(x, A)
    BY <1>1, <1>2, <2>3, BeforeItself
  <2>5. B'.version = 2 => Before(B', A')
    BY <1>1, <2>1, BeforeItself
  <2>6. QED
    BY <2>1, <2>4, <2>5 DEF OnePast
<1>6. CASE Mint
  <2>1. B' = B /\ A.version = 1 /\ ~Start /\ ~Minted
    BY <1>1, <1>6 DEF Mint, Host, Start, Minted
  <2>2. Abroad' = {}
    BY <1>2, <1>3, <2>1 DEF Sending
  <2>3. B.version # 2
    BY <1>2, <2>1 DEF Before
  <2>4. QED
    BY <2>1, <2>2, <2>3 DEF OnePast
<1>7. CASE AuthorityLosesPower
  <2>1. A' \in {A, B} /\ B' = A' /\ ~Start /\ ~Minted
    BY <1>1, <1>7 DEF AuthorityLosesPower, Survives, Host, Start, Minted
  <2>2. \A x \in Abroad' : x \in Abroad
    BY <1>3, <2>1 DEF Sending
  <2>3. \A x \in Abroad : Before(x, A) /\ Before(x, B)
    BY <1>2, <1>7
  <2>4. B'.version = 2 => Before(B', A')
    BY <1>1, <2>1, BeforeItself
  <2>5. QED
    BY <1>2, <2>1, <2>2, <2>3, <2>4 DEF OnePast
<1>8. CASE /\ A' = A /\ B' = B /\ lock'["authority"] \in {lock["authority"], "free"}
  <2>1. Recoverable' => Recoverable
    BY <1>8 DEF Recoverable
  <2>2. CASE Start
    <3>1. A.version = 2 /\ lock["authority"] = "free" /\ lock' = lock
      BY <2>2 DEF Start
    <3>2. Recoverable => B = A
      BY <3>1 DEF Recoverable
    <3>3. Before(A, A)
      BY <1>1, <3>1, BeforeItself
    <3>4. \A x \in Abroad' : x \in Abroad \/ x = A
      BY <1>3 DEF Sending
    <3>5. QED
      BY <1>1, <1>2, <1>8, <2>1, <3>2, <3>3, <3>4 DEF OnePast
  <2>3. CASE Minted
    BY <1>5, <2>3
  <2>4. CASE ~Start /\ ~Minted
    <3>1. \A x \in Abroad' : x \in Abroad
      BY <1>3, <2>4 DEF Sending
    <3>2. QED
      BY <1>2, <1>8, <2>1, <3>1 DEF OnePast
  <2>5. QED
    BY <2>2, <2>3, <2>4
<1>9. QED
  BY <1>4, <1>5, <1>6, <1>7, <1>8, AuthorityChanges
-----------------------------------------------------------------------------
(* What the standby holds, it holds on to.                                  *)
LEMMA PromisedStep ==
    CredentialTypes /\ [CredentialNext]_credentialVars
      => \A r \in Promised' : r \in Promised \/ (Received /\ r = receiver.document)
<1> SUFFICES ASSUME CredentialTypes, [CredentialNext]_credentialVars
             PROVE  \A r \in Promised' : r \in Promised \/ (Received /\ r = receiver.document)
  OBVIOUS
<1> USE Sorts DEF CredentialTypes, Promised, SyncTypes, Acknowledged
<1>1. ASSUME NEW h \in Host, NEW d \in Device, NEW token \in 0..MaxTokens, Edit(h, d, token)
      PROVE  \A r \in Promised' : r \in Promised \/ (Received /\ r = receiver.document)
  BY <1>1 DEF Edit
<1>2. ASSUME NEW h \in Host, EditSynced(h)
      PROVE  \A r \in Promised' : r \in Promised \/ (Received /\ r = receiver.document)
  BY <1>2 DEF EditSynced
<1>3. CASE Start
  BY <1>3 DEF Start, Calling
<1>4. CASE Mint
  BY <1>4 DEF Mint
<1>5. CASE Minted
  BY <1>5 DEF Minted, Calling
<1>6. ASSUME NEW call \in wire, Receive(call)
      PROVE  \A r \in Promised' : r \in Promised \/ (Received /\ r = receiver.document)
  BY <1>6 DEF Receive
<1>7. ASSUME NEW call \in wire, Reject(call)
      PROVE  \A r \in Promised' : r \in Promised \/ (Received /\ r = receiver.document)
  BY <1>7 DEF Reject, Answer
<1>8. CASE Received
  BY <1>8 DEF Received, Answer, WireTypes, Own
<1>9. CASE GiveUp
  BY <1>9 DEF GiveUp
<1>10. CASE RecordSync
  BY <1>10 DEF RecordSync, LastAcknowledged
<1>11. CASE Recorded
  BY <1>11 DEF Recorded
<1>12. ASSUME NEW h \in Host, KillEditor(h)
       PROVE  \A r \in Promised' : r \in Promised \/ (Received /\ r = receiver.document)
  BY <1>12 DEF KillEditor
<1>13. CASE KillSync
  BY <1>13 DEF KillSync
<1>14. CASE KillReceiver
  BY <1>14 DEF KillReceiver, Answer
<1>15. CASE AuthorityLosesPower
  BY <1>15 DEF AuthorityLosesPower
<1>16. CASE StandbyLosesPower
  BY <1>16 DEF StandbyLosesPower
<1>17. CASE UNCHANGED credentialVars
  BY <1>17 DEF credentialVars
<1>18. QED
  BY <1>1, <1>2, <1>3, <1>4, <1>5, <1>6, <1>7, <1>8, <1>9, <1>10, <1>11, <1>12, <1>13, <1>14,
     <1>15, <1>16, <1>17
     DEF CredentialNext, Editing, SyncStep, CredentialFault, Serve

LEMMA HeldStep ==
    ASSUME CredentialTypes, OnePast, [CredentialNext]_credentialVars, NEW d \in Registry,
           Held(d, registry["standby"]), Held(d, safe["standby"])
    PROVE  Held(d, registry'["standby"]) /\ Held(d, safe'["standby"])
<1> DEFINE S == registry["standby"]
           T == safe["standby"]
<1>1. /\ S \in Registry /\ T \in Registry /\ S.replica /\ S.version = 2
      /\ registry \in [Host -> Registry \cup {Unset}] /\ safe \in [Host -> Registry \cup {Unset}]
  BY DEF Held, CredentialTypes, FileTypes, Host
<1>2. CASE S' \in {S, T} /\ T' \in {S, T}
  BY <1>2
<1>3. ASSUME NEW call \in wire, Receive(call) PROVE Held(d, S') /\ Held(d, T')
  <2>1. /\ call.document \in Registry /\ ~call.document.replica
    BY Sent
  <2>2. S' = [call.document EXCEPT !.replica = TRUE] /\ T' = T
    BY <1>1, <1>3 DEF Receive, Host
  <2>3. S' \in Registry /\ S'.replica /\ Same(S', call.document)
    BY <2>1, <2>2, PlainReceived
  <2>4. /\ S.authority = call.document.authority
        /\ S.epoch < call.document.epoch \/ Same(S, call.document)
    BY <1>1, <1>3, Sorts DEF Receive, Acceptable, Current
  <2>5. Held(d, S')
    BY <1>1, <2>1, <2>3, <2>4, Sorts DEF Held, Same, Registry
  <2>6. QED
    BY <2>2, <2>5
<1>4. (S' \in {S, T} /\ T' \in {S, T}) \/ \E call \in wire : Receive(call)
  <2> USE <1>1 DEF Host
  <2>1. ASSUME NEW h \in Host, NEW x \in Device, NEW token \in 0..MaxTokens, Edit(h, x, token)
        PROVE  S' = S /\ T' = T
    BY <2>1, Sorts DEF Edit, Current
  <2>2. ASSUME NEW h \in Host, EditSynced(h) \/ KillEditor(h) PROVE S' = S /\ T' \in {S, T}
    BY <2>2 DEF EditSynced, KillEditor
  <2>3. Start \/ GiveUp \/ RecordSync \/ Recorded \/ KillSync \/ KillReceiver => S' = S /\ T' = T
    BY DEF Start, GiveUp, RecordSync, Recorded, KillSync, KillReceiver
  <2>4. Mint \/ Minted \/ AuthorityLosesPower => S' = S /\ T' = T
    BY DEF Mint, Minted, AuthorityLosesPower, Survives
  <2>5. ASSUME NEW call \in wire, Reject(call) PROVE S' = S /\ T' = T
    BY <2>5 DEF Reject
  <2>6. Received \/ StandbyLosesPower => S' \in {S, T} /\ T' \in {S, T}
    BY DEF Received, StandbyLosesPower, Survives
  <2>7. UNCHANGED credentialVars => S' = S /\ T' = T
    BY DEF credentialVars
  <2> HIDE <1>1 DEF S, T
  <2>8. QED
    BY <2>1, <2>2, <2>3, <2>4, <2>5, <2>6, <2>7
       DEF CredentialNext, Editing, SyncStep, CredentialFault, Serve
<1>5. QED
  BY <1>2, <1>3, <1>4

LEMMA PromisesHeldStep ==
    ASSUME CredentialTypes, OnePast, PromisesHeld, [CredentialNext]_credentialVars
    PROVE  PromisesHeld'
<1> SUFFICES ASSUME NEW d \in Promised'
             PROVE  Held(d, registry'["standby"]) /\ Held(d, safe'["standby"])
  BY DEF PromisesHeld
<1>1. CASE d \in Promised
  <2>1. d \in Registry
    BY <1>1, Sent DEF Promised, CredentialTypes, SyncTypes, Acknowledged
  <2>2. Held(d, registry["standby"]) /\ Held(d, safe["standby"])
    BY <1>1 DEF PromisesHeld
  <2>3. QED
    BY <2>1, <2>2, HeldStep
<1>2. CASE Received /\ d = receiver.document
  <2>1. /\ registry["standby"] \in Registry /\ registry["standby"].replica
        /\ Plain(registry["standby"]) = d /\ registry["standby"] # Unset
    BY <1>2 DEF Received, CredentialTypes, WireTypes, FileTypes, Host
  <2>2. Same(registry["standby"], d)
    BY <2>1 DEF Plain, Same, Registry
  <2>3. registry'["standby"] = registry["standby"] /\ safe'["standby"] = registry["standby"]
    BY <1>2 DEF Received, CredentialTypes, FileTypes, Host
  <2>4. QED
    BY <2>1, <2>2, <2>3 DEF Held, Same
<1>3. QED
  BY <1>1, <1>2, PromisedStep

(* Which steps change what the run and its receipts say. *)
LEMMA RunChanges ==
    CredentialTypes /\ [CredentialNext]_credentialVars =>
      \/ Start \/ Minted \/ RecordSync \/ Recorded \/ KillSync \/ AuthorityLosesPower
      \/ UNCHANGED <<receipt, safeReceipt, told, sync.document, sync.issued>>
<1> SUFFICES ASSUME CredentialTypes, [CredentialNext]_credentialVars
             PROVE  \/ Start \/ Minted \/ RecordSync \/ Recorded \/ KillSync \/ AuthorityLosesPower
                    \/ UNCHANGED <<receipt, safeReceipt, told, sync.document, sync.issued>>
  OBVIOUS
<1> USE DEF CredentialTypes, SyncTypes
<1>1. ASSUME NEW h \in Host, NEW d \in Device, NEW token \in 0..MaxTokens, Edit(h, d, token)
      PROVE  UNCHANGED <<receipt, safeReceipt, told, sync.document, sync.issued>>
  BY <1>1 DEF Edit
<1>2. ASSUME NEW h \in Host, EditSynced(h) \/ KillEditor(h)
      PROVE  UNCHANGED <<receipt, safeReceipt, told, sync.document, sync.issued>>
  BY <1>2 DEF EditSynced, KillEditor
<1>3. Mint \/ GiveUp \/ StandbyLosesPower => UNCHANGED <<receipt, safeReceipt, told,
                                                         sync.document, sync.issued>>
  BY DEF Mint, GiveUp, StandbyLosesPower
<1>4. ASSUME NEW call \in wire, Receive(call) \/ Reject(call)
      PROVE  UNCHANGED <<receipt, safeReceipt, told, sync.document, sync.issued>>
  BY <1>4 DEF Receive, Reject, Answer
<1>5. Received \/ KillReceiver => UNCHANGED <<receipt, safeReceipt, told, sync.document,
                                              sync.issued>>
  BY DEF Received, KillReceiver, Answer
<1>6. UNCHANGED credentialVars => UNCHANGED <<receipt, safeReceipt, told, sync.document,
                                              sync.issued>>
  BY DEF credentialVars
<1> HIDE DEF CredentialTypes, SyncTypes
<1>7. QED
  BY <1>1, <1>2, <1>3, <1>4, <1>5, <1>6
     DEF CredentialNext, Editing, SyncStep, CredentialFault, Serve

LEMMA ReceiptsForwardStep ==
    ASSUME CredentialTypes, OnePast, ReceiptsForward, [CredentialNext]_credentialVars
    PROVE  ReceiptsForward'
<1> DEFINE a == Acknowledged(receipt)
           b == Acknowledged(safeReceipt)
<1>1. /\ a \in Registry \cup {Unset} /\ b \in Registry \cup {Unset}
      /\ sync.document \in Registry \cup {Unset} /\ registry["authority"] \in Registry
  BY DEF CredentialTypes, SyncTypes, FileTypes, Host, Acknowledged, SyncReceipt
<1>2. CASE Start \/ Minted
  <2>1. a # Unset => a.epoch <= registry["authority"].epoch
    BY Sent DEF OnePast, Before
  <2>2. sync'.document = registry["authority"] /\ UNCHANGED <<receipt, safeReceipt>>
    BY <1>2 DEF Start, Minted, Calling
  <2>3. QED
    BY <2>1, <2>2 DEF ReceiptsForward
<1>3. CASE RecordSync
  <2>1. sync'.document = sync.document /\ safeReceipt' = safeReceipt
    BY <1>3 DEF RecordSync, CredentialTypes, SyncTypes
  <2>2. a' = a \/ (a' = sync.document /\ sync.document # Unset)
    BY <1>3, Sorts
       DEF RecordSync, LastAcknowledged, Acknowledged, CredentialTypes, SyncTypes,
           SyncReceipt
  <2> HIDE DEF a
  <2>3. QED
    BY <1>1, <2>1, <2>2, Sorts DEF ReceiptsForward, a, Registry
<1>4. CASE Recorded
  <2>1. a' = a /\ b' = a /\ sync'.document = Unset
    BY <1>4, Sorts DEF Recorded
  <2>2. QED
    BY <1>1, <2>1, Sorts DEF ReceiptsForward, Registry
<1>5. CASE KillSync \/ AuthorityLosesPower
  <2>1. sync'.document = Unset
    BY <1>5, Sorts DEF KillSync, AuthorityLosesPower
  <2>2. (a' = a /\ b' = b) \/ a' = b'
    BY <1>5 DEF KillSync, AuthorityLosesPower
  <2>3. a' \in {a, b} /\ b' \in {a, b}
    BY <1>5 DEF KillSync, AuthorityLosesPower
  <2> HIDE DEF a, b
  <2>4. QED
    BY <1>1, <2>1, <2>2, <2>3, Sorts DEF ReceiptsForward, a, b, Registry
<1>6. CASE UNCHANGED <<receipt, safeReceipt, sync.document>>
  BY <1>6 DEF ReceiptsForward
<1>7. Start \/ Minted \/ RecordSync \/ Recorded \/ KillSync \/ AuthorityLosesPower
        \/ UNCHANGED <<receipt, safeReceipt, told, sync.document, sync.issued>>
  BY RunChanges
<1>8. QED
  BY <1>2, <1>3, <1>4, <1>5, <1>6, <1>7
-----------------------------------------------------------------------------
(* Nothing that was reported revoked comes back.                            *)
LEMMA CleanStep ==
    ASSUME CredentialTypes, ReceiptsForward, told # {} => Acknowledged(safeReceipt) # Unset,
           [CredentialNext]_credentialVars, NEW d \in Registry, Purged(d),
           Start \/ Minted => (registry["authority"].epoch <= d.epoch =>
                                 Tokens(d) = Tokens(registry["authority"]))
    PROVE  Purged(d)'
<1> DEFINE a == Acknowledged(receipt)
           b == Acknowledged(safeReceipt)
           gone == 1..sync.issued
<1>1. /\ a \in Registry \cup {Unset} /\ b \in Registry \cup {Unset}
      /\ sync.document \in Registry \cup {Unset} /\ registry["authority"] \in Registry
  BY DEF CredentialTypes, SyncTypes, FileTypes, Host, Acknowledged, SyncReceipt
<1>2. CASE Start \/ Minted
  <2>1. sync'.document = registry["authority"] /\ UNCHANGED <<safeReceipt, told>>
    BY <1>2 DEF Start, Minted, Calling
  <2>2. registry["authority"].epoch <= d.epoch => Tokens(d) = Tokens(registry["authority"])
    BY <1>2
  <2>3. Tokens(d)' = Tokens(d) /\ Tokens(registry["authority"]) = Tokens(sync.document)'
    BY <2>1 DEF Tokens
  <2>4. QED
    BY <2>1, <2>2, <2>3 DEF Purged
<1>3. CASE Recorded
  <2>1. b' = a /\ sync'.document = Unset
    BY <1>3, Sorts DEF Recorded
  <2>2. a # Unset /\ b # Unset => b.epoch <= a.epoch
    BY DEF ReceiptsForward
  <2>3. ASSUME a # Unset, a.epoch <= d.epoch PROVE told' \cap Tokens(d) = {}
    <3>1. told \cap Tokens(d) = {}
      <4>1. CASE told = {}
        BY <4>1
      <4>2. CASE told # {}
        <5>1. b # Unset /\ b.epoch <= d.epoch
          BY <1>1, <2>2, <2>3, <4>2, Sorts DEF Registry
        <5>2. QED
          BY <5>1 DEF Purged
      <4>3. QED
        BY <4>1, <4>2
    <3>2. /\ receipt # Unset /\ a = receipt.acknowledged
          /\ told' = told \cup (IF a = sync.document THEN gone \ Tokens(sync.document) ELSE {})
      BY <1>3 DEF Recorded, CredentialTypes, SyncTypes, Acknowledged
    <3>3. CASE a = sync.document
      <4>1. gone \cap Tokens(d) \subseteq Tokens(sync.document)
        BY <2>3, <3>3 DEF Purged
      <4> HIDE DEF gone
      <4>2. QED
        BY <3>1, <3>2, <3>3, <4>1
    <3>4. CASE a # sync.document
      BY <3>1, <3>2, <3>4
    <3>5. QED
      BY <3>3, <3>4
  <2>4. QED
    BY <2>1, <2>3 DEF Purged
<1>4. CASE KillSync \/ RecordSync
  <2>1. /\ b' = b /\ told' = told
        /\ sync'.document \in {sync.document, Unset} /\ sync'.issued \in {sync.issued, 0}
    BY <1>4, Sorts DEF KillSync, RecordSync, CredentialTypes, SyncTypes
  <2>2. sync'.document # Unset => sync'.issued = sync.issued
    BY <1>4, Sorts DEF KillSync, RecordSync, CredentialTypes, SyncTypes
  <2>3. QED
    BY <2>1, <2>2 DEF Purged
<1>5. CASE AuthorityLosesPower
  <2>1. b' \in {a, b} /\ told' = told /\ sync'.document = Unset
    BY <1>5, Sorts DEF AuthorityLosesPower
  <2>2. a # Unset /\ b # Unset => b.epoch <= a.epoch
    BY DEF ReceiptsForward
  <2>3. ASSUME b' # Unset, b'.epoch <= d.epoch PROVE told \cap Tokens(d) = {}
    <3>1. CASE told = {}
      BY <3>1
    <3>2. CASE told # {}
      <4>1. b # Unset /\ b.epoch <= d.epoch
        BY <1>1, <2>1, <2>2, <2>3, <3>2, Sorts DEF Registry
      <4>2. QED
        BY <4>1 DEF Purged
    <3>3. QED
      BY <3>1, <3>2
  <2>4. QED
    BY <2>1, <2>3 DEF Purged
<1>6. CASE UNCHANGED <<receipt, safeReceipt, told, sync.document, sync.issued>>
  BY <1>6 DEF Purged
<1>7. QED
  BY <1>2, <1>3, <1>4, <1>5, <1>6, RunChanges

(* The revisions one may meet: the known ones, the one an edit makes, and   *)
(* before anything was sent, any.                                           *)
LEMMA RevokedAreGoneStep ==
    ASSUME CredentialTypes, OnePast, ReceiptsForward, RevokedAreGone,
           [CredentialNext]_credentialVars, AuthorityLosesPower => Recoverable
    PROVE  RevokedAreGone'
<1> DEFINE A == registry["authority"]
           B == safe["authority"]
<1>1. /\ A \in Registry /\ B \in Registry /\ registry \in [Host -> Registry \cup {Unset}]
      /\ safe \in [Host -> Registry \cup {Unset}]
      /\ lock \in [Host -> {"free", "edit", "export", "receive"}]
  BY DEF CredentialTypes, FileTypes, LockTypes, Host
<1>2. Acknowledged(safeReceipt)' # Unset \/ told' = {}
  <2>1. CASE Recorded
    BY <2>1, Sorts DEF Recorded, RevokedAreGone, ReceiptsForward, CredentialTypes, SyncTypes,
       Acknowledged, SyncReceipt
  <2>2. CASE AuthorityLosesPower
    BY <2>2 DEF AuthorityLosesPower, RevokedAreGone, ReceiptsForward
  <2>3. CASE Start \/ Minted \/ RecordSync \/ KillSync
    BY <2>3 DEF Start, Minted, RecordSync, KillSync, RevokedAreGone
  <2>4. CASE UNCHANGED <<receipt, safeReceipt, told, sync.document, sync.issued>>
    BY <2>4 DEF RevokedAreGone
  <2>5. QED
    BY <2>1, <2>2, <2>3, <2>4, RunChanges
<1>3. ASSUME NEW d \in Known PROVE d \in Registry /\ Purged(d)
  BY <1>1, Sent DEF Known, RevokedAreGone
<1>4. ASSUME A.version # 2 PROVE /\ Acknowledged(safeReceipt) = Unset /\ told = {}
                                 /\ sync.document = Unset
  BY <1>4, Sent DEF RevokedAreGone
<1>5. ASSUME NEW x \in Known, Minted => x \in Abroad \cup {A} PROVE Purged(x)'
  <2>1. ASSUME Start \/ Minted PROVE A.epoch <= x.epoch => Tokens(x) = Tokens(A)
    <3>1. A.version = 2
      BY <2>1 DEF Start, Minted, CredentialTypes, LockTypes
    <3>2. x \in Abroad \cup {A}
      <4>1. CASE Start
        <5>1. Recoverable => B = A
          BY <3>1, <4>1 DEF Start, Recoverable
        <5>2. QED
          BY <5>1 DEF Known
      <4>2. CASE Minted
        BY <1>5, <4>2
      <4>3. QED
        BY <2>1, <4>1, <4>2
    <3>3. Before(x, A)
      BY <1>1, <3>1, <3>2, BeforeItself DEF OnePast
    <3>4. QED
      BY <1>1, <1>3, <3>3 DEF Before, Registry, Tokens
  <2>2. QED
    BY <1>3, <2>1, CleanStep DEF RevokedAreGone
<1>6. ASSUME NEW x \in Known' PROVE Purged(x)'
  <2>1. x \in Abroad' \/ x = A' \/ (Recoverable' /\ x = B')
    BY <1>6 DEF Known
  <2>2. x \in Abroad' => x \in Abroad \cup {A}
    BY AbroadStep DEF Sending
  <2>3. Abroad \cup {A} \subseteq Known /\ (Recoverable => B \in Known)
    BY DEF Known
  <2>4. CASE x \in Abroad \cup {A}
    BY <1>5, <2>3, <2>4
  <2>5. CASE A.version # 2 /\ ~Start /\ ~Minted
    <3>1. Acknowledged(safeReceipt)' = Unset /\ sync'.document = Unset
      <4>1. /\ sync.document = Unset /\ sync.pc \in {"idle", "export"}
            /\ Acknowledged(receipt) = Unset /\ Acknowledged(safeReceipt) = Unset
        BY <1>4, <2>5, Sent DEF CredentialTypes, SyncTypes
      <4>2. ~RecordSync /\ ~Recorded
        BY <4>1 DEF RecordSync, Recorded
      <4>3. CASE KillSync
        BY <4>1, <4>3, Sorts DEF KillSync
      <4>4. CASE AuthorityLosesPower
        BY <4>1, <4>4, Sorts DEF AuthorityLosesPower
      <4>5. CASE UNCHANGED <<receipt, safeReceipt, told, sync.document, sync.issued>>
        BY <4>1, <4>5
      <4>6. QED
        BY <2>5, <4>2, <4>3, <4>4, <4>5, RunChanges
    <3>2. QED
      BY <3>1 DEF Purged
  <2>6. ASSUME A.version = 2, NEW d \in Device, NEW token \in 0..MaxTokens,
               Edit("authority", d, token), x \notin Abroad \cup {A}
        PROVE  Purged(x)'
    <3>1. PICK new \in Registry :
            /\ registry' = [registry EXCEPT !["authority"] = new]
            /\ new.version = A.version /\ new.authority = A.authority
            /\ new.epoch = IF A.version = 2 THEN A.epoch + 1 ELSE A.epoch
            /\ Tokens(new) \subseteq Tokens(A) \cup {edits + 1}
      BY <2>6, EditEffect DEF Host, Current, CredentialTypes, FileTypes
    <3>2. /\ A' = new /\ B' = B /\ lock'["authority"] = "edit"
          /\ UNCHANGED <<safeReceipt, sync, told>>
      BY <1>1, <2>6, <3>1 DEF Edit, Host
    <3>3. Purged(A) /\ Before(A, A)
      BY <1>1, <1>3, <2>3, <2>6, BeforeItself
    <3>4. CASE x = new
      <4>1. /\ edits \in Nat /\ sync.issued \in Nat /\ sync.issued <= edits /\ told \subseteq 1..edits
        BY DEF CredentialTypes, FileTypes, SyncTypes
      <4>2. told \cap Tokens(x) \subseteq told \cap Tokens(A)
        BY <3>1, <3>4, <4>1
      <4>3. (1..sync.issued) \cap Tokens(x) \subseteq (1..sync.issued) \cap Tokens(A)
        BY <3>1, <3>4, <4>1
      <4>4. Acknowledged(safeReceipt) # Unset => Acknowledged(safeReceipt).epoch <= A.epoch
        BY Sent DEF OnePast, Before
      <4>5. sync.document # Unset => sync.document.epoch <= A.epoch
        BY Sent DEF OnePast, Before
      <4>6. Acknowledged(safeReceipt) # Unset => told \cap Tokens(A) = {}
        BY <3>3, <4>4 DEF Purged
      <4>7. sync.document # Unset => (1..sync.issued) \cap Tokens(A) \subseteq Tokens(sync.document)
        BY <3>3, <4>5 DEF Purged
      <4>8. Purged(x)
        BY <4>2, <4>3, <4>6, <4>7 DEF Purged
      <4>9. QED
        BY <3>2, <4>8 DEF Purged, Tokens
    <3>5. CASE x = B /\ x # new
      <4>1. Recoverable'
        BY <2>1, <2>2, <2>6, <3>2, <3>5
      <4>2. B.version = 2 /\ B.epoch = A.epoch
        BY <1>1, <2>6, <3>1, <3>2, <3>5, <4>1 DEF Recoverable, Registry
      <4>3. Tokens(B) = Tokens(A) /\ B.epoch = A.epoch
        BY <4>2 DEF OnePast, Before, Tokens
      <4>4. Purged(x)
        BY <3>3, <3>5, <4>3 DEF Purged
      <4>5. QED
        BY <3>2, <4>4 DEF Purged, Tokens
    <3>6. QED
      BY <2>1, <2>2, <2>6, <3>2, <3>4, <3>5
  <2>7. CASE EditSynced("authority") \/ Minted
    <3>1. A' = A /\ B' = A
      BY <1>1, <2>7 DEF EditSynced, Minted, Host
    <3>2. QED
      BY <2>1, <2>2, <2>4, <3>1
  <2>8. CASE AuthorityLosesPower
    <3>1. A' \in {A, B} /\ B' \in {A, B} /\ ~Minted
      BY <1>1, <2>8 DEF AuthorityLosesPower, Survives, Host, Minted
    <3>2. x \in Known
      BY <2>1, <2>2, <2>3, <2>8, <3>1
    <3>3. QED
      BY <1>5, <3>1, <3>2
  <2>9. CASE /\ A' = A /\ B' = B /\ lock'["authority"] \in {lock["authority"], "free"} /\ ~Minted
    <3>1. Recoverable' => Recoverable
      BY <2>9 DEF Recoverable
    <3>2. x \in Known
      BY <2>1, <2>2, <2>3, <2>9, <3>1
    <3>3. QED
      BY <1>5, <2>9, <3>2
  <2>10. CASE Mint
    <3>1. A.version # 2 /\ ~Start /\ ~Minted
      BY <2>10 DEF Mint, Start, Minted
    <3>2. QED
      BY <2>5, <3>1
  <2>11. ASSUME NEW d \in Device, NEW token \in 0..MaxTokens, Edit("authority", d, token)
         PROVE  Purged(x)'
    <3>1. ~Start /\ ~Minted
      BY <1>1, <2>11 DEF Edit, Start, Minted, Host
    <3>2. QED
      BY <2>4, <2>5, <2>6, <2>11, <3>1
  <2>12. QED
    BY <2>7, <2>8, <2>9, <2>10, <2>11, AuthorityChanges
<1>7. QED
  BY <1>2, <1>6 DEF RevokedAreGone
-----------------------------------------------------------------------------
LEMMA RecoverableStep ==
    ASSUME CredentialTypes, OnePast, RecoverableAtFirst, [CredentialNext]_credentialVars
    PROVE  RecoverableAtFirst' /\ (MaxCredentialFaults <= 1 => (AuthorityLosesPower => Recoverable))
<1> DEFINE A == registry["authority"]
           B == safe["authority"]
<1>1. /\ A \in Registry /\ B \in Registry /\ registry \in [Host -> Registry \cup {Unset}]
      /\ safe \in [Host -> Registry \cup {Unset}]
      /\ lock \in [Host -> {"free", "edit", "export", "receive"}]
      /\ credentialFaults \in Nat
  BY DEF CredentialTypes, FileTypes, LockTypes, Host
<1>2. MaxCredentialFaults <= 1 => (AuthorityLosesPower => Recoverable)
  BY <1>1, Sorts DEF AuthorityLosesPower, RecoverableAtFirst
<1>3. ASSUME credentialFaults' = 0 PROVE Recoverable'
  <2>1. credentialFaults = 0 /\ ~CredentialFault
    <3>1. CredentialFault => credentialFaults' = credentialFaults + 1
      BY 
         DEF CredentialFault, KillEditor, KillSync, KillReceiver, AuthorityLosesPower,
             StandbyLosesPower
    <3>2. ~CredentialFault => credentialFaults' = credentialFaults
      BY DEF CredentialNext, Editing, Edit, SyncStep, Start, Mint, Minted, RecordSync, Recorded,
         Received, GiveUp, EditSynced, Serve, Receive, Reject, credentialVars
    <3>3. QED
      BY <1>1, <1>3, <3>1, <3>2
  <2>2. Recoverable
    BY <2>1 DEF RecoverableAtFirst
  <2>3. ASSUME NEW d \in Device, NEW token \in 0..MaxTokens, Edit("authority", d, token)
        PROVE  Recoverable'
    <3>1. PICK new \in Registry :
            /\ registry' = [registry EXCEPT !["authority"] = new]
            /\ new.version = A.version
            /\ new.epoch = IF A.version = 2 THEN A.epoch + 1 ELSE A.epoch
      BY <2>3, EditEffect DEF Host, Current, CredentialTypes, FileTypes
    <3>2. A' = new /\ B' = B /\ lock'["authority"] = "edit" /\ lock["authority"] = "free"
      BY <1>1, <2>3, <3>1 DEF Edit, Host
    <3>3. A.version # 1 => A.version = 2 /\ B = A
      BY <1>1, <2>2, <3>2 DEF Recoverable, Registry
    <3>4. QED
      BY <3>1, <3>2, <3>3 DEF Recoverable
  <2>4. CASE EditSynced("authority") \/ Minted
    BY <1>1, <2>4 DEF EditSynced, Minted, Host, Recoverable
  <2>5. CASE Mint
    BY <1>1, <2>5 DEF Mint, Recoverable, Host
  <2>6. CASE /\ A' = A /\ B' = B /\ lock'["authority"] \in {lock["authority"], "free"}
    <3>1. lock'["authority"] = lock["authority"] \/ B = A \/ A.version = 1
      <4>1. ASSUME NEW h \in Host, NEW d \in Device, NEW token \in 0..MaxTokens, Edit(h, d, token),
                   h # "authority"
            PROVE  lock'["authority"] = lock["authority"]
        BY <1>1, <4>1 DEF Edit, Host
      <4>2. ASSUME NEW h \in Host, EditSynced(h), h # "authority"
            PROVE  lock'["authority"] = lock["authority"]
        BY <1>1, <4>2 DEF EditSynced, Host
      <4>3. Start \/ RecordSync \/ Recorded \/ GiveUp \/ Received \/ UNCHANGED credentialVars =>
              lock'["authority"] = lock["authority"]
        BY <1>1 DEF Start, RecordSync, Recorded, GiveUp, Received, credentialVars, Host
      <4>4. ASSUME NEW call \in wire, Receive(call) \/ Reject(call)
            PROVE  lock'["authority"] = lock["authority"]
        BY <1>1, <4>4 DEF Receive, Reject, Host
      <4>5. ASSUME NEW d \in Device, NEW token \in 0..MaxTokens, Edit("authority", d, token)
            PROVE  B = A \/ A.version = 1
        BY <2>2, <4>5 DEF Edit, Recoverable
      <4>6. EditSynced("authority") \/ Minted \/ Mint => B = A \/ A.version = 1
        BY <1>1, <2>6 DEF EditSynced, Minted, Mint, Host
      <4>7. QED
        BY <2>1, <4>1, <4>2, <4>3, <4>4, <4>5, <4>6
           DEF CredentialNext, Editing, SyncStep, Serve, Host
    <3>2. QED
      BY <2>2, <2>6, <3>1 DEF Recoverable
  <2>7. ~AuthorityLosesPower
    BY <2>1 DEF CredentialFault
  <2>8. QED
    BY <2>3, <2>4, <2>5, <2>6, <2>7, AuthorityChanges
<1>4. QED
  BY <1>2, <1>3 DEF RecoverableAtFirst

LEMMA CredentialStarts == CredentialInit => CredentialIInv /\ RecoverableAtFirst
<1> SUFFICES ASSUME CredentialInit PROVE CredentialIInv /\ RecoverableAtFirst
  OBVIOUS
<1>1. PICK d \in Device, copied \in BOOLEAN :
        registry = [h \in Host |-> IF h = "authority" \/ copied
                                   THEN Legacy([NoEntries EXCEPT ![d] = 1]) ELSE Unset]
  BY DEF CredentialInit
<1> DEFINE old == Legacy([NoEntries EXCEPT ![d] = 1])
<1>2. /\ old \in Registry /\ old.version = 1 /\ ~old.replica /\ old.epoch = 0 /\ old # Unset
  <2>1. [NoEntries EXCEPT ![d] = 1] \in Entries
    BY Sorts DEF NoEntries, Entries
  <2>2. /\ old = [version |-> 1, authority |-> 0, epoch |-> 0,
                  entries |-> [NoEntries EXCEPT ![d] = 1], replica |-> FALSE]
    BY DEF Legacy
  <2>3. old \in Registry
    <3>1. 0 \in 0..MaxTokens /\ 0 \in 0..MaxCredentialFaults + 1
      BY Sorts
    <3> DEFINE filled == [NoEntries EXCEPT ![d] = 1]
    <3>2. filled \in Entries
      BY <2>1
    <3> HIDE DEF filled
    <3>3. [version |-> 1, authority |-> 0, epoch |-> 0, entries |-> filled, replica |-> FALSE]
            \in Registry
      BY <3>1, <3>2 DEF Registry
    <3>4. QED
      BY <2>2, <3>3 DEF filled
  <2>4. old # Unset
    BY <2>3, UnsetAssumption
  <2>5. QED
    BY <2>2, <2>3, <2>4
<1> HIDE DEF old
<1>3. /\ registry \in [Host -> {old, Unset}] /\ registry["authority"] = old /\ safe = registry
      /\ registry["standby"] \in {old, Unset}
  BY <1>1 DEF CredentialInit, Host, old
<1>4. /\ lock = [h \in Host |-> "free"] /\ receipt = Unset /\ safeReceipt = Unset /\ sync = IdleSync
      /\ wire = {} /\ receiver = Unset /\ edits = 1 /\ minted = 0 /\ told = {}
      /\ credentialFaults = 0
  BY DEF CredentialInit
<1>5. IdleSync \in [pc : {"idle", "export", "wait", "answered", "refused", "record"},
                    document : Registry \cup {Unset}, issued : 0..MaxTokens]
  BY Sorts DEF IdleSync
<1>6. SyncTypes
  BY <1>4, <1>5, Sorts DEF SyncTypes
<1>7. FileTypes
  BY <1>2, <1>3, <1>4, Sorts DEF FileTypes, Host
<1>8. LockTypes /\ WireTypes
  BY <1>4, Sorts DEF LockTypes, WireTypes, Host
<1>9. Abroad = {}
  <2>1. InCalls = {} /\ InRun = {} /\ InReceipts = {}
    BY <1>4, Sorts DEF InCalls, InRun, InReceipts, Acknowledged
  <2>2. Copies(AtStandby) = {}
    BY <1>2, <1>3 DEF Copies, AtStandby
  <2>3. QED
    BY <2>1, <2>2 DEF Abroad
<1>10. OnePast
  BY <1>2, <1>3, <1>9 DEF OnePast
<1>11. PromisesHeld /\ ReceiptsForward
  BY <1>4, Sorts DEF PromisesHeld, Promised, ReceiptsForward, Acknowledged
<1>12. RevokedAreGone
  BY <1>4, Sorts DEF RevokedAreGone, Purged, Acknowledged
<1>13. RecoverableAtFirst
  BY <1>3 DEF RecoverableAtFirst, Recoverable
<1>14. QED
  BY <1>6, <1>7, <1>8, <1>10, <1>11, <1>12, <1>13 DEF CredentialIInv, CredentialTypes

LEMMA CredentialIInvStep ==
    CredentialIInv /\ [CredentialNext]_credentialVars /\ (AuthorityLosesPower => Recoverable)
      => CredentialIInv'
<1> SUFFICES ASSUME CredentialIInv, [CredentialNext]_credentialVars,
                    AuthorityLosesPower => Recoverable
             PROVE  CredentialIInv'
  OBVIOUS
<1>1. CredentialTypes /\ OnePast /\ PromisesHeld /\ ReceiptsForward /\ RevokedAreGone
  BY DEF CredentialIInv
<1>2. CredentialTypes'
  BY <1>1, SyncTypesStep, FileTypesStep, LockTypesStep, WireTypesStep DEF CredentialTypes
<1>3. OnePast' /\ PromisesHeld' /\ ReceiptsForward' /\ RevokedAreGone'
  BY <1>1, OnePastStep, PromisesHeldStep, ReceiptsForwardStep, RevokedAreGoneStep
<1>4. QED
  BY <1>2, <1>3 DEF CredentialIInv

LEMMA CredentialIInvImplies == CredentialIInv => CredentialInvariant
<1> SUFFICES ASSUME CredentialIInv PROVE CredentialInvariant
  OBVIOUS
<1> USE DEF CredentialIInv
<1>1. CredentialTypeOK
  <2>1. edits \in 0..MaxTokens /\ told \subseteq 1..MaxTokens
    BY Sorts DEF CredentialTypes, FileTypes
  <2>2. QED
    BY <2>1
       DEF CredentialTypes, SyncTypes, FileTypes, LockTypes, WireTypes, Own,
           CredentialTypeOK
<1>2. AcknowledgedIsHeld
  <2>1. LastAcknowledged = Acknowledged(receipt)
    BY DEF LastAcknowledged, Acknowledged
  <2>2. Acknowledged(receipt) # Unset => Held(Acknowledged(receipt), registry["standby"])
    BY DEF PromisesHeld, Promised
  <2>3. QED
    BY <2>1, <2>2 DEF AcknowledgedIsHeld, Held
<1>3. RevokedStaysRevoked
  <2> DEFINE S == registry["standby"]
             b == Acknowledged(safeReceipt)
  <2>1. SUFFICES ASSUME S # Unset, told # {} PROVE told \cap Tokens(S) = {}
    BY DEF RevokedStaysRevoked
  <2>2. b # Unset /\ Held(b, S) /\ b \in Registry /\ S \in Registry
    BY <2>1, Sent DEF RevokedAreGone, PromisesHeld, Promised, CredentialTypes, FileTypes, Host
  <2>3. Plain(S) \in Known
    BY <2>2, Sent DEF Held, Known
  <2>4. Plain(S).epoch = S.epoch /\ Tokens(Plain(S)) = Tokens(S)
    BY <2>2 DEF Plain, Registry, Tokens
  <2>5. b.epoch <= S.epoch
    BY <2>2 DEF Held, Same, Registry
  <2>6. QED
    BY <2>2, <2>3, <2>4, <2>5 DEF RevokedAreGone, Purged
<1>4. QED
  BY <1>1, <1>2, <1>3 DEF CredentialInvariant

(* A token that a receipt reported revoked is never accepted by the standby *)
(* again, and the standby holds what the receipt names: for any devices,    *)
(* tokens and number of deaths, time-outs and losses of power, as long as   *)
(* no power is lost over a revision that a dead process of the authority    *)
(* left unsynced (credentials.py, lines 127-420).                           *)
THEOREM RevokedForGood ==
    CredentialSpec /\ NoLossAfterDeadEdit => []CredentialInvariant
<1>1. CredentialInit => CredentialIInv
  BY CredentialStarts
<1>2. /\ CredentialIInv /\ [CredentialNext]_credentialVars
      /\ [AuthorityLosesPower => Recoverable]_credentialVars
      => CredentialIInv'
  <2> SUFFICES ASSUME CredentialIInv, [CredentialNext]_credentialVars,
                      [AuthorityLosesPower => Recoverable]_credentialVars
               PROVE  CredentialIInv'
    OBVIOUS
  <2>1. CASE AuthorityLosesPower => Recoverable
    BY <2>1, CredentialIInvStep
  <2>2. CASE UNCHANGED credentialVars
    <3>1. ~AuthorityLosesPower
      BY <2>2
         DEF AuthorityLosesPower, credentialVars, CredentialIInv, CredentialTypes, FileTypes
    <3>2. QED
      BY <3>1, CredentialIInvStep
  <2>3. QED
    BY <2>1, <2>2
<1>3. QED
  BY <1>1, <1>2, CredentialIInvImplies, PTL DEF CredentialSpec, NoLossAfterDeadEdit

(* With at most one fault there is no death before the loss of power: the   *)
(* hypothesis is met by the specification alone.                            *)
THEOREM OneFaultRevokesForGood ==
    MaxCredentialFaults <= 1 => (CredentialSpec => []CredentialInvariant)
<1> SUFFICES ASSUME MaxCredentialFaults <= 1 PROVE CredentialSpec => []CredentialInvariant
  OBVIOUS
<1>1. CredentialInit => CredentialIInv /\ RecoverableAtFirst
  BY CredentialStarts
<1>2. CredentialIInv /\ RecoverableAtFirst /\ [CredentialNext]_credentialVars
        => (CredentialIInv /\ RecoverableAtFirst)'
  <2> SUFFICES ASSUME CredentialIInv, RecoverableAtFirst, [CredentialNext]_credentialVars
               PROVE  (CredentialIInv /\ RecoverableAtFirst)'
    OBVIOUS
  <2>1. RecoverableAtFirst' /\ (AuthorityLosesPower => Recoverable)
    BY RecoverableStep DEF CredentialIInv
  <2>2. QED
    BY <2>1, CredentialIInvStep
<1>3. QED
  BY <1>1, <1>2, CredentialIInvImplies, PTL DEF CredentialSpec
=============================================================================
