----------------------- MODULE VerificationJobs_proofs -----------------------
(* What VerificationJobs promises, for any handlers, jobs and repositories. *)
(* The inductive invariant says who holds the lock, and what the one that   *)
(* holds it may believe of the records and of the scratch directories.      *)
EXTENDS VerificationJobs, FiniteSetTheorems, TLAPS

JobRecord == [status : {"none"} \cup Active \cup Final, intent : SUBSET Repo, old : BOOLEAN]

TypeFiles ==
    /\ rec \in [Job -> JobRecord]
    /\ scratch \in [Job -> [Repo -> {"none", "bare", "owned", "full"}]]

TypeHandlers ==
    /\ handler \in [Handler -> [pc : {"idle", "admit", "sweep", "spawn", "test", "testing"},
                                job : Job \cup {None}, todo : SUBSET Job]]
    /\ \A h \in Handler : handler[h].pc # "idle" => handler[h].job \in Job

Progress == [pc : {"none", "begin", "intent", "mkdir", "mark", "restore", "restoring", "clean", "finish"},
             at : Repo, ok : BOOLEAN]

TypeKids ==
    /\ kid \in [Job -> Progress]
    /\ restic \in [Job -> Repo \cup {None}]

TypeLock == holders \subseteq (Job \cup {None}) \X {"server", "child", "restic"}

TypeFaults == faults \in 0..MaxFaults

Types == TypeFiles /\ TypeHandlers /\ TypeKids /\ TypeLock /\ TypeFaults

(* Whoever relies on the lock has the description open ...                  *)
Holds(h) == handler[h].pc \in {"sweep", "spawn", "testing"}
Works(j) == kid[j].pc # "none" \/ restic[j] # None

Held ==
    /\ \A h \in Handler : Holds(h) => Server \in holders
    /\ \A j \in Job : kid[j].pc # "none" => <<j, "child">> \in holders
    /\ \A j \in Job : restic[j] # None => <<j, "restic">> \in holders

(* ... and it is one handler, or the child and the restic of one job.       *)
Exclusive ==
    /\ \A h, g \in Handler : Holds(h) /\ Holds(g) => h = g
    /\ \A j, k \in Job : Works(j) /\ Works(k) => j = k
    /\ \A h \in Handler, j \in Job : ~(Holds(h) /\ Works(j))

Locked == Held /\ Exclusive

(* What a handler has swept is clean, so that it may write a new record.    *)
SweptIsClean ==
    \A h \in Handler : handler[h].pc \in {"sweep", "spawn"} =>
       \A j \in Job \ handler[h].todo : \A i \in Repo : scratch[j][i] = "none"

(* A child has noted the directories it is about to use.                    *)
IntentFirst ==
    \A j \in Job :
       /\ kid[j].pc = "begin" => kid[j].at = 1
       /\ kid[j].pc = "intent" => \A i \in Repo : i < kid[j].at => i \in rec[j].intent
       /\ kid[j].pc \in {"mkdir", "mark"} => \A i \in Repo : i <= kid[j].at => i \in rec[j].intent
       /\ kid[j].pc \in {"restore", "restoring"} => Repo \subseteq rec[j].intent

(* A job that is started, or about to be, has a record.                     *)
HasRecord ==
    /\ \A h \in Handler : handler[h].pc = "spawn" => rec[handler[h].job].status # "none"
    /\ \A j \in Job : kid[j].pc # "none" => rec[j].status # "none"
    /\ \A j \in Job : rec[j].status = "none" => rec[j].intent = {}

Named == ScratchIsNamed /\ SweptIsClean /\ IntentFirst /\ HasRecord

Bounded == IsFiniteSet(Records) /\ JobsBounded

(* A restic has its child waiting for it, or has outlived it.               *)
ResticIsWatched == \A j \in Job : restic[j] # None => kid[j].pc \in {"none", "restoring"}

IInv == Types /\ Locked /\ Named /\ Bounded /\ ResticIsWatched

-----------------------------------------------------------------------------
LEMMA InitIInv == Init => IInv
<1> SUFFICES ASSUME Init PROVE IInv
  OBVIOUS
<1>0. 1 \in Repo /\ 0 \in 0..MaxFaults
  BY BoundAssumption DEF Repo
<1>1. NoRecord \in JobRecord /\ Interrupted \in JobRecord /\ NoKid \in Progress
  BY <1>0 DEF NoRecord, Interrupted, JobRecord, NoKid, Progress, Active, Final
<1>2. Types
  BY <1>0, <1>1 DEF Init, Types, TypeFiles, TypeHandlers, TypeKids, TypeLock, TypeFaults,
     IdleHandler
<1>3. Locked
  BY DEF Init, Locked, Held, Exclusive, Holds, Works, IdleHandler, NoKid
<1>4. Named
  BY DEF Init, Named, ScratchIsNamed, SweptIsClean, IntentFirst, HasRecord, IdleHandler,
     NoKid, NoRecord, Interrupted
<1>5. Bounded
  <2>1. PICK first : Records \subseteq {first}
    <3>1. PICK left \in {{}, {CHOOSE j \in Job : TRUE}} :
             rec = [j \in Job |-> IF j \in left THEN Interrupted ELSE NoRecord]
      BY DEF Init
    <3>2. Records \subseteq {CHOOSE j \in Job : TRUE}
      BY <3>1 DEF Records, NoRecord
    <3>3. QED
      BY <3>2
  <2>2. IsFiniteSet({first}) /\ Cardinality({first}) = 1
    BY FS_Singleton
  <2> HIDE DEF Records
  <2>3. IsFiniteSet(Records) /\ Cardinality(Records) <= 1 /\ Cardinality(Records) \in Nat
    BY <2>1, <2>2, FS_Subset, FS_CardinalityType
  <2>4. QED
    BY <2>3, BoundAssumption DEF Bounded, JobsBounded
<1>6. ResticIsWatched
  BY DEF Init, ResticIsWatched
<1>7. QED
  BY <1>2, <1>3, <1>4, <1>5, <1>6 DEF IInv

-----------------------------------------------------------------------------
(* Types. *)
LEMMA FilesStep == Types /\ [Next]_vars => TypeFiles'
<1> SUFFICES ASSUME Types, [Next]_vars PROVE TypeFiles'
  OBVIOUS
<1> USE DEF Types, TypeFiles, UnchangedJobs, UnchangedServer
<1>0. \A r \in JobRecord :
         /\ Swept(r) \in JobRecord /\ [r EXCEPT !.old = TRUE] \in JobRecord
         /\ \A s \in Active \cup Final : [r EXCEPT !.status = s] \in JobRecord
         /\ \A i \in Repo : [r EXCEPT !.intent = r.intent \cup {i}] \in JobRecord
         /\ \A s \in Active \cup Final, d \in SUBSET Repo : [r EXCEPT !.status = s, !.intent = d] \in JobRecord
  BY DEF JobRecord, Swept, NoRecord, Active, Final
<1>1. ASSUME NEW h \in Handler, NEW j \in Job, Submit(h, j) PROVE TypeFiles'
  BY <1>1 DEF Submit
<1>2. ASSUME NEW h \in Handler, Admit(h) PROVE TypeFiles'
  BY <1>2 DEF Admit
<1>3. ASSUME NEW h \in Handler, NEW j \in Job, SweepScratch(h, j) PROVE TypeFiles'
  BY <1>3 DEF SweepScratch, CleanOne, Dirty, Emptier, JobRecord
<1>4. ASSUME NEW h \in Handler, NEW j \in Job, SweepRecord(h, j) PROVE TypeFiles'
  BY <1>0, <1>4 DEF SweepRecord
<1>5. ASSUME NEW h \in Handler, SweepFails(h) PROVE TypeFiles'
  BY <1>5 DEF SweepFails, Fault
<1>6. ASSUME NEW h \in Handler, Create(h) PROVE TypeFiles'
  <2>1. [NoRecord EXCEPT !.status = "queued"] \in JobRecord
    BY DEF NoRecord, JobRecord, Active
  <2>2. QED
    BY <1>6, <2>1 DEF Create
<1>7. ASSUME NEW h \in Handler, Spawn(h) PROVE TypeFiles'
  BY <1>7 DEF Spawn, NoKid
<1>8. ASSUME NEW h \in Handler, SpawnFails(h) PROVE TypeFiles'
  <2>1. rec' = [rec EXCEPT ![handler[h].job] = [@ EXCEPT !.status = "failed"]] /\ UNCHANGED scratch
    BY <1>8 DEF SpawnFails
  <2>2. QED
    BY <1>0, <2>1 DEF Final
<1>9. ASSUME NEW h \in Handler, NEW j \in Job, Poll(h, j) PROVE TypeFiles'
  BY <1>9 DEF Poll
<1>10. ASSUME NEW h \in Handler, PollTest(h) PROVE TypeFiles'
  BY <1>10 DEF PollTest
<1>11. ASSUME NEW h \in Handler, Polled(h) PROVE TypeFiles'
  BY <1>11 DEF Polled
<1>12. ASSUME NEW j \in Job, Start(j) PROVE TypeFiles'
  <2>1. rec' = [rec EXCEPT ![j] = [@ EXCEPT !.status = "running"]] /\ UNCHANGED scratch
    BY <1>12 DEF Start
  <2>2. QED
    BY <1>0, <2>1 DEF Active
<1>13. ASSUME NEW j \in Job, Intend(j) PROVE TypeFiles'
  <2>1. rec' = [rec EXCEPT ![j] = [rec[j] EXCEPT !.intent = rec[j].intent \cup {kid[j].at}]] /\ UNCHANGED scratch
    BY <1>13 DEF Intend
  <2>2. kid[j].at \in Repo
    BY DEF TypeKids, Progress
  <2>3. QED
    BY <1>0, <2>1, <2>2
<1>14. ASSUME NEW j \in Job, Mkdir(j) PROVE TypeFiles'
  BY <1>14 DEF Mkdir
<1>15. ASSUME NEW j \in Job, Mark(j) PROVE TypeFiles'
  BY <1>15 DEF Mark
<1>16. ASSUME NEW j \in Job, Restore(j) PROVE TypeFiles'
  BY <1>16 DEF Restore
<1>17. ASSUME NEW j \in Job, ResticEnds(j) PROVE TypeFiles'
  BY <1>17 DEF ResticEnds
<1>18. ASSUME NEW j \in Job, NEW ok \in BOOLEAN, Restored(j, ok) PROVE TypeFiles'
  BY <1>18 DEF Restored
<1>19. ASSUME NEW j \in Job, Refuse(j) PROVE TypeFiles'
  BY <1>19 DEF Refuse
<1>20. ASSUME NEW j \in Job, Clean(j) PROVE TypeFiles'
  <2>1. CASE UNCHANGED scratch
    BY <1>20, <2>1 DEF Clean
  <2>2. CASE CleanOne(j)
    BY <1>20, <2>2 DEF Clean, CleanOne, Dirty, Emptier, JobRecord
  <2>3. QED
    BY <1>20, <2>1, <2>2 DEF Clean
<1>21. ASSUME NEW j \in Job, CleanFails(j) PROVE TypeFiles'
  BY <1>21 DEF CleanFails, Fault, Dirty
<1>22. ASSUME NEW j \in Job, Finish(j) PROVE TypeFiles'
  <2>1. \A s \in {"verified", "failed"} :
          [rec[j] EXCEPT !.status = s, !.intent = Dirty(j)] \in JobRecord
    <3>1. rec[j] \in JobRecord
      OBVIOUS
    <3>2. Dirty(j) \in SUBSET Repo
      BY <3>1 DEF Dirty, JobRecord
    <3>3. QED
      BY <1>0, <3>1, <3>2 DEF Final
  <2>2. \E s \in {"verified", "failed"} :
          rec' = [rec EXCEPT ![j] = [@ EXCEPT !.status = s, !.intent = Dirty(j)]]
    BY <1>22 DEF Finish
  <2>3. QED
    BY <1>22, <2>1, <2>2 DEF Finish
<1>23. ASSUME NEW j \in Job, Expire(j) PROVE TypeFiles'
  <2>1. rec' = [rec EXCEPT ![j] = [@ EXCEPT !.old = TRUE]] /\ UNCHANGED scratch
    BY <1>23 DEF Expire
  <2>2. QED
    BY <1>0, <2>1
<1>24. CASE ServerDies
  BY <1>24 DEF ServerDies, Fault, IdleHandler
<1>25. ASSUME NEW j \in Job, KidDies(j) PROVE TypeFiles'
  BY <1>25 DEF KidDies, Fault, NoKid
<1>26. CASE UNCHANGED vars
  BY <1>26 DEF vars
<1>27. QED
  BY <1>1, <1>2, <1>3, <1>4, <1>5, <1>6, <1>7, <1>8, <1>9, <1>10, <1>11, <1>12, <1>13,
     <1>14, <1>15, <1>16, <1>17, <1>18, <1>19, <1>20, <1>21, <1>22, <1>23, <1>24, <1>25,
     <1>26 DEF Next, Handle, Work

LEMMA HandlersStep == Types /\ [Next]_vars => TypeHandlers'
<1> SUFFICES ASSUME Types, [Next]_vars PROVE TypeHandlers'
  OBVIOUS
<1> USE DEF Types, TypeHandlers, IdleHandler, Goto, Return, UnchangedJobs, UnchangedServer
<1>1. ASSUME NEW h \in Handler, NEW j \in Job, Submit(h, j) PROVE TypeHandlers'
  BY <1>1 DEF Submit
<1>2. ASSUME NEW h \in Handler, Admit(h) PROVE TypeHandlers'
  BY <1>2 DEF Admit, Records
<1>3. ASSUME NEW h \in Handler, NEW j \in Job, SweepScratch(h, j) PROVE TypeHandlers'
  BY <1>3 DEF SweepScratch, CleanOne, Dirty, Emptier
<1>4. ASSUME NEW h \in Handler, NEW j \in Job, SweepRecord(h, j) PROVE TypeHandlers'
  BY <1>4 DEF SweepRecord, Swept, NoRecord, Dirty
<1>5. ASSUME NEW h \in Handler, SweepFails(h) PROVE TypeHandlers'
  BY <1>5 DEF SweepFails, Fault
<1>6. ASSUME NEW h \in Handler, Create(h) PROVE TypeHandlers'
  BY <1>6 DEF Create, NoRecord
<1>7. ASSUME NEW h \in Handler, Spawn(h) PROVE TypeHandlers'
  BY <1>7 DEF Spawn, NoKid
<1>8. ASSUME NEW h \in Handler, SpawnFails(h) PROVE TypeHandlers'
  BY <1>8 DEF SpawnFails, Fault
<1>9. ASSUME NEW h \in Handler, NEW j \in Job, Poll(h, j) PROVE TypeHandlers'
  BY <1>9 DEF Poll
<1>10. ASSUME NEW h \in Handler, PollTest(h) PROVE TypeHandlers'
  BY <1>10 DEF PollTest
<1>11. ASSUME NEW h \in Handler, Polled(h) PROVE TypeHandlers'
  BY <1>11 DEF Polled
<1>12. ASSUME NEW j \in Job, Start(j) PROVE TypeHandlers'
  BY <1>12 DEF Start
<1>13. ASSUME NEW j \in Job, Intend(j) PROVE TypeHandlers'
  BY <1>13 DEF Intend
<1>14. ASSUME NEW j \in Job, Mkdir(j) PROVE TypeHandlers'
  BY <1>14 DEF Mkdir
<1>15. ASSUME NEW j \in Job, Mark(j) PROVE TypeHandlers'
  BY <1>15 DEF Mark
<1>16. ASSUME NEW j \in Job, Restore(j) PROVE TypeHandlers'
  BY <1>16 DEF Restore
<1>17. ASSUME NEW j \in Job, ResticEnds(j) PROVE TypeHandlers'
  BY <1>17 DEF ResticEnds
<1>18. ASSUME NEW j \in Job, NEW ok \in BOOLEAN, Restored(j, ok) PROVE TypeHandlers'
  BY <1>18 DEF Restored
<1>19. ASSUME NEW j \in Job, Refuse(j) PROVE TypeHandlers'
  BY <1>19 DEF Refuse
<1>20. ASSUME NEW j \in Job, Clean(j) PROVE TypeHandlers'
  BY <1>20 DEF Clean, CleanOne, Dirty, Emptier
<1>21. ASSUME NEW j \in Job, CleanFails(j) PROVE TypeHandlers'
  BY <1>21 DEF CleanFails, Fault, Dirty
<1>22. ASSUME NEW j \in Job, Finish(j) PROVE TypeHandlers'
  BY <1>22 DEF Finish, NoKid, Dirty
<1>23. ASSUME NEW j \in Job, Expire(j) PROVE TypeHandlers'
  BY <1>23 DEF Expire
<1>24. CASE ServerDies
  BY <1>24 DEF ServerDies, Fault, IdleHandler
<1>25. ASSUME NEW j \in Job, KidDies(j) PROVE TypeHandlers'
  BY <1>25 DEF KidDies, Fault, NoKid
<1>26. CASE UNCHANGED vars
  BY <1>26 DEF vars
<1>27. QED
  BY <1>1, <1>2, <1>3, <1>4, <1>5, <1>6, <1>7, <1>8, <1>9, <1>10, <1>11, <1>12, <1>13,
     <1>14, <1>15, <1>16, <1>17, <1>18, <1>19, <1>20, <1>21, <1>22, <1>23, <1>24, <1>25,
     <1>26 DEF Next, Handle, Work

LEMMA KidsStep == Types /\ [Next]_vars => TypeKids'
<1> SUFFICES ASSUME Types, [Next]_vars PROVE TypeKids'
  OBVIOUS
<1> USE DEF Types, TypeKids, KidAt, UnchangedJobs, UnchangedServer
<1>0. /\ \A k \in Progress : \A pc \in {"intent", "mkdir", "mark", "restoring", "finish"} :
            [k EXCEPT !.pc = pc] \in Progress
      /\ \A k \in Progress : \A pc \in {"clean", "finish"}, ok \in BOOLEAN :
            [k EXCEPT !.pc = pc, !.ok = ok] \in Progress
      /\ \A k \in Progress : \A pc \in {"intent", "restore"}, i \in Repo :
            [k EXCEPT !.pc = pc, !.at = i] \in Progress
  BY DEF Progress
<1>1. 1 \in Repo /\ \A i \in Repo : i < Repositories => i + 1 \in Repo
  BY BoundAssumption DEF Repo
<1>2. NoKid \in Progress /\ [NoKid EXCEPT !.pc = "begin"] \in Progress
  BY <1>1 DEF NoKid, Progress
<1>3. \A j \in Job : kid[j].at \in Repo
  BY DEF Progress
<1> HIDE DEF Repo
<1>4. ASSUME NEW h \in Handler, NEW j \in Job, Submit(h, j) PROVE TypeKids'
  BY <1>4 DEF Submit
<1>5. ASSUME NEW h \in Handler, Admit(h) PROVE TypeKids'
  BY <1>5 DEF Admit
<1>6. ASSUME NEW h \in Handler, NEW j \in Job, SweepScratch(h, j) PROVE TypeKids'
  BY <1>6 DEF SweepScratch, CleanOne, Dirty, Emptier
<1>7. ASSUME NEW h \in Handler, NEW j \in Job, SweepRecord(h, j) PROVE TypeKids'
  BY <1>7 DEF SweepRecord, Swept, NoRecord, Dirty
<1>8. ASSUME NEW h \in Handler, SweepFails(h) PROVE TypeKids'
  BY <1>8 DEF SweepFails, Fault
<1>9. ASSUME NEW h \in Handler, Create(h) PROVE TypeKids'
  BY <1>9 DEF Create, NoRecord
<1>10. ASSUME NEW h \in Handler, Spawn(h) PROVE TypeKids'
  BY <1>2, <1>10 DEF Spawn, TypeHandlers
<1>11. ASSUME NEW h \in Handler, SpawnFails(h) PROVE TypeKids'
  BY <1>11 DEF SpawnFails, Fault
<1>12. ASSUME NEW h \in Handler, NEW j \in Job, Poll(h, j) PROVE TypeKids'
  BY <1>12 DEF Poll
<1>13. ASSUME NEW h \in Handler, PollTest(h) PROVE TypeKids'
  BY <1>13 DEF PollTest
<1>14. ASSUME NEW h \in Handler, Polled(h) PROVE TypeKids'
  BY <1>14 DEF Polled
<1>15. ASSUME NEW j \in Job, Start(j) PROVE TypeKids'
  BY <1>15, <1>0 DEF Start
<1>16. ASSUME NEW j \in Job, Intend(j) PROVE TypeKids'
  BY <1>16, <1>0 DEF Intend
<1>17. ASSUME NEW j \in Job, Mkdir(j) PROVE TypeKids'
  BY <1>17, <1>0 DEF Mkdir
<1>18. ASSUME NEW j \in Job, Mark(j) PROVE TypeKids'
  <2> DEFINE onward == [kid[j] EXCEPT !.pc = "intent", !.at = kid[j].at + 1]
             restore == [kid[j] EXCEPT !.pc = "restore", !.at = 1]
  <2>1. restore \in Progress /\ (kid[j].at < Repositories => onward \in Progress)
    BY <1>0, <1>1, <1>3
  <2>2. kid'= [kid EXCEPT ![j] = IF kid[j].at < Repositories THEN onward ELSE restore]
    BY <1>18 DEF Mark
  <2>3. restic' = restic
    BY <1>18 DEF Mark
  <2> HIDE DEF onward, restore
  <2>4. QED
    BY <2>1, <2>2, <2>3
<1>19. ASSUME NEW j \in Job, Restore(j) PROVE TypeKids'
  BY <1>19, <1>0, <1>3 DEF Restore
<1>20. ASSUME NEW j \in Job, ResticEnds(j) PROVE TypeKids'
  BY <1>20 DEF ResticEnds
<1>21. ASSUME NEW j \in Job, NEW ok \in BOOLEAN, Restored(j, ok) PROVE TypeKids'
  <2> DEFINE onward == [kid[j] EXCEPT !.pc = "restore", !.at = kid[j].at + 1]
             clean == [kid[j] EXCEPT !.pc = "clean", !.ok = ok]
  <2>1. clean \in Progress /\ (kid[j].at < Repositories => onward \in Progress)
    BY <1>0, <1>1, <1>3
  <2>2. kid'= [kid EXCEPT ![j] = IF ok /\ kid[j].at < Repositories THEN onward ELSE clean]
    BY <1>21 DEF Restored
  <2>3. restic' = restic
    BY <1>21 DEF Restored
  <2> HIDE DEF onward, clean
  <2>4. QED
    BY <2>1, <2>2, <2>3
<1>22. ASSUME NEW j \in Job, Refuse(j) PROVE TypeKids'
  <2>1. kid' = [kid EXCEPT ![j] = [@ EXCEPT !.pc = "clean", !.ok = FALSE]] /\ UNCHANGED restic
    BY <1>22 DEF Refuse
  <2>2. QED
    BY <1>0, <2>1
<1>23. ASSUME NEW j \in Job, Clean(j) PROVE TypeKids'
  <2>1. CASE UNCHANGED <<kid, restic>>
    BY <2>1
  <2>2. CASE KidAt(j, "finish") /\ UNCHANGED restic
    BY <1>0, <2>2
  <2>3. QED
    BY <1>23, <2>1, <2>2 DEF Clean
<1>24. ASSUME NEW j \in Job, CleanFails(j) PROVE TypeKids'
  <2>1. kid' = [kid EXCEPT ![j] = [@ EXCEPT !.pc = "finish", !.ok = FALSE]] /\ UNCHANGED restic
    BY <1>24 DEF CleanFails
  <2>2. QED
    BY <1>0, <2>1
<1>25. ASSUME NEW j \in Job, Finish(j) PROVE TypeKids'
  BY <1>2, <1>25 DEF Finish
<1>26. ASSUME NEW j \in Job, Expire(j) PROVE TypeKids'
  BY <1>26 DEF Expire
<1>27. CASE ServerDies
  BY <1>27 DEF ServerDies, Fault, IdleHandler
<1>28. ASSUME NEW j \in Job, KidDies(j) PROVE TypeKids'
  BY <1>2, <1>28 DEF KidDies
<1>29. CASE UNCHANGED vars
  BY <1>29 DEF vars
<1>30. QED
  BY <1>4, <1>5, <1>6, <1>7, <1>8, <1>9, <1>10, <1>11, <1>12, <1>13, <1>14, <1>15, <1>16,
     <1>17, <1>18, <1>19, <1>20, <1>21, <1>22, <1>23, <1>24, <1>25, <1>26, <1>27, <1>28,
     <1>29 DEF Next, Handle, Work

LEMMA LockTypeStep == Types /\ [Next]_vars => TypeLock'
<1> SUFFICES ASSUME Types, [Next]_vars PROVE TypeLock'
  OBVIOUS
<1> USE DEF Types, TypeLock, TypeHandlers, Server, UnchangedJobs, UnchangedServer
<1>1. ASSUME NEW h \in Handler, NEW j \in Job, Submit(h, j) PROVE TypeLock'
  BY <1>1 DEF Submit
<1>2. ASSUME NEW h \in Handler, Admit(h) PROVE TypeLock'
  BY <1>2 DEF Admit
<1>3. ASSUME NEW h \in Handler, NEW j \in Job, SweepScratch(h, j) PROVE TypeLock'
  BY <1>3 DEF SweepScratch, CleanOne, Dirty, Emptier
<1>4. ASSUME NEW h \in Handler, NEW j \in Job, SweepRecord(h, j) PROVE TypeLock'
  BY <1>4 DEF SweepRecord, Swept, NoRecord, Dirty
<1>5. ASSUME NEW h \in Handler, SweepFails(h) PROVE TypeLock'
  BY <1>5 DEF SweepFails
<1>6. ASSUME NEW h \in Handler, Create(h) PROVE TypeLock'
  BY <1>6 DEF Create, NoRecord
<1>7. ASSUME NEW h \in Handler, Spawn(h) PROVE TypeLock'
  BY <1>7 DEF Spawn, NoKid
<1>8. ASSUME NEW h \in Handler, SpawnFails(h) PROVE TypeLock'
  BY <1>8 DEF SpawnFails
<1>9. ASSUME NEW h \in Handler, NEW j \in Job, Poll(h, j) PROVE TypeLock'
  BY <1>9 DEF Poll
<1>10. ASSUME NEW h \in Handler, PollTest(h) PROVE TypeLock'
  BY <1>10 DEF PollTest
<1>11. ASSUME NEW h \in Handler, Polled(h) PROVE TypeLock'
  BY <1>11 DEF Polled
<1>12. ASSUME NEW j \in Job, Start(j) PROVE TypeLock'
  BY <1>12 DEF Start
<1>13. ASSUME NEW j \in Job, Intend(j) PROVE TypeLock'
  BY <1>13 DEF Intend
<1>14. ASSUME NEW j \in Job, Mkdir(j) PROVE TypeLock'
  BY <1>14 DEF Mkdir
<1>15. ASSUME NEW j \in Job, Mark(j) PROVE TypeLock'
  BY <1>15 DEF Mark
<1>16. ASSUME NEW j \in Job, Restore(j) PROVE TypeLock'
  BY <1>16 DEF Restore
<1>17. ASSUME NEW j \in Job, ResticEnds(j) PROVE TypeLock'
  BY <1>17 DEF ResticEnds
<1>18. ASSUME NEW j \in Job, NEW ok \in BOOLEAN, Restored(j, ok) PROVE TypeLock'
  BY <1>18 DEF Restored
<1>19. ASSUME NEW j \in Job, Refuse(j) PROVE TypeLock'
  BY <1>19 DEF Refuse
<1>20. ASSUME NEW j \in Job, Clean(j) PROVE TypeLock'
  BY <1>20 DEF Clean, CleanOne, Dirty, Emptier
<1>21. ASSUME NEW j \in Job, CleanFails(j) PROVE TypeLock'
  BY <1>21 DEF CleanFails
<1>22. ASSUME NEW j \in Job, Finish(j) PROVE TypeLock'
  BY <1>22 DEF Finish, NoKid, Dirty
<1>23. ASSUME NEW j \in Job, Expire(j) PROVE TypeLock'
  BY <1>23 DEF Expire
<1>24. CASE ServerDies
  BY <1>24 DEF ServerDies
<1>25. ASSUME NEW j \in Job, KidDies(j) PROVE TypeLock'
  BY <1>25 DEF KidDies
<1>26. CASE UNCHANGED vars
  BY <1>26 DEF vars
<1>27. QED
  BY <1>1, <1>2, <1>3, <1>4, <1>5, <1>6, <1>7, <1>8, <1>9, <1>10, <1>11, <1>12, <1>13,
     <1>14, <1>15, <1>16, <1>17, <1>18, <1>19, <1>20, <1>21, <1>22, <1>23, <1>24, <1>25,
     <1>26 DEF Next, Handle, Work

-----------------------------------------------------------------------------
(* The lock goes from the handler to its child and from there to restic;    *)
(* it is only given to who finds nobody.                                    *)
LEMMA FaultsStep == TypeFaults /\ [Next]_vars => TypeFaults'
<1> SUFFICES ASSUME TypeFaults, [Next]_vars PROVE TypeFaults'
  OBVIOUS
<1>1. Fault \/ faults' = faults
  BY DEF Next, Handle, Work, vars, UnchangedJobs, UnchangedServer, Submit, Admit,
     SweepScratch, SweepRecord, SweepFails, Create, Spawn, SpawnFails, Poll, PollTest,
     Polled, Start, Intend, Mkdir, Mark, Restore, ResticEnds, Restored, Refuse, Clean,
     CleanFails, Finish, Expire, ServerDies, KidDies
<1>2. QED
  BY <1>1, BoundAssumption DEF TypeFaults, Fault

LEMMA LockedStep == Types /\ Locked /\ [Next]_vars => Locked'
<1> SUFFICES ASSUME Types, Locked, [Next]_vars PROVE Held' /\ Exclusive'
  BY DEF Locked
<1> USE DEF Types, TypeHandlers, TypeKids, Progress, Locked, Held, Exclusive, Holds, Works,
            Goto, Return, KidAt, UnchangedJobs, UnchangedServer
<1>1. ASSUME NEW h \in Handler, NEW j \in Job, Submit(h, j) PROVE Held' /\ Exclusive'
  <2>1. Held'
    BY <1>1 DEF Submit
  <2>2. Exclusive'
    BY <1>1 DEF Submit
  <2>3. QED
    BY <2>1, <2>2
<1>2. ASSUME NEW h \in Handler, Admit(h) PROVE Held' /\ Exclusive'
  <2>1. CASE holders = {} /\ Cardinality(Records) <= MaxJobs
    <3>1. Server \in holders' /\ UNCHANGED <<kid, restic>>
      BY <1>2, <2>1 DEF Admit
    <3>2. \A g \in Handler : ~Holds(g)
      BY <2>1
    <3>3. \A g \in Handler \ {h} : handler'[g] = handler[g]
      BY <1>2, <2>1 DEF Admit
    <3>4. \A j \in Job : ~Works(j)
      BY <2>1
    <3>5. QED
      BY <3>1, <3>2, <3>3, <3>4
  <2>2. CASE Return(h) /\ UNCHANGED <<holders, kid, restic>>
    BY <2>2 DEF IdleHandler
  <2>3. QED
    BY <1>2, <2>1, <2>2 DEF Admit
<1>3. ASSUME NEW h \in Handler, NEW j \in Job, SweepScratch(h, j) PROVE Held' /\ Exclusive'
  BY <1>3 DEF SweepScratch, CleanOne, Dirty, Emptier
<1>4. ASSUME NEW h \in Handler, NEW j \in Job, SweepRecord(h, j) PROVE Held' /\ Exclusive'
  <2>1. Held'
    BY <1>4 DEF SweepRecord, Swept, NoRecord, Dirty
  <2>2. Exclusive'
    BY <1>4 DEF SweepRecord, Swept, NoRecord, Dirty
  <2>3. QED
    BY <2>1, <2>2
<1>5. ASSUME NEW h \in Handler, SweepFails(h) PROVE Held' /\ Exclusive'
  BY <1>5 DEF SweepFails, Fault, IdleHandler, Server
<1>6. ASSUME NEW h \in Handler, Create(h) PROVE Held' /\ Exclusive'
  <2>1. CASE Return(h) /\ holders' = holders \ {Server} /\ UNCHANGED <<kid, restic>>
    BY <1>6, <2>1 DEF IdleHandler, Server, Create
  <2>2. CASE Goto(h, "spawn") /\ UNCHANGED <<holders, kid, restic>>
    BY <1>6, <2>2 DEF Create
  <2>3. QED
    BY <1>6, <2>1, <2>2 DEF Create
<1>7. ASSUME NEW h \in Handler, Spawn(h) PROVE Held' /\ Exclusive'
  BY <1>7 DEF Spawn, NoKid, IdleHandler, Server
<1>8. ASSUME NEW h \in Handler, SpawnFails(h) PROVE Held' /\ Exclusive'
  BY <1>8 DEF SpawnFails, Fault, IdleHandler, Server
<1>9. ASSUME NEW h \in Handler, NEW j \in Job, Poll(h, j) PROVE Held' /\ Exclusive'
  <2>1. Held'
    BY <1>9 DEF Poll
  <2>2. Exclusive'
    BY <1>9 DEF Poll
  <2>3. QED
    BY <2>1, <2>2
<1>10. ASSUME NEW h \in Handler, PollTest(h) PROVE Held' /\ Exclusive'
  <2>1. CASE holders = {}
    <3>1. Server \in holders' /\ UNCHANGED <<kid, restic>>
      BY <1>10, <2>1 DEF PollTest
    <3>2. \A g \in Handler : ~Holds(g)
      BY <2>1
    <3>3. \A g \in Handler \ {h} : handler'[g] = handler[g]
      BY <1>10, <2>1 DEF PollTest
    <3>4. \A j \in Job : ~Works(j)
      BY <2>1
    <3>5. QED
      BY <3>1, <3>2, <3>3, <3>4
  <2>2. CASE Return(h) /\ UNCHANGED <<holders, kid, restic>>
    BY <2>2 DEF IdleHandler
  <2>3. QED
    BY <1>10, <2>1, <2>2 DEF PollTest
<1>11. ASSUME NEW h \in Handler, Polled(h) PROVE Held' /\ Exclusive'
  BY <1>11 DEF Polled, IdleHandler, Server
<1>12. ASSUME NEW j \in Job, Start(j) PROVE Held' /\ Exclusive'
  BY <1>12 DEF Start
<1>13. ASSUME NEW j \in Job, Intend(j) PROVE Held' /\ Exclusive'
  BY <1>13 DEF Intend
<1>14. ASSUME NEW j \in Job, Mkdir(j) PROVE Held' /\ Exclusive'
  BY <1>14 DEF Mkdir
<1>15. ASSUME NEW j \in Job, Mark(j) PROVE Held' /\ Exclusive'
  BY <1>15 DEF Mark
<1>16. ASSUME NEW j \in Job, Restore(j) PROVE Held' /\ Exclusive'
  BY <1>16 DEF Restore
<1>17. ASSUME NEW j \in Job, ResticEnds(j) PROVE Held' /\ Exclusive'
  BY <1>17 DEF ResticEnds
<1>18. ASSUME NEW j \in Job, NEW ok \in BOOLEAN, Restored(j, ok) PROVE Held' /\ Exclusive'
  BY <1>18 DEF Restored
<1>19. ASSUME NEW j \in Job, Refuse(j) PROVE Held' /\ Exclusive'
  BY <1>19 DEF Refuse
<1>20. ASSUME NEW j \in Job, Clean(j) PROVE Held' /\ Exclusive'
  BY <1>20 DEF Clean, CleanOne, Dirty, Emptier
<1>21. ASSUME NEW j \in Job, CleanFails(j) PROVE Held' /\ Exclusive'
  BY <1>21 DEF CleanFails, Fault, Dirty
<1>22. ASSUME NEW j \in Job, Finish(j) PROVE Held' /\ Exclusive'
  BY <1>22 DEF Finish, NoKid, Dirty
<1>23. ASSUME NEW j \in Job, Expire(j) PROVE Held' /\ Exclusive'
  BY <1>23 DEF Expire
<1>24. CASE ServerDies
  BY <1>24 DEF ServerDies, Fault, IdleHandler, Server
<1>25. ASSUME NEW j \in Job, KidDies(j) PROVE Held' /\ Exclusive'
  BY <1>25 DEF KidDies, Fault, NoKid
<1>26. CASE UNCHANGED vars
  BY <1>26 DEF vars
<1> HIDE DEF Types, TypeHandlers, TypeKids, Progress, Locked, Held, Exclusive, Holds,
             Works, Goto, Return, KidAt, UnchangedJobs, UnchangedServer
<1>27. QED
  BY <1>1, <1>2, <1>3, <1>4, <1>5, <1>6, <1>7, <1>8, <1>9, <1>10, <1>11, <1>12, <1>13,
     <1>14, <1>15, <1>16, <1>17, <1>18, <1>19, <1>20, <1>21, <1>22, <1>23, <1>24, <1>25,
     <1>26 DEF Next, Handle, Work

-----------------------------------------------------------------------------
(* Scratch directories stay named, whoever dies.                            *)
LEMMA ScratchStep == Types /\ Locked /\ Named /\ [Next]_vars => ScratchIsNamed'
<1> SUFFICES ASSUME Types, Locked, Named, [Next]_vars PROVE ScratchIsNamed'
  OBVIOUS
<1> USE DEF Types, TypeFiles, JobRecord, TypeHandlers, TypeKids, Progress, Locked,
            Exclusive, Holds, Works, Named, ScratchIsNamed, UnchangedJobs, UnchangedServer
<1>1. ASSUME NEW h \in Handler, NEW j \in Job, Submit(h, j) \/ Poll(h, j) PROVE
      ScratchIsNamed'
  BY <1>1 DEF Submit, Poll
<1>2. ASSUME NEW h \in Handler, Admit(h) PROVE ScratchIsNamed'
  BY <1>2 DEF Admit
<1>3. ASSUME NEW h \in Handler, NEW j \in Job, SweepScratch(h, j) PROVE ScratchIsNamed'
  BY <1>3 DEF SweepScratch, CleanOne, Dirty, Emptier
<1>4. ASSUME NEW h \in Handler, NEW j \in Job, SweepRecord(h, j) PROVE ScratchIsNamed'
  BY <1>4 DEF SweepRecord, Swept, NoRecord, Dirty
<1>5. ASSUME NEW h \in Handler, SweepFails(h) PROVE ScratchIsNamed'
  BY <1>5 DEF SweepFails, Fault
<1>6. ASSUME NEW h \in Handler, Create(h) PROVE ScratchIsNamed'
  <2>1. CASE UNCHANGED <<rec, scratch>>
    BY <2>1
  <2>2. CASE rec' = [rec EXCEPT ![handler[h].job] = [NoRecord EXCEPT !.status = "queued"]] /\ UNCHANGED scratch
    <3>1. \A j \in Job, i \in Repo : scratch'[j][i] = "none"
      BY <1>6, <2>2 DEF Create, SweptIsClean
    <3>2. QED
      BY <3>1
  <2>3. QED
    BY <1>6, <2>1, <2>2 DEF Create
<1>7. ASSUME NEW h \in Handler, Spawn(h) PROVE ScratchIsNamed'
  BY <1>7 DEF Spawn, NoKid
<1>8. ASSUME NEW h \in Handler, SpawnFails(h) PROVE ScratchIsNamed'
  BY <1>8 DEF SpawnFails, Fault
<1>9. ASSUME NEW h \in Handler, PollTest(h) PROVE ScratchIsNamed'
  BY <1>9 DEF PollTest
<1>10. ASSUME NEW h \in Handler, Polled(h) PROVE ScratchIsNamed'
  BY <1>10 DEF Polled
<1>11. ASSUME NEW j \in Job, Start(j) PROVE ScratchIsNamed'
  BY <1>11 DEF Start
<1>12. ASSUME NEW j \in Job, Intend(j) PROVE ScratchIsNamed'
  BY <1>12 DEF Intend
<1>13. ASSUME NEW j \in Job, Mkdir(j) PROVE ScratchIsNamed'
  BY <1>13 DEF Mkdir, IntentFirst, Repo
<1>14. ASSUME NEW j \in Job, Mark(j) PROVE ScratchIsNamed'
  BY <1>14 DEF Mark, IntentFirst, Repo
<1>15. ASSUME NEW j \in Job, Restore(j) PROVE ScratchIsNamed'
  BY <1>15 DEF Restore, IntentFirst
<1>16. ASSUME NEW j \in Job, ResticEnds(j) PROVE ScratchIsNamed'
  BY <1>16 DEF ResticEnds
<1>17. ASSUME NEW j \in Job, NEW ok \in BOOLEAN, Restored(j, ok) PROVE ScratchIsNamed'
  BY <1>17 DEF Restored, IntentFirst
<1>18. ASSUME NEW j \in Job, Refuse(j) PROVE ScratchIsNamed'
  BY <1>18 DEF Refuse
<1>19. ASSUME NEW j \in Job, Clean(j) PROVE ScratchIsNamed'
  <2>1. CASE CleanOne(j) /\ UNCHANGED rec
    BY <2>1 DEF CleanOne, Dirty, Emptier
  <2>2. CASE UNCHANGED <<rec, scratch>>
    BY <2>2
  <2>3. QED
    BY <1>19, <2>1, <2>2 DEF Clean
<1>20. ASSUME NEW j \in Job, CleanFails(j) PROVE ScratchIsNamed'
  BY <1>20 DEF CleanFails, Fault, Dirty
<1>21. ASSUME NEW j \in Job, Finish(j) PROVE ScratchIsNamed'
  BY <1>21 DEF Finish, NoKid, Dirty
<1>22. ASSUME NEW j \in Job, Expire(j) PROVE ScratchIsNamed'
  BY <1>22 DEF Expire
<1>23. CASE ServerDies
  BY <1>23 DEF ServerDies, Fault, IdleHandler
<1>24. ASSUME NEW j \in Job, KidDies(j) PROVE ScratchIsNamed'
  BY <1>24 DEF KidDies, Fault, NoKid
<1>25. CASE UNCHANGED vars
  BY <1>25 DEF vars
<1>26. QED
  BY <1>1, <1>2, <1>3, <1>4, <1>5, <1>6, <1>7, <1>8, <1>9, <1>10, <1>11, <1>12, <1>13,
     <1>14, <1>15, <1>16, <1>17, <1>18, <1>19, <1>20, <1>21, <1>22, <1>23, <1>24, <1>25 DEF
     Next, Handle, Work

(* While a handler sweeps nobody else writes, and what it is through with   *)
(* has no scratch; a record without scratch is all that it ever removes.    *)
LEMMA SweptStep == Types /\ Locked /\ Named /\ [Next]_vars => SweptIsClean'
<1> SUFFICES ASSUME Types, Locked, Named, [Next]_vars PROVE SweptIsClean'
  OBVIOUS
<1> USE DEF Types, TypeFiles, TypeHandlers, TypeKids, Locked, Exclusive, Holds, Works,
            Named, SweptIsClean, Goto, Return, UnchangedJobs, UnchangedServer
<1>1. ASSUME NEW h \in Handler, NEW j \in Job, Submit(h, j) PROVE SweptIsClean'
  BY <1>1 DEF Submit
<1>2. ASSUME NEW h \in Handler, Admit(h) PROVE SweptIsClean'
  <2>1. CASE Return(h) /\ UNCHANGED scratch
    BY <2>1 DEF IdleHandler
  <2>2. CASE handler' = [handler EXCEPT ![h].pc = "sweep", ![h].todo = Records] /\ UNCHANGED scratch
    <3>1. \A j \in Job \ Records : \A i \in Repo : scratch[j][i] = "none"
      BY DEF Records, HasRecord, ScratchIsNamed
    <3> HIDE DEF Records
    <3>2. QED
      BY <2>2, <3>1
  <2>3. QED
    BY <1>2, <2>1, <2>2 DEF Admit
<1>3. ASSUME NEW h \in Handler, NEW j \in Job, SweepScratch(h, j) PROVE SweptIsClean'
  BY <1>3 DEF SweepScratch, CleanOne, Dirty, Emptier
<1>4. ASSUME NEW h \in Handler, NEW j \in Job, SweepRecord(h, j) PROVE SweptIsClean'
  BY <1>4 DEF SweepRecord, Swept, NoRecord, Dirty, ScratchIsNamed
<1>5. ASSUME NEW h \in Handler, SweepFails(h) PROVE SweptIsClean'
  BY <1>5 DEF SweepFails, Fault, IdleHandler
<1>6. ASSUME NEW h \in Handler, Create(h) PROVE SweptIsClean'
  BY <1>6 DEF Create, NoRecord, IdleHandler
<1>7. ASSUME NEW h \in Handler, Spawn(h) PROVE SweptIsClean'
  BY <1>7 DEF Spawn, NoKid, IdleHandler
<1>8. ASSUME NEW h \in Handler, SpawnFails(h) PROVE SweptIsClean'
  BY <1>8 DEF SpawnFails, Fault, IdleHandler
<1>9. ASSUME NEW h \in Handler, NEW j \in Job, Poll(h, j) PROVE SweptIsClean'
  BY <1>9 DEF Poll
<1>10. ASSUME NEW h \in Handler, PollTest(h) PROVE SweptIsClean'
  BY <1>10 DEF PollTest, IdleHandler
<1>11. ASSUME NEW h \in Handler, Polled(h) PROVE SweptIsClean'
  BY <1>11 DEF Polled, IdleHandler
<1>12. ASSUME NEW j \in Job, Start(j) PROVE SweptIsClean'
  BY <1>12 DEF Start
<1>13. ASSUME NEW j \in Job, Intend(j) PROVE SweptIsClean'
  BY <1>13 DEF Intend
<1>14. ASSUME NEW j \in Job, Mkdir(j) PROVE SweptIsClean'
  BY <1>14 DEF Mkdir
<1>15. ASSUME NEW j \in Job, Mark(j) PROVE SweptIsClean'
  BY <1>15 DEF Mark
<1>16. ASSUME NEW j \in Job, Restore(j) PROVE SweptIsClean'
  BY <1>16 DEF Restore
<1>17. ASSUME NEW j \in Job, ResticEnds(j) PROVE SweptIsClean'
  BY <1>17 DEF ResticEnds
<1>18. ASSUME NEW j \in Job, NEW ok \in BOOLEAN, Restored(j, ok) PROVE SweptIsClean'
  BY <1>18 DEF Restored
<1>19. ASSUME NEW j \in Job, Refuse(j) PROVE SweptIsClean'
  BY <1>19 DEF Refuse
<1>20. ASSUME NEW j \in Job, Clean(j) PROVE SweptIsClean'
  BY <1>20 DEF Clean, CleanOne, Dirty, Emptier
<1>21. ASSUME NEW j \in Job, CleanFails(j) PROVE SweptIsClean'
  BY <1>21 DEF CleanFails, Fault, Dirty
<1>22. ASSUME NEW j \in Job, Finish(j) PROVE SweptIsClean'
  BY <1>22 DEF Finish, NoKid, Dirty
<1>23. ASSUME NEW j \in Job, Expire(j) PROVE SweptIsClean'
  BY <1>23 DEF Expire
<1>24. CASE ServerDies
  BY <1>24 DEF ServerDies, Fault, IdleHandler
<1>25. ASSUME NEW j \in Job, KidDies(j) PROVE SweptIsClean'
  BY <1>25 DEF KidDies, Fault, NoKid
<1>26. CASE UNCHANGED vars
  BY <1>26 DEF vars
<1>27. QED
  BY <1>1, <1>2, <1>3, <1>4, <1>5, <1>6, <1>7, <1>8, <1>9, <1>10, <1>11, <1>12, <1>13,
     <1>14, <1>15, <1>16, <1>17, <1>18, <1>19, <1>20, <1>21, <1>22, <1>23, <1>24, <1>25,
     <1>26 DEF Next, Handle, Work

(* A child notes each directory before it makes it.                         *)
LEMMA IntentStep == Types /\ Locked /\ Named /\ [Next]_vars => IntentFirst'
<1> SUFFICES ASSUME Types, Locked, Named, [Next]_vars PROVE IntentFirst'
  OBVIOUS
<1> USE DEF Types, TypeFiles, TypeHandlers, TypeKids, Locked, Exclusive, Holds, Works,
            Named, IntentFirst, KidAt, UnchangedJobs, UnchangedServer
<1>1. ASSUME NEW h \in Handler, NEW j \in Job, Submit(h, j) \/ Poll(h, j) PROVE
      IntentFirst'
  BY <1>1 DEF Submit, Poll
<1>2. ASSUME NEW h \in Handler, Admit(h) PROVE IntentFirst'
  BY <1>2 DEF Admit
<1>3. ASSUME NEW h \in Handler, NEW j \in Job, SweepScratch(h, j) PROVE IntentFirst'
  BY <1>3 DEF SweepScratch, CleanOne, Dirty, Emptier
<1>4. ASSUME NEW h \in Handler, NEW j \in Job, SweepRecord(h, j) PROVE IntentFirst'
  BY <1>4 DEF SweepRecord, Swept, NoRecord, Dirty
<1>5. ASSUME NEW h \in Handler, SweepFails(h) PROVE IntentFirst'
  BY <1>5 DEF SweepFails, Fault
<1>6. ASSUME NEW h \in Handler, Create(h) PROVE IntentFirst'
  BY <1>6 DEF Create, NoRecord
<1>7. ASSUME NEW h \in Handler, Spawn(h) PROVE IntentFirst'
  BY <1>7 DEF Spawn, NoKid
<1>8. ASSUME NEW h \in Handler, SpawnFails(h) PROVE IntentFirst'
  BY <1>8 DEF SpawnFails, Fault
<1>9. ASSUME NEW h \in Handler, PollTest(h) PROVE IntentFirst'
  BY <1>9 DEF PollTest
<1>10. ASSUME NEW h \in Handler, Polled(h) PROVE IntentFirst'
  BY <1>10 DEF Polled
<1>11. ASSUME NEW j \in Job, Start(j) PROVE IntentFirst'
  <2>1. \A i \in Repo : ~(i < 1)
    BY DEF Repo
  <2>2. QED
    BY <1>11, <2>1 DEF Start
<1>12. ASSUME NEW j \in Job, Intend(j) PROVE IntentFirst'
  BY <1>12 DEF Intend, Repo, Progress
<1>13. ASSUME NEW j \in Job, Mkdir(j) PROVE IntentFirst'
  BY <1>13 DEF Mkdir
<1>14. ASSUME NEW j \in Job, Mark(j) PROVE IntentFirst'
  <2>1. \A i \in Repo : i <= kid[j].at => i \in rec[j].intent
    BY <1>14 DEF Mark
  <2>2. kid[j].at \in Repo
    BY DEF Progress
  <2>3. CASE kid[j].at < Repositories
    <3>1. /\ kid'[j].pc = "intent" /\ kid'[j].at = kid[j].at + 1
          /\ \A k \in Job \ {j} : kid'[k] = kid[k]
          /\ UNCHANGED rec
      BY <1>14, <2>3 DEF Mark
    <3>2. \A i \in Repo : i < kid[j].at + 1 => i <= kid[j].at
      BY <2>2 DEF Repo
    <3>3. QED
      BY <2>1, <3>1, <3>2
  <2>4. CASE ~(kid[j].at < Repositories)
    <3>1. /\ kid'[j].pc = "restore"
          /\ \A k \in Job \ {j} : kid'[k] = kid[k]
          /\ UNCHANGED rec
      BY <1>14, <2>4 DEF Mark
    <3>2. \A i \in Repo : i <= kid[j].at
      BY <2>2, <2>4, BoundAssumption DEF Repo
    <3>3. QED
      BY <2>1, <3>1, <3>2
  <2>5. QED
    BY <2>3, <2>4
<1>15. ASSUME NEW j \in Job, Restore(j) PROVE IntentFirst'
  BY <1>15 DEF Restore
<1>16. ASSUME NEW j \in Job, ResticEnds(j) PROVE IntentFirst'
  BY <1>16 DEF ResticEnds
<1>17. ASSUME NEW j \in Job, NEW ok \in BOOLEAN, Restored(j, ok) PROVE IntentFirst'
  BY <1>17 DEF Restored
<1>18. ASSUME NEW j \in Job, Refuse(j) PROVE IntentFirst'
  BY <1>18 DEF Refuse
<1>19. ASSUME NEW j \in Job, Clean(j) PROVE IntentFirst'
  <2>1. CASE UNCHANGED <<rec, kid>>
    BY <2>1
  <2>2. CASE KidAt(j, "finish") /\ UNCHANGED rec
    BY <2>2
  <2>3. QED
    BY <1>19, <2>1, <2>2 DEF Clean
<1>20. ASSUME NEW j \in Job, CleanFails(j) PROVE IntentFirst'
  BY <1>20 DEF CleanFails, Fault, Dirty
<1>21. ASSUME NEW j \in Job, Finish(j) PROVE IntentFirst'
  BY <1>21 DEF Finish, NoKid, Dirty
<1>22. ASSUME NEW j \in Job, Expire(j) PROVE IntentFirst'
  BY <1>22 DEF Expire
<1>23. CASE ServerDies
  BY <1>23 DEF ServerDies, Fault, IdleHandler
<1>24. ASSUME NEW j \in Job, KidDies(j) PROVE IntentFirst'
  BY <1>24 DEF KidDies, Fault, NoKid
<1>25. CASE UNCHANGED vars
  BY <1>25 DEF vars
<1>26. QED
  BY <1>1, <1>2, <1>3, <1>4, <1>5, <1>6, <1>7, <1>8, <1>9, <1>10, <1>11, <1>12, <1>13,
     <1>14, <1>15, <1>16, <1>17, <1>18, <1>19, <1>20, <1>21, <1>22, <1>23, <1>24, <1>25 DEF
     Next, Handle, Work

LEMMA RecordStep == Types /\ Locked /\ Named /\ [Next]_vars => HasRecord'
<1> SUFFICES ASSUME Types, Locked, Named, [Next]_vars PROVE HasRecord'
  OBVIOUS
<1> USE DEF Types, TypeFiles, TypeHandlers, TypeKids, Locked, Exclusive, Holds, Works,
            Named, HasRecord, Goto, Return, KidAt, UnchangedJobs, UnchangedServer
<1>1. ASSUME NEW h \in Handler, NEW j \in Job, Submit(h, j) PROVE HasRecord'
  BY <1>1 DEF Submit
<1>2. ASSUME NEW h \in Handler, Admit(h) PROVE HasRecord'
  <2>1. /\ \A g \in Handler : handler'[g].pc = "spawn" => handler'[g] = handler[g]
        /\ UNCHANGED <<rec, kid>>
    BY <1>2 DEF Admit, IdleHandler
  <2>2. QED
    BY <2>1
<1>3. ASSUME NEW h \in Handler, NEW j \in Job, SweepScratch(h, j) PROVE HasRecord'
  BY <1>3 DEF SweepScratch, CleanOne, Dirty, Emptier
<1>4. ASSUME NEW h \in Handler, NEW j \in Job, SweepRecord(h, j) PROVE HasRecord'
  BY <1>4 DEF SweepRecord, Swept, NoRecord, Dirty
<1>5. ASSUME NEW h \in Handler, SweepFails(h) PROVE HasRecord'
  BY <1>5 DEF SweepFails, Fault, IdleHandler
<1>6. ASSUME NEW h \in Handler, Create(h) PROVE HasRecord'
  <2>1. CASE Return(h) /\ UNCHANGED <<rec, kid>>
    BY <2>1 DEF IdleHandler
  <2>2. CASE /\ rec' = [rec EXCEPT ![handler[h].job] = [NoRecord EXCEPT !.status = "queued"]]
             /\ Goto(h, "spawn") /\ UNCHANGED kid
    BY <1>6, <2>2 DEF Create, NoRecord
  <2>3. QED
    BY <1>6, <2>1, <2>2 DEF Create
<1>7. ASSUME NEW h \in Handler, Spawn(h) PROVE HasRecord'
  BY <1>7 DEF Spawn, NoKid, IdleHandler
<1>8. ASSUME NEW h \in Handler, SpawnFails(h) PROVE HasRecord'
  BY <1>8 DEF SpawnFails, Fault, IdleHandler
<1>9. ASSUME NEW h \in Handler, NEW j \in Job, Poll(h, j) PROVE HasRecord'
  BY <1>9 DEF Poll
<1>10. ASSUME NEW h \in Handler, PollTest(h) PROVE HasRecord'
  <2>1. /\ \A g \in Handler : handler'[g].pc = "spawn" => handler'[g] = handler[g]
        /\ UNCHANGED <<rec, kid>>
    BY <1>10 DEF PollTest, IdleHandler
  <2>2. QED
    BY <2>1
<1>11. ASSUME NEW h \in Handler, Polled(h) PROVE HasRecord'
  BY <1>11 DEF Polled, IdleHandler
<1>12. ASSUME NEW j \in Job, Start(j) PROVE HasRecord'
  BY <1>12 DEF Start
<1>13. ASSUME NEW j \in Job, Intend(j) PROVE HasRecord'
  BY <1>13 DEF Intend
<1>14. ASSUME NEW j \in Job, Mkdir(j) PROVE HasRecord'
  BY <1>14 DEF Mkdir
<1>15. ASSUME NEW j \in Job, Mark(j) PROVE HasRecord'
  BY <1>15 DEF Mark
<1>16. ASSUME NEW j \in Job, Restore(j) PROVE HasRecord'
  BY <1>16 DEF Restore
<1>17. ASSUME NEW j \in Job, ResticEnds(j) PROVE HasRecord'
  BY <1>17 DEF ResticEnds
<1>18. ASSUME NEW j \in Job, NEW ok \in BOOLEAN, Restored(j, ok) PROVE HasRecord'
  BY <1>18 DEF Restored
<1>19. ASSUME NEW j \in Job, Refuse(j) PROVE HasRecord'
  BY <1>19 DEF Refuse
<1>20. ASSUME NEW j \in Job, Clean(j) PROVE HasRecord'
  BY <1>20 DEF Clean, CleanOne, Dirty, Emptier
<1>21. ASSUME NEW j \in Job, CleanFails(j) PROVE HasRecord'
  BY <1>21 DEF CleanFails, Fault, Dirty
<1>22. ASSUME NEW j \in Job, Finish(j) PROVE HasRecord'
  BY <1>22 DEF Finish, NoKid, Dirty
<1>23. ASSUME NEW j \in Job, Expire(j) PROVE HasRecord'
  BY <1>23 DEF Expire, Final
<1>24. CASE ServerDies
  BY <1>24 DEF ServerDies, Fault, IdleHandler
<1>25. ASSUME NEW j \in Job, KidDies(j) PROVE HasRecord'
  BY <1>25 DEF KidDies, Fault, NoKid
<1>26. CASE UNCHANGED vars
  BY <1>26 DEF vars
<1>27. QED
  BY <1>1, <1>2, <1>3, <1>4, <1>5, <1>6, <1>7, <1>8, <1>9, <1>10, <1>11, <1>12, <1>13,
     <1>14, <1>15, <1>16, <1>17, <1>18, <1>19, <1>20, <1>21, <1>22, <1>23, <1>24, <1>25,
     <1>26 DEF Next, Handle, Work

-----------------------------------------------------------------------------
(* Only Create adds a record, and it counts those that are there.           *)
LEMMA BoundedStep == Types /\ Locked /\ Named /\ Bounded /\ [Next]_vars => Bounded'
<1> SUFFICES ASSUME Types, Locked, Named, Bounded, [Next]_vars PROVE Bounded'
  OBVIOUS
<1>1. ASSUME Records' \subseteq Records PROVE Bounded'
  <2> DEFINE old == Records
             new == Records'
  <2>1. IsFiniteSet(old) /\ new \subseteq old /\ Cardinality(old) <= MaxJobs
    BY <1>1 DEF Bounded, JobsBounded
  <2> HIDE DEF old, new
  <2>2. /\ IsFiniteSet(new) /\ Cardinality(new) <= Cardinality(old)
        /\ Cardinality(new) \in Nat /\ Cardinality(old) \in Nat
    BY <2>1, FS_Subset, FS_CardinalityType
  <2>3. Cardinality(new) <= MaxJobs
    BY <2>1, <2>2, BoundAssumption
  <2>4. QED
    BY <2>2, <2>3 DEF new, Bounded, JobsBounded
<1>2. ASSUME NEW h \in Handler, Create(h) PROVE Bounded'
  <2>1. CASE UNCHANGED rec
    BY <1>1, <2>1 DEF Records
  <2>2. CASE /\ ~(Cardinality(Records) >= MaxJobs)
             /\ rec' = [rec EXCEPT ![handler[h].job] = [NoRecord EXCEPT !.status = "queued"]]
    <3> DEFINE old == Records
               new == Records'
    <3>1. new = old \cup {handler[h].job}
      BY <1>2, <2>2 DEF Create, Records, NoRecord, Types, TypeFiles, TypeHandlers
    <3>2. IsFiniteSet(old) /\ ~(Cardinality(old) >= MaxJobs)
      BY <2>2 DEF Bounded
    <3> HIDE DEF old, new
    <3>3. /\ IsFiniteSet(new) /\ Cardinality(old) \in Nat
          /\ Cardinality(new) = Cardinality(old) \/ Cardinality(new) = Cardinality(old) + 1
      BY <3>1, <3>2, FS_AddElement, FS_CardinalityType
    <3>4. Cardinality(new) <= MaxJobs
      BY <3>2, <3>3, BoundAssumption
    <3>5. QED
      BY <3>3, <3>4 DEF new, Bounded, JobsBounded
  <2>3. QED
    BY <1>2, <2>1, <2>2 DEF Create
<1> USE DEF Types, TypeFiles, TypeHandlers, TypeKids, Records, Locked, Exclusive, Holds,
            Works, Named, HasRecord
<1>3. ASSUME NEW h \in Handler, NEW j \in Job, SweepRecord(h, j) PROVE Records' \subseteq Records
  BY <1>3 DEF SweepRecord, Swept, NoRecord, Active
<1>4. ASSUME NEW h \in Handler, SpawnFails(h) PROVE Records' \subseteq Records
  BY <1>4 DEF SpawnFails
<1>5. ASSUME NEW j \in Job, Start(j) \/ Intend(j) \/ Finish(j) PROVE Records' \subseteq Records
  BY <1>5 DEF Start, Intend, Finish
<1>6. ASSUME NEW j \in Job, Expire(j) PROVE Records' \subseteq Records
  BY <1>6 DEF Expire, Final
<1>7. CASE rec' = rec
  BY <1>1, <1>7
<1> HIDE DEF Types, Records, Locked, Named
<1>8. QED
  BY <1>1, <1>2, <1>3, <1>4, <1>5, <1>6, <1>7
     DEF Next, Handle, Work, vars, Records, UnchangedJobs, UnchangedServer, Submit, Admit, SweepScratch,
         SweepFails, Spawn, Poll, PollTest, Polled, Mkdir, Mark, Restore, ResticEnds, Restored, Refuse,
         Clean, CleanFails, ServerDies, KidDies

-----------------------------------------------------------------------------
(* Only a child that has no restic starts one, and it waits for it.         *)
LEMMA WatchedStep == Types /\ Locked /\ ResticIsWatched /\ [Next]_vars => ResticIsWatched'
<1> SUFFICES ASSUME Types, Locked, ResticIsWatched, [Next]_vars PROVE ResticIsWatched'
  OBVIOUS
<1> USE DEF Types, TypeHandlers, TypeKids, ResticIsWatched, KidAt, UnchangedServer
<1>1. ASSUME NEW h \in Handler, Spawn(h) PROVE ResticIsWatched'
  <2>1. restic[handler[h].job] = None
    BY <1>1 DEF Spawn, Locked, Exclusive, Holds, Works
  <2>2. QED
    BY <1>1, <2>1 DEF Spawn
<1>2. ASSUME NEW j \in Job, Start(j) \/ Intend(j) \/ Mkdir(j) \/ Mark(j) PROVE ResticIsWatched'
  <2>1. restic' = restic /\ \A k \in Job \ {j} : kid'[k] = kid[k]
    BY <1>2 DEF Start, Intend, Mkdir, Mark
  <2>2. restic[j] = None
    BY <1>2 DEF Start, Intend, Mkdir, Mark
  <2>3. QED
    BY <2>1, <2>2
<1>3. ASSUME NEW j \in Job, Restore(j) PROVE ResticIsWatched'
  BY <1>3 DEF Restore
<1>4. ASSUME NEW j \in Job, ResticEnds(j) PROVE ResticIsWatched'
  BY <1>4 DEF ResticEnds
<1>5. ASSUME NEW j \in Job, NEW ok \in BOOLEAN, Restored(j, ok) PROVE ResticIsWatched'
  BY <1>5 DEF Restored
<1>6. ASSUME NEW j \in Job, Refuse(j) \/ Clean(j) \/ CleanFails(j) PROVE ResticIsWatched'
  BY <1>6 DEF Refuse, Clean, CleanFails
<1>7. ASSUME NEW j \in Job, Finish(j) \/ KidDies(j) PROVE ResticIsWatched'
  BY <1>7 DEF Finish, KidDies, NoKid
<1>8. CASE UNCHANGED <<kid, restic>>
  BY <1>8
<1>9. QED
  BY <1>1, <1>2, <1>3, <1>4, <1>5, <1>6, <1>7, <1>8
     DEF Next, Handle, Work, vars, UnchangedJobs, Submit, Admit, SweepScratch, SweepRecord,
         SweepFails, Create, SpawnFails, Poll, PollTest, Polled, Expire, ServerDies

LEMMA IInvStep == IInv /\ [Next]_vars => IInv'
<1> SUFFICES ASSUME IInv, [Next]_vars PROVE IInv'
  OBVIOUS
<1>1. Types'
  BY FilesStep, HandlersStep, KidsStep, LockTypeStep, FaultsStep DEF IInv, Types
<1>2. Named'
  BY ScratchStep, SweptStep, IntentStep, RecordStep DEF IInv, Named
<1>3. QED
  BY <1>1, <1>2, LockedStep, BoundedStep, WatchedStep DEF IInv

LEMMA IInvImplies == IInv => JobsInvariant
<1> SUFFICES ASSUME IInv PROVE JobsInvariant
  OBVIOUS
<1>1. TypeOK
  BY DEF IInv, Types, TypeFiles, JobRecord, TypeHandlers, TypeKids, Progress, TypeLock,
     TypeFaults, TypeOK
<1>2. RestoresAlone
  <2>1. \A j, k \in AtWork : j = k
    BY DEF IInv, Locked, Exclusive, Works, AtWork
  <2>2. Cardinality(AtWork) <= 1
    <3>1. CASE AtWork = {}
      BY <3>1, FS_EmptySet
    <3>2. CASE AtWork # {}
      <4>1. PICK j : AtWork = {j}
        BY <2>1, <3>2
      <4>2. Cardinality({j}) = 1
        BY FS_Singleton
      <4>3. QED
        BY <4>1, <4>2
    <3>3. QED
      BY <3>1, <3>2
  <2>3. QED
    BY <2>2 DEF IInv, Locked, Exclusive, Holds, Works, AtWork, RestoresAlone
<1>3. QED
  BY <1>1, <1>2 DEF IInv, Named, Bounded, JobsInvariant

(* For any handlers, jobs and repositories, and whatever dies: one restore  *)
(* at a time, no scratch directory without a record that names it, and a    *)
(* bounded number of records (storage/verification_jobs.py).                *)
THEOREM JobsAreSafe == Spec => []JobsInvariant
<1>1. Init => IInv
  BY InitIInv
<1>2. IInv /\ [Next]_vars => IInv'
  BY IInvStep
<1>3. IInv => JobsInvariant
  BY IInvImplies
<1>4. QED
  BY <1>1, <1>2, <1>3, PTL DEF Spec

(* A step that writes to the scratch of a job at work is one of its child,  *)
(* and a poll that is about to say "interrupted" finds the job not at work. *)
Undisturbed(j) ==
    /\ Work(j) /\ \A h \in Handler : ~SweepScratch(h, j)
    /\ restic[j] # None => scratch'[j][restic[j]] = scratch[j][restic[j]]

LEMMA UndisturbedStep ==
    IInv /\ [Next]_vars =>
       /\ \A j \in AtWork : scratch'[j] # scratch[j] => Undisturbed(j)
       /\ \A h \in Handler : handler'[h].pc = "testing" /\ handler[h].pc # "testing" =>
             handler[h].job \notin AtWork
<1> SUFFICES ASSUME IInv, [Next]_vars
             PROVE  /\ \A j \in AtWork : scratch'[j] # scratch[j] => Undisturbed(j)
                    /\ \A h \in Handler : handler'[h].pc = "testing" /\ handler[h].pc # "testing" =>
                         handler[h].job \notin AtWork
  OBVIOUS
<1> USE DEF IInv, Types, TypeFiles, TypeHandlers, TypeKids, Locked, Held, Exclusive, Holds,
            Works, AtWork, UnchangedJobs, UnchangedServer
<1>1. ASSUME NEW j \in AtWork, scratch'[j] # scratch[j] PROVE Undisturbed(j)
  <2>1. j \in Job /\ \A h \in Handler : handler[h].pc # "sweep"
    BY <1>1
  <2>2. \A h \in Handler, k \in Job : ~SweepScratch(h, k)
    BY <2>1 DEF SweepScratch
  <2>3. ASSUME NEW k \in Job, Mkdir(k) \/ Mark(k) \/ Restore(k) \/ Clean(k)
        PROVE  k = j /\ Work(j) /\ kid[j].pc \in {"mkdir", "mark", "restore", "clean"}
    <3>1. k = j
      BY <1>1, <2>1, <2>3 DEF Mkdir, Mark, Restore, Clean, CleanOne
    <3>2. QED
      BY <2>3, <3>1 DEF Work, Mkdir, Mark, Restore, Clean
  <2>4. ASSUME NEW k \in Job, NEW ok \in BOOLEAN, Restored(k, ok)
        PROVE  k = j /\ Work(j) /\ restic[j] = None
    <3>1. k = j
      BY <1>1, <2>1, <2>4 DEF Restored
    <3>2. QED
      BY <2>4, <3>1 DEF Work, Restored
  <2>5. Work(j) /\ (restic[j] # None => kid[j].pc \in {"mkdir", "mark", "restore", "clean"})
    BY <1>1, <2>2, <2>3, <2>4
       DEF Next, Handle, Work, vars, Submit, Admit, SweepRecord, SweepFails, Create, Spawn,
           SpawnFails, Poll, PollTest, Polled, Start, Intend, ResticEnds, Refuse, CleanFails,
           Finish, Expire, ServerDies, KidDies
  <2>6. restic[j] = None
    BY <2>1, <2>5 DEF IInv, ResticIsWatched
  <2>7. QED
    BY <2>1, <2>2, <2>5, <2>6 DEF Undisturbed
<1>2. ASSUME NEW h \in Handler, handler'[h].pc = "testing", handler[h].pc # "testing"
      PROVE  handler[h].job \notin AtWork
  <2>1. ASSUME NEW g \in Handler, PollTest(g) PROVE handler[h].job \notin AtWork
    <3>1. CASE holders = {}
      BY <3>1
    <3>2. CASE Return(g)
      BY <1>2, <3>2 DEF Return, IdleHandler
    <3>3. QED
      BY <2>1, <3>1, <3>2 DEF PollTest
  <2>2. ASSUME NEW g \in Handler, NEW k \in Job, Submit(g, k) \/ Poll(g, k) \/ SweepRecord(g, k) PROVE FALSE
    BY <1>2, <2>2 DEF Submit, Poll, SweepRecord
  <2>3. ASSUME NEW g \in Handler, Admit(g) \/ Create(g) PROVE FALSE
    BY <1>2, <2>3 DEF Admit, Create, Goto, Return, IdleHandler
  <2>4. ASSUME NEW g \in Handler, Spawn(g) \/ SpawnFails(g) \/ SweepFails(g) \/ Polled(g) PROVE FALSE
    <3>1. Return(g)
      BY <2>4 DEF Spawn, SpawnFails, SweepFails, Polled
    <3>2. QED
      BY <1>2, <3>1 DEF Return, IdleHandler
  <2>5. CASE ServerDies
    BY <1>2, <2>5 DEF ServerDies, IdleHandler
  <2>6. CASE handler' = handler
    BY <1>2, <2>6
  <2>7. QED
    BY <2>1, <2>2, <2>3, <2>4, <2>5, <2>6 DEF Next, Handle, Work, vars, SweepScratch,
       Start, Intend,
       Mkdir, Mark, Restore, ResticEnds, Restored, Refuse, Clean, CleanFails, Finish, Expire, KidDies
<1>3. QED
  BY <1>1, <1>2

(* Nobody but its own child touches what a restore still writes.            *)
THEOREM RestoresAreUndisturbed == Spec => RestoreIsUndisturbed
<1>1. Init => IInv
  BY InitIInv
<1>2. IInv /\ [Next]_vars => IInv'
  BY IInvStep
<1>3. IInv /\ [Next]_vars =>
        [/\ \A j \in AtWork : scratch'[j] # scratch[j] => Undisturbed(j)
         /\ \A h \in Handler : handler'[h].pc = "testing" /\ handler[h].pc # "testing" =>
               handler[h].job \notin AtWork]_vars
  BY UndisturbedStep
<1>4. QED
  BY <1>1, <1>2, <1>3, PTL DEF Spec, RestoreIsUndisturbed, Undisturbed
=============================================================================
