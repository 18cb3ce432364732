---------------------------- MODULE VerificationJobs ----------------------------
(* The primary's recovery jobs (storage/verification_jobs.py): a request     *)
(* handler admits one job, a child process of its own session restores every *)
(* backup repository into a scratch directory, and clients poll the record.  *)
(* The admission lock is an flock on one open file description, which the    *)
(* handler passes to the child and the child to restic.                      *)
EXTENDS Naturals, FiniteSets

CONSTANTS
    Handler,        \* request handlers of the server
    Job,            \* job identities: owner, nonce and requirements
    Repositories,   \* configured backup repositories, 1..Repositories
    MaxJobs,        \* MAX_JOBS
    None,
    MaxFaults       \* bound on deaths and on errors of the file system

ASSUME BoundAssumption ==
    /\ Repositories \in Nat \ {0} /\ MaxJobs \in Nat \ {0}
    /\ MaxFaults \in Nat

VARIABLES
    rec,        \* [Job -> its record on disk]
    scratch,    \* [Job -> [repository -> its scratch directory]]
    holders,    \* processes that have the locked description open
    handler,    \* [Handler -> progress of a submit or a poll]
    kid,        \* [Job -> progress of run_job]
    restic,     \* [Job -> the repository its restic restores, or None]
    faults

vars == <<rec, scratch, holders, handler, kid, restic, faults>>

Server == <<None, "server">>
Repo == 1..Repositories
Active == {"queued", "running"}
Final == {"verified", "failed", "interrupted"}
Records == {j \in Job : rec[j].status # "none"}

NoRecord == [status |-> "none", intent |-> {}, old |-> FALSE]
IdleHandler == [pc |-> "idle", job |-> None, todo |-> {}]
NoKid == [pc |-> "none", at |-> 1, ok |-> TRUE]

TypeOK ==
    /\ rec \in [Job -> [status : {"none"} \cup Active \cup Final,
                        intent : SUBSET Repo, old : BOOLEAN]]
    /\ scratch \in [Job -> [Repo -> {"none", "bare", "owned", "full"}]]
    /\ holders \subseteq (Job \cup {None}) \X {"server", "child", "restic"}
    /\ handler \in [Handler -> [pc : {"idle", "admit", "sweep", "spawn", "test", "testing"},
                                job : Job \cup {None}, todo : SUBSET Job]]
    /\ kid \in [Job -> [pc : {"none", "begin", "intent", "mkdir", "mark", "restore",
                              "restoring", "clean", "finish"},
                        at : Repo, ok : BOOLEAN]]
    /\ restic \in [Job -> Repo \cup {None}]
    /\ faults \in 0..MaxFaults

(* The service starts with no records, or with the one of a job that died    *)
(* in its first restore; which job it is does not matter.                    *)
Interrupted == [NoRecord EXCEPT !.status = "running", !.intent = {1}]

Init ==
    /\ \E left \in {{}, {CHOOSE j \in Job : TRUE}} :
         /\ rec = [j \in Job |-> IF j \in left THEN Interrupted ELSE NoRecord]
         /\ scratch = [j \in Job |-> [i \in Repo |->
                                       IF j \in left /\ i = 1 THEN "full" ELSE "none"]]
    /\ holders = {}
    /\ handler = [h \in Handler |-> IdleHandler]
    /\ kid = [j \in Job |-> NoKid]
    /\ restic = [j \in Job |-> None]
    /\ faults = 0

Goto(h, pc) == handler' = [handler EXCEPT ![h].pc = pc]
Return(h) == handler' = [handler EXCEPT ![h] = IdleHandler]
KidAt(j, pc) == kid' = [kid EXCEPT ![j].pc = pc]
Fault == faults < MaxFaults /\ faults' = faults + 1
UnchangedJobs == UNCHANGED <<scratch, kid, restic, faults>>

(* cleanup_scratch, one removal at a time: first what was restored, then the *)
(* marker of the owner, then the directory.                                  *)
Emptier(state) == CASE state = "full"  -> "owned"
                    [] state = "owned" -> "bare"
                    [] OTHER           -> "none"
Dirty(j) == {i \in rec[j].intent : scratch[j][i] # "none"}
CleanOne(j) == \E i \in Dirty(j) : scratch' = [scratch EXCEPT ![j][i] = Emptier(@)]

-----------------------------------------------------------------------------
(* submit. A record that exists already is polled. *)
Submit(h, j) ==
    /\ handler[h].pc = "idle" /\ rec[j].status = "none"
    /\ handler' = [handler EXCEPT ![h] = [pc |-> "admit", job |-> j, todo |-> {}]]
    /\ UNCHANGED <<rec, holders>> /\ UnchangedJobs

Admit(h) ==
    /\ handler[h].pc = "admit"
    /\ IF holders = {} /\ Cardinality(Records) <= MaxJobs
       THEN /\ holders' = {Server}
            /\ handler' = [handler EXCEPT ![h].pc = "sweep", ![h].todo = Records]
       ELSE Return(h) /\ UNCHANGED holders
    /\ UNCHANGED rec /\ UnchangedJobs

Swept(r) == CASE r.status \in Active -> [r EXCEPT !.status = "interrupted", !.intent = {}]
              [] r.old               -> NoRecord
              [] OTHER               -> r

(* Mutant: the sweep takes a record away before its scratch is clean. *)
SweepRecordEarly(h, j) ==
    /\ handler[h].pc = "sweep" /\ j \in handler[h].todo
    /\ handler' = [handler EXCEPT ![h].todo = @ \ {j}]
    /\ rec' = [rec EXCEPT ![j] = Swept(@)]
    /\ UNCHANGED holders /\ UnchangedJobs

SweepScratch(h, j) ==
    /\ handler[h].pc = "sweep" /\ j \in handler[h].todo
    /\ CleanOne(j)
    /\ UNCHANGED <<rec, holders, handler, kid, restic, faults>>

SweepRecord(h, j) ==
    /\ handler[h].pc = "sweep" /\ j \in handler[h].todo /\ Dirty(j) = {}
    /\ handler' = [handler EXCEPT ![h].todo = @ \ {j}]
    /\ rec' = [rec EXCEPT ![j] = Swept(@)]
    /\ UNCHANGED holders /\ UnchangedJobs

(* Scratch that cannot be removed keeps the service unavailable.             *)
SweepFails(h) ==
    /\ handler[h].pc = "sweep" /\ \E j \in handler[h].todo : Dirty(j) # {}
    /\ Fault
    /\ Return(h) /\ holders' = holders \ {Server}
    /\ UNCHANGED <<rec, scratch, kid, restic>>

Create(h) ==
    /\ handler[h].pc = "sweep" /\ handler[h].todo = {}
    /\ IF Cardinality(Records) >= MaxJobs
       THEN Return(h) /\ holders' = holders \ {Server} /\ UNCHANGED rec
       ELSE /\ rec' = [rec EXCEPT ![handler[h].job] = [NoRecord EXCEPT !.status = "queued"]]
            /\ Goto(h, "spawn") /\ UNCHANGED holders
    /\ UnchangedJobs

(* Mutant: the handler keeps its copy of the description open. *)
SpawnKeepingLock(h) ==
    LET j == handler[h].job IN
    /\ handler[h].pc = "spawn"
    /\ kid' = [kid EXCEPT ![j] = [NoKid EXCEPT !.pc = "begin"]]
    /\ holders' = holders \cup {<<j, "child">>}
    /\ Return(h)
    /\ UNCHANGED <<rec, scratch, restic, faults>>

(* Mutant: the child does not inherit the locked description. *)
SpawnWithoutLock(h) ==
    LET j == handler[h].job IN
    /\ handler[h].pc = "spawn"
    /\ kid' = [kid EXCEPT ![j] = [NoKid EXCEPT !.pc = "begin"]]
    /\ holders' = holders \ {Server}
    /\ Return(h)
    /\ UNCHANGED <<rec, scratch, restic, faults>>

(* The child inherits the locked description, and the handler closes its own.*)
Spawn(h) ==
    LET j == handler[h].job IN
    /\ handler[h].pc = "spawn"
    /\ kid' = [kid EXCEPT ![j] = [NoKid EXCEPT !.pc = "begin"]]
    /\ holders' = (holders \ {Server}) \cup {<<j, "child">>}
    /\ Return(h)
    /\ UNCHANGED <<rec, scratch, restic, faults>>

SpawnFails(h) ==
    /\ handler[h].pc = "spawn" /\ Fault
    /\ rec' = [rec EXCEPT ![handler[h].job].status = "failed"]
    /\ Return(h) /\ holders' = holders \ {Server}
    /\ UNCHANGED <<scratch, kid, restic>>

(* poll reads the record, and for an unfinished one tries the lock: whoever  *)
(* gets it knows that the job is dead.                                       *)
Poll(h, j) ==
    /\ handler[h].pc = "idle" /\ rec[j].status \in Active
    /\ handler' = [handler EXCEPT ![h] = [pc |-> "test", job |-> j, todo |-> {}]]
    /\ UNCHANGED <<rec, holders>> /\ UnchangedJobs

PollTest(h) ==
    /\ handler[h].pc = "test"
    /\ IF holders = {} THEN holders' = {Server} /\ Goto(h, "testing")
                       ELSE Return(h) /\ UNCHANGED holders
    /\ UNCHANGED rec /\ UnchangedJobs

Polled(h) ==
    /\ handler[h].pc = "testing"
    /\ Return(h) /\ holders' = holders \ {Server}
    /\ UNCHANGED rec /\ UnchangedJobs

-----------------------------------------------------------------------------
(* run_job *)
UnchangedServer == UNCHANGED <<handler, faults>>

Start(j) ==
    /\ kid[j].pc = "begin" /\ KidAt(j, "intent")
    /\ rec' = [rec EXCEPT ![j].status = "running"]
    /\ UNCHANGED <<scratch, holders, restic>> /\ UnchangedServer

(* The intent is on disk before the directory exists. *)
Intend(j) ==
    /\ kid[j].pc = "intent" /\ KidAt(j, "mkdir")
    /\ rec' = [rec EXCEPT ![j].intent = @ \cup {kid[j].at}]
    /\ UNCHANGED <<scratch, holders, restic>> /\ UnchangedServer

Mkdir(j) ==
    /\ kid[j].pc = "mkdir" /\ KidAt(j, "mark")
    /\ scratch' = [scratch EXCEPT ![j][kid[j].at] = "bare"]
    /\ UNCHANGED <<rec, holders, restic>> /\ UnchangedServer

Mark(j) ==
    /\ kid[j].pc = "mark"
    /\ scratch' = [scratch EXCEPT ![j][kid[j].at] = "owned"]
    /\ kid' = [kid EXCEPT ![j] = IF @.at < Repositories
                                 THEN [@ EXCEPT !.pc = "intent", !.at = kid[j].at + 1]
                                 ELSE [@ EXCEPT !.pc = "restore", !.at = 1]]
    /\ UNCHANGED <<rec, holders, restic>> /\ UnchangedServer

(* verify_offload_backups restores one repository after the other.           *)
Restore(j) ==
    /\ kid[j].pc = "restore" /\ KidAt(j, "restoring")
    /\ restic' = [restic EXCEPT ![j] = kid[j].at]
    /\ holders' = holders \cup {<<j, "restic">>}
    /\ scratch' = [scratch EXCEPT ![j][kid[j].at] = "full"]
    /\ UNCHANGED <<rec>> /\ UnchangedServer

ResticEnds(j) ==
    /\ restic[j] # None
    /\ restic' = [restic EXCEPT ![j] = None]
    /\ holders' = holders \ {<<j, "restic">>}
    /\ UNCHANGED <<rec, scratch, kid>> /\ UnchangedServer

(* What was restored holds every requirement, or the job fails. The          *)
(* temporary directory inside the scratch goes in either case.               *)
Restored(j, ok) ==
    /\ kid[j].pc = "restoring" /\ restic[j] = None
    /\ scratch' = [scratch EXCEPT ![j][kid[j].at] = "owned"]
    /\ kid' = [kid EXCEPT ![j] = IF ok /\ @.at < Repositories
                                 THEN [@ EXCEPT !.pc = "restore", !.at = kid[j].at + 1]
                                 ELSE [@ EXCEPT !.pc = "clean", !.ok = ok]]
    /\ UNCHANGED <<rec, holders, restic>> /\ UnchangedServer

(* A receipt that is not valid, a repository that changed, no room: the job   *)
(* fails before the next restore.                                            *)
Refuse(j) ==
    /\ kid[j].pc \in {"intent", "mkdir", "mark", "restore"}
    /\ kid' = [kid EXCEPT ![j].pc = "clean", ![j].ok = FALSE]
    /\ UNCHANGED <<rec, scratch, holders, restic>> /\ UnchangedServer

Clean(j) ==
    /\ kid[j].pc = "clean"
    /\ IF Dirty(j) # {} THEN CleanOne(j) /\ UNCHANGED kid
                        ELSE KidAt(j, "finish") /\ UNCHANGED scratch
    /\ UNCHANGED <<rec, holders, restic>> /\ UnchangedServer

CleanFails(j) ==
    /\ kid[j].pc = "clean" /\ Dirty(j) # {}
    /\ Fault
    /\ kid' = [kid EXCEPT ![j].pc = "finish", ![j].ok = FALSE]
    /\ UNCHANGED <<rec, scratch, holders, handler, restic>>

(* Scratch that could not be removed stays in the record for the next sweep. *)
Finish(j) ==
    /\ kid[j].pc = "finish"
    /\ rec' = [rec EXCEPT ![j].status = IF kid[j].ok THEN "verified" ELSE "failed",
                          ![j].intent = Dirty(j)]
    /\ kid' = [kid EXCEPT ![j] = NoKid]
    /\ holders' = holders \ {<<j, "child">>}
    /\ UNCHANGED <<scratch, restic>> /\ UnchangedServer

-----------------------------------------------------------------------------
(* The time to live of a finished record passes. *)
Expire(j) ==
    /\ rec[j].status \in Final /\ ~rec[j].old
    /\ rec' = [rec EXCEPT ![j].old = TRUE]
    /\ UNCHANGED <<handler, holders>> /\ UnchangedJobs

(* The server dies with every handler; children and restic run on.           *)
ServerDies ==
    /\ Fault
    /\ \E h \in Handler : handler[h].pc # "idle"
    /\ handler' = [h \in Handler |-> IdleHandler]
    /\ holders' = holders \ {Server}
    /\ UNCHANGED <<rec, scratch, kid, restic>>

(* A child that dies leaves its restic running. *)
KidDies(j) ==
    /\ kid[j].pc # "none"
    /\ Fault
    /\ kid' = [kid EXCEPT ![j] = NoKid]
    /\ holders' = holders \ {<<j, "child">>}
    /\ UNCHANGED <<rec, scratch, handler, restic>>

Handle(h) ==
    \/ Admit(h) \/ Create(h) \/ Spawn(h) \/ PollTest(h) \/ Polled(h)
    \/ \E j \in Job : SweepScratch(h, j) \/ SweepRecord(h, j)

Work(j) ==
    \/ Start(j) \/ Intend(j) \/ Mkdir(j) \/ Mark(j) \/ Restore(j)
    \/ \E ok \in BOOLEAN : Restored(j, ok)
    \/ Clean(j) \/ Finish(j)

Next ==
    \/ \E h \in Handler : Handle(h) \/ SweepFails(h) \/ SpawnFails(h)
    \/ \E h \in Handler, j \in Job : Submit(h, j) \/ Poll(h, j)
    \/ \E j \in Job : Work(j) \/ ResticEnds(j) \/ Refuse(j) \/ CleanFails(j) \/ Expire(j) \/ KidDies(j)
    \/ ServerDies

Spec == Init /\ [][Next]_vars

(* Handlers, children and restic run; nobody has to submit or to poll.       *)
FairSpec ==
    /\ Spec
    /\ \A h \in Handler : WF_vars(Handle(h))
    /\ \A j \in Job : WF_vars(Work(j)) /\ WF_vars(ResticEnds(j))

-----------------------------------------------------------------------------
(* A restore runs alone: while a child or an orphaned restic is at work, no  *)
(* other one is and no handler sweeps (the lock of line 113, inherited).     *)
AtWork == {j \in Job : kid[j].pc # "none" \/ restic[j] # None}
RestoresAlone ==
    /\ Cardinality(AtWork) <= 1
    /\ AtWork # {} => \A h \in Handler : handler[h].pc \notin {"sweep", "spawn", "testing"}

(* Whatever process died at whatever step, every scratch directory is named  *)
(* by a record, so the next admission finds and removes it (lines 123-133,   *)
(* 201-206).                                                                 *)
ScratchIsNamed == \A j \in Job, i \in Repo : scratch[j][i] # "none" => i \in rec[j].intent

(* The directory of records stays within its limit (lines 121 and 134).      *)
JobsBounded == Cardinality(Records) <= MaxJobs

JobsInvariant == TypeOK /\ RestoresAlone /\ ScratchIsNamed /\ JobsBounded

(* A scratch directory of a job at work changes by a step of its own child  *)
(* and by no sweep of a handler, also when the child died and its restic     *)
(* runs on; the directory that a restic still writes is not emptied by its   *)
(* child either; and a poll that reports "interrupted" finds nothing of the  *)
(* job at work (lines 113, 141-146, 166-170, backups.py 29).                 *)
RestoreIsUndisturbed ==
    [][/\ \A j \in AtWork : scratch'[j] # scratch[j] =>
            /\ Work(j) /\ \A h \in Handler : ~SweepScratch(h, j)
            /\ restic[j] # None => scratch'[j][restic[j]] = scratch[j][restic[j]]
       /\ \A h \in Handler : handler'[h].pc = "testing" /\ handler[h].pc # "testing" =>
            handler[h].job \notin AtWork]_vars

(* Every admitted job comes to an answer, because the lock always comes free:*)
(* from then on a poll finds a final record, or takes the lock and says      *)
(* "interrupted", and the next job is admitted (lines 152-153, 164-172,      *)
(* 215-222).                                                                 *)
JobsAreAnswered == []<>(holders = {})
=============================================================================
