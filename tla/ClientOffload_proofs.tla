------------------------ MODULE ClientOffload_proofs ------------------------
(* What ClientOffload promises, for any files, repositories and bounds. The *)
(* inductive invariant follows one apply: what its job has proved so far,   *)
(* what of it may still be relied on, and what the file about to go looks   *)
(* like since it was last compared with the plan.                           *)
EXTENDS ClientOffload, TLAPS

Versions == [File -> 0..MaxVersion]

TypeFiles ==
    /\ native \in Versions /\ aged \subseteq File
    /\ appends \in 0..MaxAppends /\ \A f \in File : native[f] <= appends + 1

TypeQueue ==
    /\ cap \in Versions /\ ack \in Versions /\ rawack \in Versions
    /\ stored \subseteq File \X (1..MaxVersion)

TypeBackups ==
    /\ receipt \subseteq stored /\ lost \in [Repo -> SUBSET stored] /\ proved \in [Repo -> SUBSET stored]

TypePlan == plan \in [kind : {"client", "primary"}, want : Versions]

Applies ==
    [pc : {"idle", "ask", "poll", "verify", "check", "recheck", "gate", "look", "unlink"},
     todo : SUBSET File, file : File \cup {None}, fresh : BOOLEAN, fails : 0..MaxFailures - 1]

TypeApply == ap \in Applies

JobStates == {"none", "running", "verified", "failed", "interrupted", "expired"}

TypeJob ==
    job \in [status : JobStates, mine : BOOLEAN, want : SUBSET stored, left : SUBSET Repo, covered : BOOLEAN]

TypeFlags == agent \in BOOLEAN /\ overtaken \in BOOLEAN
TypeFaults == faults \in 0..MaxFaults

Types == TypeFiles /\ TypeQueue /\ TypeBackups /\ TypePlan /\ TypeApply /\ TypeJob

(* What anybody calls acknowledged the primary has. *)
Kept ==
    /\ \A f \in File : cap[f] = 0 => ack[f] = 0
    /\ \A f \in File : ack[f] # 0 => <<f, ack[f]>> \in stored
    /\ AcknowledgedIsStored
    /\ plan.kind = "primary" => \A f \in File : plan.want[f] # 0 => <<f, plan.want[f]>> \in stored

(* What an apply has yet to remove, and the file it is at; only a client    *)
(* asks for a job.                                                          *)
Removing == {"check", "recheck", "gate", "look", "unlink"}
Planned ==
    /\ ap.pc # "idle" => \A f \in ap.todo : plan.want[f] # 0
    /\ ap.pc \in {"recheck", "gate", "look", "unlink"} => ap.file \in ap.todo
    /\ ap.pc \in {"ask", "poll"} => plan.kind = "client"

(* The job of this very apply restores what the apply wants, and each       *)
(* repository that it is through with has proved it.                        *)
Asks == ap.pc \in {"ask", "poll", "verify"}

JobProves ==
    /\ ap.pc \in {"poll", "verify"} => job.mine
    /\ Asks /\ job.mine => /\ job.want = Requirements
                           /\ \A r \in Repo \ job.left : job.want \subseteq proved[r]
    /\ job.status = "verified" => job.left = {}

(* A proof that has not expired covers everything still to be removed; of   *)
(* one that expires behind the last gate the file at hand may still go.     *)
Trusted == plan.kind = "primary" \/ ap.fresh

StillProved ==
    /\ ap.fresh => ap.pc \in Removing /\ plan.kind = "client"
    /\ ap.pc \in Removing /\ Trusted => \A r \in Repo : Requirements \subseteq proved[r]
    /\ ProofCoversFile

(* Since the file was compared with the plan it is as it was, or appended to.*)
Compared ==
    /\ ap.pc \in {"gate", "look"} =>
          \/ native[ap.file] = plan.want[ap.file] /\ ap.file \in aged
          \/ native[ap.file] > plan.want[ap.file]
    /\ ap.pc = "unlink" =>
          overtaken \/ (native[ap.file] = plan.want[ap.file] /\ ap.file \in aged)

IInv ==
    /\ Types /\ TypeFlags /\ TypeFaults
    /\ Kept /\ Planned /\ JobProves /\ StillProved /\ Compared

-----------------------------------------------------------------------------
LEMMA InitIInv == Init => IInv
<1> SUFFICES ASSUME Init PROVE IInv
  OBVIOUS
<1>1. 0 \in 0..MaxVersion /\ 1 \in 0..MaxVersion /\ 1 \in 1..MaxVersion /\ 0 \in 0..MaxFaults
      /\ 0 \in 0..MaxAppends /\ 0 \in 0..MaxFailures - 1
  BY BoundAssumption DEF MaxVersion, MaxFailures
<1>2. TypeFiles /\ TypeFaults
  BY <1>1 DEF Init, TypeFiles, TypeFaults, Versions
<1>3. TypeQueue /\ TypeBackups
  BY <1>1, LegacyAssumption DEF Init, TypeQueue, TypeBackups, Versions
<1>4. TypePlan /\ TypeApply /\ TypeJob /\ TypeFlags
  BY <1>1 DEF Init, TypePlan, TypeApply, Applies, TypeJob, JobStates, TypeFlags, Versions,
     NoPlan, Idle, NoJob
<1>5. Kept /\ Planned /\ JobProves /\ StillProved /\ Compared
  BY LegacyAssumption DEF Init, Kept, AcknowledgedIsStored, Planned, JobProves, Asks,
     StillProved, Removing,
         Trusted, ProofCoversFile, Compared, NoPlan, Idle, NoJob
<1>6. QED
  BY <1>2, <1>3, <1>4, <1>5 DEF IInv, Types

(* The steps of apply that may go two ways. *)
LEMMA CheckCases ==
    Check => Stop \/ (~Barred /\ \E f \in ap.todo : ap' = [ap EXCEPT !.pc = "recheck", !.file = f])
BY DEF Check

-----------------------------------------------------------------------------
(* Types. *)
LEMMA ClearedVersion ==
    ASSUME NEW S, 0 \in S, NEW w \in [File -> S], NEW f PROVE [w EXCEPT ![f] = 0] \in [File -> S]
OBVIOUS

LEMMA FilesStep == Types /\ [Next]_vars => TypeFiles'
<1> SUFFICES ASSUME Types, [Next]_vars PROVE TypeFiles'
  OBVIOUS
<1> USE DEF Types, TypeFiles, Versions, MaxVersion
<1>1. CASE UNCHANGED filesVars
  BY <1>1 DEF filesVars
<1>2. CASE StartOrStop
  BY <1>2 DEF StartOrStop
<1>3. ASSUME NEW f \in File, Append(f) PROVE TypeFiles'
  BY <1>3, BoundAssumption DEF Append
<1>4. ASSUME NEW f \in File, Age(f) PROVE TypeFiles'
  BY <1>4 DEF Age
<1>5. CASE Unlink
  <2>1. native' = [native EXCEPT ![ap.file] = 0] /\ aged' = aged \ {ap.file} /\ appends' = appends
    BY <1>5 DEF Unlink
  <2>2. \A f \in File : native'[f] = 0 \/ native'[f] = native[f]
    BY <2>1
  <2>3. 0 \in 0..MaxVersion
    BY BoundAssumption
  <2>4. native' \in Versions
    BY <2>1, <2>3, ClearedVersion
  <2>5. QED
    BY <2>1, <2>2, <2>4, BoundAssumption
<1>6. QED
  BY <1>1, <1>2, <1>3, <1>4, <1>5
     DEF Next, Apply, vars, UnchangedButApply, Capture, Flush, Recover, Backup, Decay, RestoreRepository,
         JobInterrupted, JobExpires, PlanOnClient, PlanOnPrimary, PlanFor, Begin, BeginOnPrimary, Verified,
         Ask, Poll, CallFails, AgentReturns, Ends, Check, Recheck, RecheckOnPrimary, Gate, LastLook, Expire

LEMMA QueueStep == Types /\ Kept /\ [Next]_vars => TypeQueue' /\ stored \subseteq stored'
<1> SUFFICES ASSUME Types, Kept, [Next]_vars PROVE TypeQueue' /\ stored \subseteq stored'
  OBVIOUS
<1> USE DEF Types, TypeFiles, TypeQueue, Versions
<1>1. CASE UNCHANGED queueVars
  BY <1>1 DEF queueVars
<1>2. ASSUME NEW f \in File, Capture(f) PROVE TypeQueue' /\ stored \subseteq stored'
  BY <1>2 DEF Capture
<1>3. ASSUME NEW f \in File, Flush(f) PROVE TypeQueue' /\ stored \subseteq stored'
  BY <1>3, BoundAssumption DEF Flush, Kept, MaxVersion
<1>4. ASSUME NEW f \in File, Recover(f) PROVE TypeQueue' /\ stored \subseteq stored'
  BY <1>4 DEF Recover
<1>5. QED
  BY <1>1, <1>2, <1>3, <1>4
     DEF Next, Apply, vars, UnchangedButApply, StartOrStop, Append, Age, Backup, Decay, RestoreRepository,
         JobInterrupted, JobExpires, PlanOnClient, PlanOnPrimary, PlanFor, Begin, BeginOnPrimary, Verified,
         Ask, Poll, CallFails, AgentReturns, Ends, Check, Recheck, RecheckOnPrimary, Gate, LastLook, Unlink,
         Expire

LEMMA BackupsStep == Types /\ [Next]_vars => TypeBackups'
<1> SUFFICES ASSUME Types, [Next]_vars PROVE TypeBackups'
  OBVIOUS
<1> USE DEF Types, TypeBackups, TypeJob, UnchangedHistory, UnchangedButApply, filesVars,
            queueVars, backupVars
<1>1. CASE StartOrStop
  BY <1>1 DEF StartOrStop
<1>2. ASSUME NEW f \in File, Append(f) PROVE TypeBackups'
  BY <1>2 DEF Append
<1>3. ASSUME NEW f \in File, Age(f) \/ Capture(f) \/ Recover(f) PROVE TypeBackups'
  BY <1>3 DEF Age, Capture, Recover
<1>4. ASSUME NEW f \in File, Flush(f) PROVE TypeBackups'
  BY <1>4 DEF Flush
<1>5. CASE Backup
  BY <1>5 DEF Backup
<1>6. ASSUME NEW r \in Repo, Decay(r) PROVE TypeBackups'
  BY <1>6 DEF Decay, Fault
<1>7. ASSUME NEW r \in Repo, RestoreRepository(r) PROVE TypeBackups'
  BY <1>7 DEF RestoreRepository
<1>8. CASE JobInterrupted \/ JobExpires
  BY <1>8 DEF JobInterrupted, Fault, JobExpires
<1>9. CASE PlanOnClient \/ PlanOnPrimary
  BY <1>9 DEF PlanOnClient, PlanFor, PlanOnPrimary
<1>10. CASE Begin
  BY <1>10 DEF Begin, Idle, Eligible
<1>11. CASE BeginOnPrimary
  BY <1>11 DEF BeginOnPrimary, Idle, Eligible, NewJob
<1>12. CASE Verified \/ AgentReturns \/ Ends
  BY <1>12 DEF Verified, At, Stop, Idle, AgentReturns, Ends, Fault
<1>13. CASE Ask \/ Poll \/ CallFails
  BY <1>13 DEF Ask, Submitted, NewJob, Poll, Idle, CallFails, Fault
<1>14. CASE Check \/ Recheck \/ RecheckOnPrimary \/ Gate
  BY <1>14 DEF Check, Stop, Idle, Barred, Recheck, At, Skip, RecheckOnPrimary, Gate
<1>15. CASE LastLook
  BY <1>15 DEF LastLook, At, Skip
<1>16. CASE Unlink
  BY <1>16 DEF Unlink, Skip
<1>17. CASE Expire
  BY <1>17 DEF Expire, Fault
<1>18. CASE UNCHANGED vars
  BY <1>18 DEF vars
<1>19. QED
  BY <1>1, <1>2, <1>3, <1>4, <1>5, <1>6, <1>7, <1>8, <1>9, <1>10, <1>11, <1>12, <1>13,
     <1>14, <1>15, <1>16, <1>17, <1>18 DEF Next, Apply

LEMMA PlanStep == Types /\ [Next]_vars => TypePlan'
<1> SUFFICES ASSUME Types, [Next]_vars PROVE TypePlan'
  OBVIOUS
<1> USE DEF Types, TypePlan
<1>1. ASSUME NEW kind \in {"client", "primary"}, NEW F \in SUBSET File, PlanFor(kind, F) PROVE TypePlan'
  <2>1. [f \in File |-> IF f \in F THEN native[f] ELSE 0] \in Versions
    BY BoundAssumption DEF TypeFiles, Versions, MaxVersion
  <2>2. QED
    BY <1>1, <2>1 DEF PlanFor
<1>2. CASE plan' = plan
  BY <1>2
<1>3. CASE PlanOnClient
  BY <1>1, <1>3 DEF PlanOnClient, TypeFiles
<1>4. CASE PlanOnPrimary
  BY <1>1, <1>4 DEF PlanOnPrimary, TypeFiles
<1>5. QED
  BY <1>2, <1>3, <1>4
     DEF Next, Apply, vars, UnchangedButApply, StartOrStop, Append, Age, Capture, Flush, Recover, Backup, Decay,
         RestoreRepository, JobInterrupted, JobExpires, Begin, BeginOnPrimary, Verified,
         Ask, Poll, CallFails, AgentReturns, Ends, Check, Recheck, RecheckOnPrimary, Gate, LastLook, Unlink,
         Expire

LEMMA ApplyStep == Types /\ [Next]_vars => TypeApply'
<1> SUFFICES ASSUME Types, [Next]_vars PROVE TypeApply'
  OBVIOUS
<1> USE DEF Types, TypeApply
<1>0. 0 \in 0..MaxFailures - 1
  BY DEF MaxFailures
<1>1. Idle \in Applies
  BY <1>0 DEF Idle, Applies
<1>2. ASSUME NEW T \in SUBSET File, NEW pc \in {"ask", "verify"}
      PROVE  [Idle EXCEPT !.pc = pc, !.todo = T] \in Applies
  BY <1>0 DEF Idle, Applies
<1>3. \A a \in Applies : \A pc \in {"check", "gate", "look", "unlink"} : [a EXCEPT !.pc = pc] \in Applies
  BY DEF Applies
<1>4. \A a \in Applies : \A pc \in {"ask", "poll"} : [a EXCEPT !.fails = 0, !.pc = pc] \in Applies
  BY <1>0 DEF Applies
<1>5. \A a \in Applies : [a EXCEPT !.fails = 0] \in Applies /\ [a EXCEPT !.fresh = FALSE] \in Applies
  BY <1>0 DEF Applies
<1>6. \A a \in Applies : [a EXCEPT !.fails = 0, !.pc = "check", !.fresh = TRUE] \in Applies
  BY <1>0 DEF Applies
<1>7. \A a \in Applies : \A f \in a.todo : [a EXCEPT !.pc = "recheck", !.file = f] \in Applies
  BY DEF Applies
<1>8. \A a \in Applies : [a EXCEPT !.pc = "check", !.todo = a.todo \ {a.file}, !.file = None] \in Applies
  BY DEF Applies
<1>9. Eligible \in SUBSET File
  BY DEF Eligible
<1>10. CASE ap' = ap
  BY <1>10
<1>11. CASE Stop
  BY <1>1, <1>11 DEF Stop
<1>12. CASE Skip
  BY <1>8, <1>12 DEF Skip
<1>13. ASSUME NEW pc \in {"check", "gate", "look", "unlink"}, At(pc) PROVE TypeApply'
  BY <1>3, <1>13 DEF At
<1>14. CASE Begin \/ BeginOnPrimary
  BY <1>2, <1>9, <1>14 DEF Begin, BeginOnPrimary
<1>15. CASE Ask
  <2>1. \E pc \in {"ask", "poll"} : ap' = [ap EXCEPT !.fails = 0, !.pc = pc]
    BY <1>15 DEF Ask
  <2>2. QED
    BY <1>4, <2>1
<1>16. CASE Poll
  <2>1. \/ ap' = [ap EXCEPT !.fails = 0]
        \/ ap' = [ap EXCEPT !.fails = 0, !.pc = "check", !.fresh = TRUE]
        \/ ap' = Idle
    BY <1>16 DEF Poll
  <2>2. QED
    BY <1>1, <1>5, <1>6, <2>1
<1>17. CASE CallFails
  <2>1. CASE ap.fails + 1 = MaxFailures
    BY <1>1, <1>17, <2>1 DEF CallFails
  <2>2. CASE ap.fails + 1 # MaxFailures
    <3>1. ap' = [ap EXCEPT !.fails = @ + 1]
      BY <1>17, <2>2 DEF CallFails
    <3>2. ap.fails + 1 \in 0..MaxFailures - 1
      BY <2>2 DEF Applies, MaxFailures
    <3>3. QED
      BY <3>1, <3>2 DEF Applies
  <2>3. QED
    BY <2>1, <2>2
<1>18. CASE Check
  BY <1>7, <1>11, <1>18, CheckCases
<1>19. CASE Expire
  BY <1>5, <1>19 DEF Expire
<1>20. CASE Verified \/ Recheck \/ RecheckOnPrimary \/ Gate \/ LastLook
  BY <1>11, <1>12, <1>13, <1>20 DEF Verified, Recheck, RecheckOnPrimary, Gate, LastLook
<1>21. CASE AgentReturns \/ Ends \/ Unlink
  BY <1>11, <1>12, <1>21 DEF AgentReturns, Ends, Unlink
<1>22. QED
  BY <1>10, <1>14, <1>15, <1>16, <1>17, <1>18, <1>19, <1>20, <1>21
     DEF Next, Apply, vars, StartOrStop, Append, Age, Capture, Flush, Recover, Backup, Decay,
         RestoreRepository, JobInterrupted, JobExpires, PlanOnClient, PlanOnPrimary, PlanFor

LEMMA JobStep == Types /\ Kept /\ [Next]_vars => TypeJob'
<1> SUFFICES ASSUME Types, Kept, [Next]_vars PROVE TypeJob'
  OBVIOUS
<1> USE DEF Types, TypeJob, JobStates
<1>1. ASSUME job' = job, stored \subseteq stored' PROVE TypeJob'
  BY <1>1
<1>2. stored \subseteq stored'
  BY QueueStep
<1>3. ASSUME NEW want \in SUBSET stored, job' = NewJob(want) PROVE TypeJob'
  BY <1>2, <1>3 DEF NewJob
<1>4. ASSUME NEW r \in Repo, RestoreRepository(r) PROVE TypeJob'
  BY <1>4 DEF RestoreRepository, queueVars
<1>5. CASE JobInterrupted \/ JobExpires
  BY <1>5 DEF JobInterrupted, JobExpires, queueVars
<1>6. CASE Begin
  BY <1>6 DEF Begin, queueVars
<1>7. CASE BeginOnPrimary
  <2>1. Pair(Eligible, plan.want) \subseteq stored
    BY <1>7 DEF BeginOnPrimary, Pair, Eligible, Kept
  <2>2. QED
    BY <1>3, <1>7, <2>1 DEF BeginOnPrimary
<1>8. ASSUME Requirements \subseteq stored, job' = Submitted PROVE TypeJob'
  BY <1>1, <1>2, <1>3, <1>8 DEF Submitted
<1>9. CASE Ask \/ CallFails
  BY <1>1, <1>2, <1>8, <1>9 DEF Ask, CallFails
<1>10. CASE UNCHANGED job
  BY <1>1, <1>2, <1>10
<1>11. QED
  BY <1>4, <1>5, <1>6, <1>7, <1>9, <1>10
     DEF Next, Apply, vars, UnchangedButApply, StartOrStop, Append, Age, Capture, Flush, Recover, Backup, Decay,
         PlanOnClient, PlanOnPrimary, PlanFor, Verified, Poll, AgentReturns, Ends, Check, Recheck,
         RecheckOnPrimary, Gate, LastLook, Unlink, Expire

LEMMA FlagsStep == TypeFlags /\ [Next]_vars => TypeFlags'
BY DEF TypeFlags, Next, Apply, vars, filesVars, UnchangedHistory, UnchangedButApply,
   StartOrStop, Append, Age,
       Capture, Flush, Recover, Backup, Decay, RestoreRepository, JobInterrupted, JobExpires, PlanOnClient,
       PlanOnPrimary, PlanFor, Begin, BeginOnPrimary, Verified, Ask, Poll, CallFails, AgentReturns, Ends,
       Check, Recheck, RecheckOnPrimary, Gate, LastLook, Unlink, Expire

LEMMA FaultsStep == TypeFaults /\ [Next]_vars => TypeFaults'
<1> SUFFICES ASSUME TypeFaults, [Next]_vars PROVE TypeFaults'
  OBVIOUS
<1>1. Fault \/ faults' = faults
  BY DEF Next, Apply, vars, UnchangedButApply, StartOrStop, Append, Age,
       Capture, Flush, Recover, Backup, Decay, RestoreRepository, JobInterrupted, JobExpires, PlanOnClient,
       PlanOnPrimary, PlanFor, Begin, BeginOnPrimary, Verified, Ask, Poll, CallFails, AgentReturns, Ends,
       Check, Recheck, RecheckOnPrimary, Gate, LastLook, Unlink, Expire
<1>2. QED
  BY <1>1, BoundAssumption DEF TypeFaults, Fault

-----------------------------------------------------------------------------
(* The primary never forgets what it has acknowledged, and a plan for the   *)
(* primary asks for nothing else.                                           *)
LEMMA KeptStep == Types /\ Kept /\ [Next]_vars => Kept'
<1> SUFFICES ASSUME Types, Kept, [Next]_vars PROVE Kept'
  OBVIOUS
<1> USE DEF Types, TypeFiles, TypeQueue, TypePlan, Kept, AcknowledgedIsStored, Versions,
            UnchangedButApply, filesVars, queueVars, backupVars
<1>1. CASE StartOrStop \/ UNCHANGED vars
  BY <1>1 DEF StartOrStop, vars
<1>2. ASSUME NEW f \in File, Append(f) \/ Age(f) PROVE Kept'
  BY <1>2 DEF Append, Age
<1>3. ASSUME NEW f \in File, Capture(f) PROVE Kept'
  BY <1>3 DEF Capture
<1>4. ASSUME NEW f \in File, Flush(f) PROVE Kept'
  BY <1>4 DEF Flush
<1>5. ASSUME NEW f \in File, Recover(f) PROVE Kept'
  BY <1>5 DEF Recover
<1>6. CASE Backup \/ JobInterrupted \/ JobExpires
  BY <1>6 DEF Backup, JobInterrupted, Fault, JobExpires
<1>7. ASSUME NEW r \in Repo, Decay(r) PROVE Kept'
  BY <1>7 DEF Decay, Fault
<1>8. ASSUME NEW r \in Repo, RestoreRepository(r) PROVE Kept'
  BY <1>8 DEF RestoreRepository
<1>9. CASE PlanOnClient
  BY <1>9 DEF PlanOnClient, PlanFor
<1>10. CASE PlanOnPrimary
  BY <1>10 DEF PlanOnPrimary, PlanFor
<1>11. CASE Begin \/ BeginOnPrimary
  BY <1>11 DEF Begin, Idle, Eligible, BeginOnPrimary, NewJob
<1>12. CASE Verified \/ AgentReturns \/ Ends
  BY <1>12 DEF Verified, At, Stop, Idle, AgentReturns, Ends, Fault
<1>13. CASE Ask \/ Poll \/ CallFails
  BY <1>13 DEF Ask, Submitted, NewJob, Poll, Idle, CallFails, Fault
<1>14. CASE Check \/ Recheck \/ RecheckOnPrimary \/ Gate
  BY <1>14 DEF Check, Stop, Idle, Barred, Recheck, At, Skip, RecheckOnPrimary, Gate
<1>15. CASE LastLook \/ Unlink
  BY <1>15 DEF LastLook, At, Skip, Unlink
<1>16. CASE Expire
  BY <1>16 DEF Expire, Fault
<1>17. QED
  BY <1>1, <1>2, <1>3, <1>4, <1>5, <1>6, <1>7, <1>8, <1>9, <1>10, <1>11, <1>12, <1>13,
     <1>14, <1>15, <1>16 DEF Next, Apply

(* What an apply has yet to remove is in its plan.                          *)
LEMMA PlannedStep == Types /\ Planned /\ [Next]_vars => Planned'
<1> SUFFICES ASSUME Types, Planned, [Next]_vars PROVE Planned'
  OBVIOUS
<1> USE DEF Types, TypeApply, Applies, Planned, UnchangedButApply, filesVars, queueVars,
            backupVars
<1>1. CASE StartOrStop \/ UNCHANGED vars
  BY <1>1 DEF StartOrStop, vars
<1>2. ASSUME NEW f \in File, Append(f) \/ Age(f) \/ Capture(f) \/ Flush(f) \/ Recover(f)
      PROVE Planned'
  BY <1>2 DEF Append, Age, Capture, Flush, Recover
<1>3. CASE Backup \/ JobInterrupted \/ JobExpires
  BY <1>3 DEF Backup, JobInterrupted, Fault, JobExpires
<1>4. ASSUME NEW r \in Repo, Decay(r) \/ RestoreRepository(r) PROVE Planned'
  BY <1>4 DEF Decay, Fault, RestoreRepository
<1>5. CASE PlanOnClient \/ PlanOnPrimary
  BY <1>5 DEF PlanOnClient, PlanFor, PlanOnPrimary
<1>6. CASE Begin
  <2>1. ap' = [Idle EXCEPT !.pc = "ask", !.todo = Eligible] /\ plan' = plan /\ plan.kind = "client"
    BY <1>6 DEF Begin
  <2>2. ap'.pc = "ask" /\ ap'.todo = Eligible
    BY <2>1 DEF Idle
  <2>3. QED
    BY <2>1, <2>2 DEF Eligible
<1>7. CASE BeginOnPrimary
  <2>1. ap' = [Idle EXCEPT !.pc = "verify", !.todo = Eligible] /\ plan' = plan
    BY <1>7 DEF BeginOnPrimary
  <2>2. ap'.pc = "verify" /\ ap'.todo = Eligible
    BY <2>1 DEF Idle
  <2>3. QED
    BY <2>1, <2>2 DEF Eligible
<1>8. CASE Verified \/ AgentReturns \/ Ends
  BY <1>8 DEF Verified, At, Stop, Idle, AgentReturns, Ends, Fault
<1>9. CASE Ask
  BY <1>9 DEF Ask, Submitted, NewJob
<1>10. CASE Poll
  BY <1>10 DEF Poll, Idle
<1>11. CASE CallFails
  BY <1>11 DEF CallFails, Submitted, NewJob, Idle, Fault
<1>12. CASE Check
  <2>1. CASE Stop
    BY <1>12, <2>1 DEF Check, Stop, Idle
  <2>2. ASSUME NEW f \in ap.todo, ap' = [ap EXCEPT !.pc = "recheck", !.file = f] PROVE Planned'
    BY <1>12, <2>2 DEF Check
  <2>3. QED
    BY <1>12, <2>1, <2>2, CheckCases
<1>13. CASE Recheck
  BY <1>13 DEF Recheck, At, Skip
<1>14. CASE RecheckOnPrimary
  BY <1>14 DEF RecheckOnPrimary, At, Skip
<1>15. CASE Gate
  BY <1>15 DEF Gate, Barred, At, Stop, Idle
<1>16. CASE LastLook
  BY <1>16 DEF LastLook, At, Skip
<1>17. CASE Unlink
  BY <1>17 DEF Unlink, Skip
<1>18. CASE Expire
  BY <1>18 DEF Expire, Fault
<1>19. QED
  BY <1>1, <1>2, <1>3, <1>4, <1>5, <1>6, <1>7, <1>8, <1>9, <1>10, <1>11, <1>12, <1>13,
     <1>14, <1>15, <1>16, <1>17, <1>18 DEF Next, Apply

(* A job is this apply's own, or it proves nothing for it.                  *)
LEMMA JobProvesStep == Types /\ Kept /\ JobProves /\ StillProved /\ [Next]_vars => JobProves'
<1> SUFFICES ASSUME Types, Kept, JobProves, StillProved, [Next]_vars PROVE JobProves'
  OBVIOUS
<1> USE DEF Types, TypeApply, Applies, TypeJob, TypeBackups, Asks, JobProves, Requirements,
            UnchangedHistory, UnchangedButApply, filesVars, queueVars, backupVars
<1>1. CASE StartOrStop \/ UNCHANGED vars
  BY <1>1 DEF StartOrStop, vars
<1>2. ASSUME NEW f \in File, Append(f) PROVE JobProves'
  BY <1>2 DEF Append
<1>3. ASSUME NEW f \in File, Age(f) \/ Capture(f) \/ Flush(f) \/ Recover(f) PROVE
      JobProves'
  BY <1>3 DEF Age, Capture, Flush, Recover
<1>4. CASE Backup \/ JobInterrupted \/ JobExpires
  BY <1>4 DEF Backup, JobInterrupted, Fault, JobExpires
<1>5. ASSUME NEW r \in Repo, Decay(r) PROVE JobProves'
  BY <1>5 DEF Decay, Fault
<1>6. ASSUME NEW r \in Repo, RestoreRepository(r) PROVE JobProves'
  BY <1>6 DEF RestoreRepository
<1>7. CASE PlanOnClient \/ PlanOnPrimary
  BY <1>7 DEF PlanOnClient, PlanFor, PlanOnPrimary
<1>8. CASE Begin
  BY <1>8 DEF Begin, Idle, Eligible
<1>9. CASE BeginOnPrimary
  BY <1>9 DEF BeginOnPrimary, Idle, Eligible, NewJob
<1>10. CASE Verified \/ AgentReturns \/ Ends
  BY <1>10 DEF Verified, At, Stop, Idle, AgentReturns, Ends, Fault
<1>11. CASE Ask
  BY <1>11 DEF Ask, Submitted, NewJob
<1>12. CASE Poll
  BY <1>12 DEF Poll, Idle
<1>13. CASE CallFails
  BY <1>13 DEF CallFails, Submitted, NewJob, Idle, Fault
<1>14. CASE Check
  <2>1. CASE Stop
    BY <1>14, <2>1 DEF Check, Stop, Idle
  <2>2. ASSUME NEW f \in ap.todo, ap' = [ap EXCEPT !.pc = "recheck", !.file = f] PROVE JobProves'
    BY <1>14, <2>2 DEF Check
  <2>3. QED
    BY <1>14, <2>1, <2>2, CheckCases
<1>15. CASE Recheck \/ RecheckOnPrimary
  BY <1>15 DEF Recheck, At, Skip, RecheckOnPrimary
<1>16. CASE Gate
  BY <1>16 DEF Gate, Barred, At, Stop, Idle
<1>17. CASE LastLook
  BY <1>17 DEF LastLook, At, Skip
<1>18. CASE Unlink
  BY <1>18 DEF Unlink, Skip
<1>19. CASE Expire
  BY <1>19 DEF Expire, Fault, StillProved, Removing
<1>20. QED
  BY <1>1, <1>2, <1>3, <1>4, <1>5, <1>6, <1>7, <1>8, <1>9, <1>10, <1>11, <1>12, <1>13,
     <1>14, <1>15, <1>16, <1>17, <1>18, <1>19 DEF Next, Apply

(* What may still be removed has been restored from every repository, and   *)
(* an apply whose proof expires stops before the next file.                 *)
LEMMA ProvedStep == Types /\ Planned /\ JobProves /\ StillProved /\ [Next]_vars => StillProved'
<1> SUFFICES ASSUME Types, Planned, JobProves, StillProved, [Next]_vars PROVE StillProved'
  OBVIOUS
<1> USE DEF Types, TypeApply, Applies, TypeBackups, TypePlan, Planned, Removing, Trusted,
            JobProves, Asks, StillProved, ProofCoversFile, Requirements, UnchangedHistory,
            UnchangedButApply, filesVars, queueVars, backupVars
<1>1. CASE StartOrStop \/ UNCHANGED vars
  BY <1>1 DEF StartOrStop, vars
<1>2. ASSUME NEW f \in File, Append(f) PROVE StillProved'
  BY <1>2 DEF Append
<1>3. ASSUME NEW f \in File, Age(f) \/ Capture(f) \/ Flush(f) \/ Recover(f) PROVE
      StillProved'
  BY <1>3 DEF Age, Capture, Flush, Recover
<1>4. CASE Backup \/ JobInterrupted \/ JobExpires
  BY <1>4 DEF Backup, JobInterrupted, Fault, JobExpires
<1>5. ASSUME NEW r \in Repo, Decay(r) PROVE StillProved'
  BY <1>5 DEF Decay, Fault
<1>6. ASSUME NEW r \in Repo, RestoreRepository(r) PROVE StillProved'
  BY <1>6 DEF RestoreRepository
<1>7. CASE PlanOnClient \/ PlanOnPrimary
  BY <1>7 DEF PlanOnClient, PlanFor, PlanOnPrimary
<1>8. CASE Begin
  BY <1>8 DEF Begin, Idle, Eligible
<1>9. CASE BeginOnPrimary
  BY <1>9 DEF BeginOnPrimary, Idle, Eligible, NewJob
<1>10. CASE Verified
  BY <1>10 DEF Verified, At, Stop, Idle
<1>11. CASE AgentReturns \/ Ends
  BY <1>11 DEF AgentReturns, Stop, Idle, Ends, Fault
<1>12. CASE Ask
  BY <1>12 DEF Ask, Submitted, NewJob
<1>13. CASE Poll
  <2>1. CASE job.status = "running"
    BY <1>13, <2>1 DEF Poll
  <2>2. CASE job.status = "verified"
    <3>1. ap' = [ap EXCEPT !.fails = 0, !.pc = "check", !.fresh = TRUE] /\ plan' = plan /\ proved' = proved
      BY <1>13, <2>2 DEF Poll
    <3>2. ap'.pc = "check" /\ ap'.todo = ap.todo
      BY <3>1
    <3>3. \A r \in Repo : Requirements \subseteq proved[r]
      BY <1>13, <2>2 DEF Poll
    <3>4. plan.kind = "client"
      BY <1>13 DEF Poll
    <3>5. QED
      BY <3>1, <3>2, <3>3, <3>4
  <2>3. CASE ap' = Idle
    <3>1. ap'.pc = "idle" /\ ap'.fresh = FALSE
      BY <2>3 DEF Idle
    <3>2. QED
      BY <3>1
  <2>4. QED
    BY <1>13, <2>1, <2>2, <2>3 DEF Poll
<1>14. CASE CallFails
  BY <1>14 DEF CallFails, Submitted, NewJob, Idle, Fault
<1>15. CASE Check
  <2>1. CASE Stop
    BY <2>1 DEF Stop, Idle
  <2>2. ASSUME NEW f \in ap.todo, ap' = [ap EXCEPT !.pc = "recheck", !.file = f] PROVE StillProved'
    BY <1>15, <2>2 DEF Check
  <2>3. QED
    BY <1>15, <2>1, <2>2, CheckCases
<1>16. CASE Recheck
  <2>1. CASE At("gate")
    BY <1>16, <2>1 DEF Recheck, At
  <2>2. CASE Skip
    BY <1>16, <2>2 DEF Recheck, Skip, Pair
  <2>3. QED
    BY <1>16, <2>1, <2>2 DEF Recheck
<1>17. CASE RecheckOnPrimary
  <2>1. CASE At("look")
    BY <1>17, <2>1 DEF RecheckOnPrimary, At, Pair
  <2>2. CASE Skip
    BY <1>17, <2>2 DEF RecheckOnPrimary, Skip, Pair
  <2>3. QED
    BY <1>17, <2>1, <2>2 DEF RecheckOnPrimary
<1>18. CASE Gate
  BY <1>18 DEF Gate, Barred, At, Stop, Idle, Pair
<1>19. CASE LastLook
  <2>1. CASE At("unlink")
    BY <1>19, <2>1 DEF LastLook, At
  <2>2. CASE Skip
    BY <1>19, <2>2 DEF LastLook, Skip, Pair
  <2>3. QED
    BY <1>19, <2>1, <2>2 DEF LastLook
<1>20. CASE Unlink
  BY <1>20 DEF Unlink, Skip, Pair
<1>21. CASE Expire
  BY <1>21 DEF Expire, Fault
<1>22. QED
  BY <1>1, <1>2, <1>3, <1>4, <1>5, <1>6, <1>7, <1>8, <1>9, <1>10, <1>11, <1>12, <1>13,
     <1>14, <1>15, <1>16, <1>17, <1>18, <1>19, <1>20, <1>21 DEF Next, Apply

(* The agent only appends: a file that is still as the plan says was not    *)
(* written since it was compared.                                           *)
LEMMA ComparedStep == Types /\ Planned /\ Compared /\ [Next]_vars => Compared'
<1> SUFFICES ASSUME Types, Planned, Compared, [Next]_vars PROVE Compared'
  OBVIOUS
<1> USE DEF Types, TypeFiles, Versions, TypeApply, Applies, TypePlan, Planned, Compared,
            UnchangedHistory, UnchangedButApply, filesVars, queueVars, backupVars
<1>1. CASE StartOrStop \/ UNCHANGED vars
  BY <1>1 DEF StartOrStop, vars
<1>2. ASSUME NEW f \in File, Append(f) PROVE Compared'
  <2>1. ap' = ap /\ plan' = plan /\ native' = [native EXCEPT ![f] = @ + 1] /\ aged' = aged \ {f}
    BY <1>2 DEF Append
  <2>2. overtaken' = (overtaken \/ (ap.pc = "unlink" /\ ap.file = f))
    BY <1>2 DEF Append
  <2>3. CASE ap.file # f
    BY <2>1, <2>2, <2>3
  <2>4. CASE ap.file = f
    <3>1. native[f] \in Nat /\ native'[f] = native[f] + 1
      BY <2>1
    <3>2. plan.want[f] \in Nat
      OBVIOUS
    <3>3. ap.pc \in {"gate", "look"} => native'[f] > plan.want[f]
      BY <2>4, <3>1, <3>2
    <3>4. ap.pc = "unlink" => overtaken'
      BY <2>2, <2>4
    <3> QED
      BY <2>1, <2>4, <3>3, <3>4
  <2>5. QED
    BY <2>3, <2>4
<1>3. ASSUME NEW f \in File, Age(f) PROVE Compared'
  BY <1>3 DEF Age
<1>4. ASSUME NEW f \in File, Capture(f) \/ Flush(f) \/ Recover(f) PROVE Compared'
  BY <1>4 DEF Capture, Flush, Recover
<1>5. CASE Backup \/ JobInterrupted \/ JobExpires
  BY <1>5 DEF Backup, JobInterrupted, Fault, JobExpires
<1>6. ASSUME NEW r \in Repo, Decay(r) \/ RestoreRepository(r) PROVE Compared'
  BY <1>6 DEF Decay, Fault, RestoreRepository
<1>7. CASE PlanOnClient \/ PlanOnPrimary
  BY <1>7 DEF PlanOnClient, PlanFor, PlanOnPrimary
<1>8. CASE Begin \/ BeginOnPrimary
  BY <1>8 DEF Begin, Idle, Eligible, BeginOnPrimary, NewJob
<1>9. CASE Verified \/ AgentReturns \/ Ends
  BY <1>9 DEF Verified, At, Stop, Idle, AgentReturns, Ends, Fault
<1>10. CASE Ask
  BY <1>10 DEF Ask, Submitted, NewJob
<1>11. CASE Poll
  BY <1>11 DEF Poll, Idle
<1>12. CASE CallFails
  BY <1>12 DEF CallFails, Submitted, NewJob, Idle, Fault
<1>13. CASE Check
  <2>1. CASE Stop
    BY <1>13, <2>1 DEF Check, Stop, Idle
  <2>2. ASSUME NEW f \in ap.todo, ap' = [ap EXCEPT !.pc = "recheck", !.file = f] PROVE Compared'
    BY <1>13, <2>2 DEF Check
  <2>3. QED
    BY <1>13, <2>1, <2>2, CheckCases
<1>14. CASE Recheck
  BY <1>14 DEF Recheck, At, Skip, Matches
<1>15. CASE RecheckOnPrimary
  BY <1>15 DEF RecheckOnPrimary, At, Skip, Matches
<1>16. CASE Gate
  BY <1>16 DEF Gate, Barred, At, Stop, Idle
<1>17. CASE LastLook
  <2>1. CASE native[ap.file] = plan.want[ap.file] /\ At("unlink")
    <3>1. ap.file \in aged
      <4>1. native[ap.file] \in Nat
        BY <1>17 DEF LastLook
      <4>2. QED
        BY <1>17, <2>1, <4>1 DEF LastLook
    <3>2. QED
      BY <1>17, <2>1, <3>1 DEF LastLook, At
  <2>2. CASE Skip
    BY <2>2 DEF Skip
  <2>3. QED
    BY <1>17, <2>1, <2>2 DEF LastLook
<1>18. CASE Unlink
  BY <1>18 DEF Unlink, Skip
<1>19. CASE Expire
  BY <1>19 DEF Expire, Fault
<1>20. QED
  BY <1>1, <1>2, <1>3, <1>4, <1>5, <1>6, <1>7, <1>8, <1>9, <1>10, <1>11, <1>12, <1>13,
     <1>14, <1>15, <1>16, <1>17, <1>18, <1>19 DEF Next, Apply

-----------------------------------------------------------------------------
LEMMA IInvStep == IInv /\ [Next]_vars => IInv'
<1> SUFFICES ASSUME IInv, [Next]_vars PROVE IInv'
  OBVIOUS
<1>1. Types'
  BY FilesStep, QueueStep, BackupsStep, PlanStep, ApplyStep, JobStep DEF IInv, Types
<1>2. TypeFlags' /\ TypeFaults'
  BY FlagsStep, FaultsStep DEF IInv
<1>3. QED
  BY <1>1, <1>2, KeptStep, PlannedStep, JobProvesStep, ProvedStep, ComparedStep DEF IInv

LEMMA IInvImplies == IInv => OffloadInvariant
<1> SUFFICES ASSUME IInv PROVE OffloadInvariant
  OBVIOUS
<1>1. TypeOK
  BY DEF IInv, Types, TypeFiles, TypeQueue, TypeBackups, TypePlan, TypeApply, Applies,
     TypeJob, JobStates,
         TypeFlags, TypeFaults, Versions, TypeOK
<1>2. QED
  BY <1>1 DEF IInv, Kept, StillProved, OffloadInvariant

(* For any files, repositories, appends and faults: whatever apply is about *)
(* to remove was restored from every repository for this very apply, and    *)
(* what is acknowledged is stored (capture/offload.py, storage/offload.py). *)
THEOREM OffloadIsSafe == Spec => []OffloadInvariant
<1>1. Init => IInv
  BY InitIInv
<1>2. IInv /\ [Next]_vars => IInv'
  BY IInvStep
<1>3. IInv => OffloadInvariant
  BY IInvImplies
<1>4. QED
  BY <1>1, <1>2, <1>3, PTL DEF Spec

(* Only Unlink takes a file away. *)
LEMMA RemovalStep ==
    IInv /\ [Next]_vars =>
       \A f \in File : native[f] # 0 /\ native'[f] = 0 =>
            /\ f \in aged \/ overtaken
            /\ overtaken \/ \A r \in Repo : <<f, native[f]>> \in proved[r]
<1> SUFFICES ASSUME IInv, [Next]_vars, NEW f \in File, native[f] # 0, native'[f] = 0
             PROVE  /\ f \in aged \/ overtaken
                    /\ overtaken \/ \A r \in Repo : <<f, native[f]>> \in proved[r]
  OBVIOUS
<1> USE DEF IInv, Types, TypeFiles, Versions
<1>1. CASE Unlink
  <2>1. f = ap.file
    BY <1>1 DEF Unlink
  <2>2. QED
    BY <1>1, <2>1 DEF Unlink, Compared, StillProved, ProofCoversFile
<1>2. ASSUME NEW g \in File, Append(g) PROVE FALSE
  <2>1. native[f] \in Nat /\ (native'[f] = native[f] \/ native'[f] = native[f] + 1)
    BY <1>2 DEF Append
  <2>2. QED
    BY <2>1
<1>3. CASE native' = native
  BY <1>3
<1>4. QED
  BY <1>1, <1>2, <1>3
     DEF Next, Apply, vars, filesVars, UnchangedButApply, StartOrStop, Age, Capture, Flush, Recover, Backup,
         Decay, RestoreRepository, JobInterrupted, JobExpires, PlanOnClient, PlanOnPrimary, PlanFor, Begin,
         BeginOnPrimary, Verified, Ask, Poll, CallFails, AgentReturns, Ends, Check, Recheck,
         RecheckOnPrimary, Gate, LastLook, Expire

(* A file goes only as every repository gave it back, unless it was appended*)
(* to in the instant after the last look at it.                             *)
THEOREM RemovedFilesAreRestorable == Spec => RemovedIsRestorable
<1>1. Init => IInv
  BY InitIInv
<1>2. IInv /\ [Next]_vars => IInv'
  BY IInvStep
<1>3. IInv /\ [Next]_vars =>
        [\A f \in File : native[f] # 0 /\ native'[f] = 0 =>
            /\ f \in aged \/ overtaken
            /\ overtaken \/ \A r \in Repo : <<f, native[f]>> \in proved[r]]_vars
  BY RemovalStep
<1>4. QED
  BY <1>1, <1>2, <1>3, PTL DEF Spec, RemovedIsRestorable
=============================================================================
