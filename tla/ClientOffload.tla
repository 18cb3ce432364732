----------------------------- MODULE ClientOffload -----------------------------
(* Offload removes old native session files whose exact content every backup *)
(* repository has just restored: from a client, which asks the primary for a *)
(* recovery job (capture/offload.py), or on the primary itself               *)
(* (storage/offload.py). The agent may start, append and stop at any time.   *)
(*                                                                           *)
(* A file has versions 1, 2, ...; 0 stands for no file and for no record.    *)
EXTENDS Naturals, FiniteSets

CONSTANTS
    File,
    Repo,           \* backup repositories; the code wants two
    None,
    Legacy,         \* files an older client had acknowledged, without a row in
                    \* raw_acknowledgements
    MaxAppends,     \* bound on what the agent appends, to all files
    MaxFaults       \* bound on lost calls, deaths, decayed backups, expiries

ASSUME LegacyAssumption == Legacy \subseteq File
ASSUME BoundAssumption == MaxAppends \in Nat /\ MaxFaults \in Nat

VARIABLES
    native,     \* [File -> version at its path]
    aged,       \* files not written for 30 days
    agent,      \* Codex runs
    cap, ack,   \* [File -> version captured, acknowledged by the primary]
    rawack,     \* [File -> version of its raw_acknowledgements row]
    stored,     \* <<file, version>> pairs in the primary's raw_sources
    receipt,    \* the pairs in the snapshot that backup-receipt.json names
    lost,       \* [Repo -> pairs its backup does not give back]
    plan,       \* the reviewed plan: where it applies, and [File -> version]
    ap,         \* the run of apply
    job,        \* the primary's recovery job
    proved,     \* history: [Repo -> pairs restored for this apply]
    overtaken,  \* history: appended between the last look and the unlink
    appends, faults

filesVars == <<native, aged, agent, appends>>
queueVars == <<cap, ack, rawack, stored>>
backupVars == <<receipt, lost>>
vars == <<filesVars, queueVars, backupVars, plan, ap, job, proved, overtaken, faults>>

MaxVersion == MaxAppends + 1
Pair(F, w) == {<<f, w[f]>> : f \in F}
NoPlan == [kind |-> "client", want |-> [f \in File |-> 0]]
Idle == [pc |-> "idle", todo |-> {}, file |-> None, fresh |-> FALSE, fails |-> 0]
NoJob == [status |-> "none", mine |-> FALSE, want |-> {}, left |-> {}, covered |-> FALSE]
MaxFailures == 3

TypeOK ==
    /\ native \in [File -> 0..MaxVersion] /\ aged \subseteq File /\ agent \in BOOLEAN
    /\ {cap, ack, rawack} \subseteq [File -> 0..MaxVersion]
    /\ stored \subseteq File \X (1..MaxVersion) /\ receipt \subseteq stored
    /\ lost \in [Repo -> SUBSET stored]
    /\ plan \in [kind : {"client", "primary"}, want : [File -> 0..MaxVersion]]
    /\ ap \in [pc : {"idle", "ask", "poll", "verify", "check", "recheck", "gate", "look", "unlink"},
               todo : SUBSET File, file : File \cup {None}, fresh : BOOLEAN,
               fails : 0..MaxFailures - 1]
    /\ job \in [status : {"none", "running", "verified", "failed", "interrupted", "expired"},
                mine : BOOLEAN, want : SUBSET stored, left : SUBSET Repo, covered : BOOLEAN]
    /\ proved \in [Repo -> SUBSET stored]
    /\ overtaken \in BOOLEAN
    /\ appends \in 0..MaxAppends /\ faults \in 0..MaxFaults

Init ==
    /\ native = [f \in File |-> 1] /\ aged = {} /\ agent = FALSE
    /\ cap = [f \in File |-> IF f \in Legacy THEN 1 ELSE 0] /\ ack = cap /\ rawack = [f \in File |-> 0]
    /\ stored = Legacy \X {1}
    /\ receipt = {} /\ lost = [r \in Repo |-> {}]
    /\ plan = NoPlan /\ ap = Idle /\ job = NoJob
    /\ proved = [r \in Repo |-> {}] /\ overtaken = FALSE
    /\ appends = 0 /\ faults = 0

Fault == faults < MaxFaults /\ faults' = faults + 1
At(pc) == ap' = [ap EXCEPT !.pc = pc]
Stop == ap' = Idle
UnchangedHistory == UNCHANGED <<proved, overtaken>>

-----------------------------------------------------------------------------
(* The agent and the clock. *)
StartOrStop ==
    /\ agent' = ~agent
    /\ UNCHANGED <<native, aged, appends, queueVars, backupVars, plan, ap, job, faults>>
    /\ UnchangedHistory

Append(f) ==
    /\ agent /\ native[f] # 0 /\ appends < MaxAppends /\ appends' = appends + 1
    /\ native' = [native EXCEPT ![f] = @ + 1] /\ aged' = aged \ {f}
    /\ overtaken' = (overtaken \/ (ap.pc = "unlink" /\ ap.file = f))
    /\ UNCHANGED <<agent, queueVars, backupVars, plan, ap, job, proved, faults>>

Age(f) ==
    /\ native[f] # 0 /\ f \notin aged /\ aged' = aged \cup {f}
    /\ UNCHANGED <<native, agent, appends, queueVars, backupVars, plan, ap, job, faults>>
    /\ UnchangedHistory

-----------------------------------------------------------------------------
(* The queue, of which UploadQueue has the detail. An apply on a client      *)
(* holds the locks of the flush and of the capture (idle_queue); one on the  *)
(* primary holds neither.                                                    *)
QueueFree == ap.pc = "idle" \/ plan.kind = "primary"

Capture(f) ==
    /\ QueueFree /\ native[f] # 0 /\ cap[f] # native[f]
    /\ cap' = [cap EXCEPT ![f] = native[f]]
    /\ UNCHANGED <<filesVars, ack, rawack, stored, backupVars, plan, ap, job, faults>>
    /\ UnchangedHistory

Flush(f) ==
    /\ QueueFree /\ ack[f] # cap[f]
    /\ ack' = [ack EXCEPT ![f] = cap[f]] /\ rawack' = [rawack EXCEPT ![f] = cap[f]]
    /\ stored' = stored \cup {<<f, cap[f]>>}
    /\ UNCHANGED <<filesVars, cap, backupVars, plan, ap, job, faults>> /\ UnchangedHistory

(* Mutant: a row is recovered only where the client knows no head. *)
RecoverUnknown(f) ==
    /\ ap.pc = "idle" /\ rawack[f] = 0 /\ ack[f] = 0 /\ cap[f] = ack[f] /\ <<f, cap[f]>> \in stored
    /\ rawack' = [rawack EXCEPT ![f] = cap[f]]
    /\ UNCHANGED <<filesVars, cap, ack, stored, backupVars, plan, ap, job, faults>>
    /\ UnchangedHistory

(* recover_raw_acknowledgements adds a row the client lacks when the primary *)
(* names the head the client already knows, and nothing is outstanding.      *)
Recover(f) ==
    /\ ap.pc = "idle" /\ rawack[f] = 0 /\ cap[f] = ack[f] /\ <<f, cap[f]>> \in stored
    /\ rawack' = [rawack EXCEPT ![f] = cap[f]]
    /\ UNCHANGED <<filesVars, cap, ack, stored, backupVars, plan, ap, job, faults>>
    /\ UnchangedHistory

-----------------------------------------------------------------------------
(* The backups, of which BackupCycle has the detail: a receipt is written    *)
(* once every repository gave the whole snapshot back.                       *)
Backup ==
    /\ receipt' = stored /\ lost' = [r \in Repo |-> {}]
    /\ UNCHANGED <<filesVars, queueVars, plan, ap, job, faults>> /\ UnchangedHistory

Decay(r) ==
    /\ Fault
    /\ \E p \in receipt \ lost[r] : lost' = [lost EXCEPT ![r] = @ \cup {p}]
    /\ UNCHANGED <<filesVars, queueVars, receipt, plan, ap, job>> /\ UnchangedHistory

-----------------------------------------------------------------------------
(* The primary's job, of which VerificationJobs has the detail. The receipt  *)
(* is read when the job starts.                                              *)
NewJob(want) == [status |-> "running", mine |-> TRUE, want |-> want, left |-> Repo,
                 covered |-> want \subseteq receipt]

RestoreRepository(r) ==
    /\ job.status = "running" /\ r \in job.left
    /\ job' = IF job.covered /\ job.want \cap lost[r] = {}
              THEN [job EXCEPT !.left = @ \ {r},
                               !.status = IF job.left = {r} THEN "verified" ELSE "running"]
              ELSE [job EXCEPT !.status = "failed"]
    /\ proved' = IF job.mine /\ job'.status # "failed"
                 THEN [proved EXCEPT ![r] = @ \cup job.want] ELSE proved
    /\ UNCHANGED <<filesVars, queueVars, backupVars, plan, ap, overtaken, faults>>

JobInterrupted ==
    /\ job.status = "running" /\ Fault
    /\ job' = [job EXCEPT !.status = "interrupted"]
    /\ UNCHANGED <<filesVars, queueVars, backupVars, plan, ap>> /\ UnchangedHistory

JobExpires ==
    /\ job.status = "verified" /\ Fault
    /\ job' = [job EXCEPT !.status = "expired"]
    /\ UNCHANGED <<filesVars, queueVars, backupVars, plan, ap>> /\ UnchangedHistory

-----------------------------------------------------------------------------
(* Plans and the beginning of apply. *)
Acknowledged(f, v) == rawack[f] = v /\ ack[f] = v /\ cap[f] = v
Matches(f, v) == native[f] = v /\ f \in aged

PlanFor(kind, F) ==
    /\ ap.pc = "idle"
    /\ plan' = [kind |-> kind, want |-> [f \in File |-> IF f \in F THEN native[f] ELSE 0]]
    /\ UNCHANGED <<filesVars, queueVars, backupVars, ap, job, faults>> /\ UnchangedHistory

PlanOnClient ==
    PlanFor("client", {f \in aged : rawack[f] = native[f] /\ ack[f] = native[f] /\ cap[f] = native[f]})

PlanOnPrimary ==
    receipt # {} /\ PlanFor("primary", {f \in aged : ack[f] = native[f]})

(* A client drops what is no longer eligible before it asks; the primary     *)
(* verifies the whole plan, restoring in its own process what a job restores *)
(* for a client.                                                             *)
Eligible == {f \in File : plan.want[f] # 0 /\
                (plan.kind = "client" => Acknowledged(f, plan.want[f]) /\ Matches(f, plan.want[f]))}

Begin ==
    /\ ap.pc = "idle" /\ plan.kind = "client" /\ ~agent /\ Eligible # {}
    /\ ap' = [Idle EXCEPT !.pc = "ask", !.todo = Eligible]
    /\ job' = [job EXCEPT !.mine = FALSE]
    /\ proved' = [r \in Repo |-> {}] /\ overtaken' = FALSE
    /\ UNCHANGED <<filesVars, queueVars, backupVars, plan, faults>>

BeginOnPrimary ==
    /\ ap.pc = "idle" /\ plan.kind = "primary" /\ ~agent /\ Eligible # {}
    /\ job.status # "running"
    /\ ap' = [Idle EXCEPT !.pc = "verify", !.todo = Eligible]
    /\ job' = NewJob(Pair(Eligible, plan.want))
    /\ proved' = [r \in Repo |-> {}] /\ overtaken' = FALSE
    /\ UNCHANGED <<filesVars, queueVars, backupVars, plan, faults>>

Verified ==
    /\ ap.pc = "verify" /\ job.status # "running"
    /\ IF job.status = "verified" THEN At("check") ELSE Stop
    /\ UNCHANGED <<filesVars, queueVars, backupVars, plan, job, faults>> /\ UnchangedHistory

-----------------------------------------------------------------------------
(* fresh_proof. A submission with the nonce of this apply starts a job or    *)
(* finds the one it has started before; while another job runs the primary   *)
(* is busy.                                                                  *)
Requirements == Pair(ap.todo, plan.want)
Submitted == IF job.mine \/ job.status = "running" THEN job ELSE NewJob(Requirements)

(* Mutant: the nonce is not new: a job of an earlier apply will do. *)
AskAnyNonce ==
    /\ ap.pc = "ask" /\ ~agent /\ Requirements \subseteq stored
    /\ job' = IF job.status = "none" THEN NewJob(Requirements) ELSE job
    /\ ap' = [ap EXCEPT !.fails = 0, !.pc = "poll"]
    /\ UNCHANGED <<filesVars, queueVars, backupVars, plan, faults>> /\ UnchangedHistory

Ask ==
    /\ ap.pc = "ask" /\ ~agent /\ Requirements \subseteq stored
    /\ job' = Submitted
    /\ ap' = [ap EXCEPT !.fails = 0, !.pc = IF job'.mine THEN "poll" ELSE "ask"]
    /\ UNCHANGED <<filesVars, queueVars, backupVars, plan, faults>> /\ UnchangedHistory

(* Poll: a final answer that is not the proof of this request ends the run.  *)
Poll ==
    /\ ap.pc = "poll" /\ ~agent
    /\ ap' = CASE job.status = "running"  -> [ap EXCEPT !.fails = 0]
               [] job.status = "verified" -> [ap EXCEPT !.fails = 0, !.pc = "check", !.fresh = TRUE]
               [] OTHER                   -> Idle
    /\ UNCHANGED <<filesVars, queueVars, backupVars, plan, job, faults>> /\ UnchangedHistory

(* A call fails before or after it had its effect; the third failure in a    *)
(* row ends the run.                                                         *)
CallFails ==
    /\ ap.pc \in {"ask", "poll"} /\ ~agent /\ Fault
    /\ \/ UNCHANGED job
       \/ ap.pc = "ask" /\ Requirements \subseteq stored /\ job' = Submitted
    /\ ap' = IF ap.fails + 1 = MaxFailures THEN Idle ELSE [ap EXCEPT !.fails = @ + 1]
    /\ UNCHANGED <<filesVars, queueVars, backupVars, plan>> /\ UnchangedHistory

AgentReturns ==
    /\ ap.pc \in {"ask", "poll"} /\ agent
    /\ Stop
    /\ UNCHANGED <<filesVars, queueVars, backupVars, plan, job, faults>> /\ UnchangedHistory

(* The time is up, or the process dies. *)
Ends ==
    /\ ap.pc # "idle" /\ Fault
    /\ Stop
    /\ UNCHANGED <<filesVars, queueVars, backupVars, plan, job>> /\ UnchangedHistory

-----------------------------------------------------------------------------
(* The removals. *)
Barred == agent \/ (plan.kind = "client" /\ ~ap.fresh)
Skip == ap' = [ap EXCEPT !.pc = "check", !.todo = @ \ {ap.file}, !.file = None]
UnchangedButApply ==
    UNCHANGED <<filesVars, queueVars, backupVars, plan, job, faults>> /\ UnchangedHistory

Check ==
    /\ ap.pc = "check"
    /\ IF ap.todo = {} \/ Barred THEN Stop
       ELSE \E f \in ap.todo : ap' = [ap EXCEPT !.pc = "recheck", !.file = f]
    /\ UnchangedButApply

(* Acknowledgement, fingerprint, age and the hash of the whole file; the     *)
(* primary asks its catalog instead of the queue, and has no second gate.    *)
Recheck ==
    /\ ap.pc = "recheck" /\ plan.kind = "client"
    /\ IF Acknowledged(ap.file, plan.want[ap.file]) /\ Matches(ap.file, plan.want[ap.file])
       THEN At("gate") ELSE Skip
    /\ UnchangedButApply

RecheckOnPrimary ==
    /\ ap.pc = "recheck" /\ plan.kind = "primary"
    /\ IF ack[ap.file] = plan.want[ap.file] /\ Matches(ap.file, plan.want[ap.file])
       THEN At("look") ELSE Skip
    /\ UnchangedButApply

Gate ==
    /\ ap.pc = "gate"
    /\ IF Barred THEN Stop ELSE At("look")
    /\ UnchangedButApply

(* Mutant: the fingerprint is not compared again after the hash. *)
LookAway ==
    /\ ap.pc = "look" /\ overtaken' = FALSE
    /\ At("unlink")
    /\ UNCHANGED <<filesVars, queueVars, backupVars, plan, job, proved, faults>>

LastLook ==
    /\ ap.pc = "look" /\ overtaken' = FALSE
    /\ IF native[ap.file] = plan.want[ap.file] THEN At("unlink") ELSE Skip
    /\ UNCHANGED <<filesVars, queueVars, backupVars, plan, job, proved, faults>>

Unlink ==
    /\ ap.pc = "unlink"
    /\ native' = [native EXCEPT ![ap.file] = 0] /\ aged' = aged \ {ap.file}
    /\ Skip
    /\ UNCHANGED <<agent, appends, queueVars, backupVars, plan, job, faults>> /\ UnchangedHistory

(* The proof of a client expires. What it showed no longer counts, except in *)
(* the instant between the last gate and the unlink.                         *)
Expire ==
    /\ ap.fresh /\ Fault
    /\ ap' = [ap EXCEPT !.fresh = FALSE]
    /\ proved' = IF ap.pc \in {"look", "unlink"} THEN proved ELSE [r \in Repo |-> {}]
    /\ UNCHANGED <<filesVars, queueVars, backupVars, plan, job, overtaken>>

Apply == Ask \/ Poll \/ AgentReturns \/ Verified \/ Check \/ Recheck \/ RecheckOnPrimary \/ Gate \/ LastLook \/ Unlink

Next ==
    \/ StartOrStop \/ Backup \/ Begin \/ BeginOnPrimary \/ Apply \/ CallFails \/ Ends \/ Expire
    \/ JobInterrupted \/ JobExpires
    \/ \E f \in File : Append(f) \/ Age(f) \/ Capture(f) \/ Flush(f) \/ Recover(f)
    \/ \E r \in Repo : Decay(r) \/ RestoreRepository(r)
    \/ PlanOnClient \/ PlanOnPrimary

Spec == Init /\ [][Next]_vars

(* Timers capture, flush and back up, time passes, jobs run; and an operator *)
(* goes on recovering, planning and applying on the client.                  *)
QueueWork == \E f \in File : Capture(f) \/ Flush(f) \/ Recover(f)
Restore == \E r \in Repo : RestoreRepository(r)
FairSpec ==
    /\ Spec
    /\ WF_vars(\E f \in File : Age(f)) /\ SF_vars(QueueWork) /\ WF_vars(Backup)
    /\ SF_vars(PlanOnClient) /\ WF_vars(Begin \/ BeginOnPrimary) /\ WF_vars(Apply) /\ WF_vars(Restore)

-----------------------------------------------------------------------------
(* What is about to be removed was given back by every repository for this   *)
(* very apply, whatever calls were lost and whatever job of an earlier apply *)
(* is still there.                                                           *)
ProofCoversFile ==
    ap.pc \in {"look", "unlink"} => \A r \in Repo : <<ap.file, plan.want[ap.file]>> \in proved[r]

(* A row of raw_acknowledgements names content the primary has.              *)
AcknowledgedIsStored == \A f \in File : rawack[f] # 0 => <<f, rawack[f]>> \in stored

OffloadInvariant == TypeOK /\ ProofCoversFile /\ AcknowledgedIsStored

(* A native file is removed only as it was restored from every repository,   *)
(* moments ago: not content the agent wrote before the last look (line 193). *)
RemovedIsRestorable ==
    [][\A f \in File : native[f] # 0 /\ native'[f] = 0 =>
            /\ f \in aged \/ overtaken
            /\ overtaken \/ \A r \in Repo : <<f, native[f]>> \in proved[r]]_vars

(* If the agent stays away, every file is offloaded in the end: no abandoned *)
(* job, lost call, expired proof or missing acknowledgement keeps it.        *)
EverythingLeaves == (<>[]~agent) => <>[](\A f \in File : native[f] = 0)
=============================================================================
