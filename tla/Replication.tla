----------------------------- MODULE Replication -----------------------------
(* The outbox that publishes the primary's catalog to one standby           *)
(* (storage/replication.py): a pending snapshot is built, sent, received,   *)
(* acknowledged and removed. The standby is the store of PinnedStore, which *)
(* ReplicaGenerations implements. A call to receive-replica that the sender *)
(* gave up after its time-out runs on beside the retry.                     *)
(*                                                                          *)
(* .lock of the outbox is held by the one run whose progress is sd.         *)
EXTENDS Naturals, FiniteSets

CONSTANTS
    Call,           \* receive-replica processes on the standby
    None,
    MaxEpoch,       \* bound on publications of the primary
    MaxSnapshots,   \* bound on snapshots built
    MaxDeaths,      \* bound on deaths of the sender and of receivers
    MaxOutages      \* bound on power losses of the standby

ASSUME BoundAssumption ==
    {MaxEpoch, MaxSnapshots, MaxDeaths, MaxOutages} \subseteq Nat /\ MaxEpoch >= 1

VARIABLES
    epoch,      \* publication of the primary's catalog
    made,       \* snapshots built so far; each has a digest of its own
    pending,    \* outbox/pending
    receipt,    \* outbox/receipt.json: the last snapshot acknowledged, or None
    ack,        \* the copy of it in the primary's directory, for its status
    sd,         \* the sender
    incoming,   \* [snapshot -> state of incoming/<digest> on the standby]
    rx,         \* [Call -> progress of receive-replica]
    whole, current, pins, confirmed,   \* the standby, see PinnedStore
    deaths, outages

Snapshot == [id : 1..MaxSnapshots, epoch : 1..MaxEpoch]
ASSUME NoneAssumption == None \notin Snapshot \cup Call

Standby == INSTANCE PinnedStore WITH Epoch <- [s \in Snapshot |-> s.epoch], Reader <- {}

standbyVars == <<whole, current, pins, confirmed>>
vars == <<epoch, made, pending, receipt, ack, sd, incoming, rx, standbyVars, deaths, outages>>

(* A pending directory is torn while rmtree removes it. *)
NoSnapshot == [state |-> "none", snap |-> None]
IdleSender == [pc |-> "idle", call |-> None]
IdleCall == [pc |-> "idle", snap |-> None]

SenderPCs == {"idle", "probe", "inspect", "dropping", "build", "ship", "call", "wait",
              "verified", "receipt", "retire", "retiring"}
CallPCs == {"idle", "called", "consume", "staged", "placed", "published", "replied", "failed"}

TypeOK ==
    /\ epoch \in 1..MaxEpoch /\ made \in 0..MaxSnapshots
    /\ pending \in [state : {"none", "whole", "torn"}, snap : Snapshot \cup {None}]
    /\ receipt \in Snapshot \cup {None} /\ ack \in Snapshot \cup {None}
    /\ sd \in [pc : SenderPCs, call : Call \cup {None}]
    /\ incoming \in [Snapshot -> {"none", "partial", "whole"}]
    /\ rx \in [Call -> [pc : CallPCs, snap : Snapshot \cup {None}]]
    /\ whole \subseteq Snapshot /\ current \in Snapshot \cup {None}
    /\ confirmed \in 0..MaxEpoch /\ deaths \in 0..MaxDeaths /\ outages \in 0..MaxOutages
    /\ pending.state = "none" <=> pending.snap = None
    /\ sd.pc = "wait" <=> sd.call # None
    /\ \A c, d \in Call : rx[c].pc = "placed" /\ rx[d].pc = "placed" => c = d

Init ==
    /\ epoch = 1 /\ made = 0 /\ pending = NoSnapshot
    /\ receipt = None /\ ack = None /\ sd = IdleSender
    /\ incoming = [s \in Snapshot |-> "none"]
    /\ rx = [c \in Call |-> IdleCall]
    /\ Standby!Init
    /\ deaths = 0 /\ outages = 0

Goto(pc) == sd' = [sd EXCEPT !.pc = pc]
UnchangedStandby == UNCHANGED <<incoming, rx, standbyVars>>
UnchangedFaults == UNCHANGED <<deaths, outages>>
Shipping == pending.snap

(* Ingestion publishes on the primary at any time. *)
Publish ==
    /\ epoch < MaxEpoch
    /\ epoch' = epoch + 1
    /\ UNCHANGED <<made, pending, receipt, ack, sd>> /\ UnchangedStandby /\ UnchangedFaults

-----------------------------------------------------------------------------
(* One run of replicate. Another run that finds the lock taken is coalesced.*)
UpToDate == pending.state = "none" /\ receipt # None /\ receipt.epoch = epoch

Begin ==
    /\ sd.pc = "idle"
    /\ IF UpToDate THEN ack' = receipt /\ UNCHANGED sd
                   ELSE Goto("probe") /\ UNCHANGED ack
    /\ UNCHANGED <<epoch, made, pending, receipt>> /\ UnchangedStandby /\ UnchangedFaults

(* The standby answers the availability preflight. *)
Probe ==
    /\ sd.pc = "probe"
    /\ Goto(IF pending.state # "none" /\ receipt # None THEN "inspect" ELSE "build")
    /\ UNCHANGED <<epoch, made, pending, receipt, ack>> /\ UnchangedStandby /\ UnchangedFaults

(* Mutant: whatever is pending is taken for what the receipt names. *)
InspectNothing ==
    /\ sd.pc = "inspect" /\ pending.state = "whole"
    /\ Goto("dropping") /\ pending' = [pending EXCEPT !.state = "torn"]
    /\ UNCHANGED <<epoch, made, receipt, ack>> /\ UnchangedStandby /\ UnchangedFaults

(* What a crash left pending may be acknowledged already: then it goes.     *)
Inspect ==
    /\ sd.pc = "inspect" /\ pending.state = "whole"
    /\ IF pending.snap = receipt
       THEN Goto("dropping") /\ pending' = [pending EXCEPT !.state = "torn"]
       ELSE Goto("build") /\ UNCHANGED pending
    /\ UNCHANGED <<epoch, made, receipt, ack>> /\ UnchangedStandby /\ UnchangedFaults

(* rmtree is through. *)
Dropped ==
    /\ sd.pc \in {"dropping", "retiring"}
    /\ pending' = NoSnapshot
    /\ sd' = IF sd.pc = "dropping" THEN [sd EXCEPT !.pc = "build"] ELSE IdleSender
    /\ UNCHANGED <<epoch, made, receipt, ack>> /\ UnchangedStandby /\ UnchangedFaults

(* create_snapshot takes the catalog as it is now, verifies the copy in a   *)
(* stage and renames it; what is pending already is verified again.         *)
Build ==
    /\ sd.pc = "build"
    /\ IF pending.state = "none"
       THEN /\ made < MaxSnapshots /\ made' = made + 1
            /\ pending' = [state |-> "whole", snap |-> [id |-> made + 1, epoch |-> epoch]]
       ELSE UNCHANGED <<made, pending>>
    /\ Goto("ship")
    /\ UNCHANGED <<epoch, receipt, ack>> /\ UnchangedStandby /\ UnchangedFaults

(* mkdir and the beginning of rsync: without room or a connection the run   *)
(* ends somewhere here (GiveUp).                                            *)
Ship ==
    /\ sd.pc = "ship"
    /\ IF incoming[Shipping] = "none"
       THEN incoming' = [incoming EXCEPT ![Shipping] = "partial"] /\ UNCHANGED sd
       ELSE incoming' = [incoming EXCEPT ![Shipping] = "whole"] /\ Goto("call")
    /\ UNCHANGED <<epoch, made, pending, receipt, ack, rx, standbyVars>> /\ UnchangedFaults

CallReceive(c) ==
    /\ sd.pc = "call" /\ rx[c].pc = "idle"
    /\ rx' = [rx EXCEPT ![c] = [pc |-> "called", snap |-> Shipping]]
    /\ sd' = [pc |-> "wait", call |-> c]
    /\ UNCHANGED <<epoch, made, pending, receipt, ack, incoming, standbyVars>> /\ UnchangedFaults

Answered ==
    /\ sd.pc = "wait" /\ rx[sd.call].pc \in {"replied", "failed"}
    /\ sd' = IF rx[sd.call].pc = "replied" THEN [IdleSender EXCEPT !.pc = "verified"]
                                           ELSE IdleSender
    /\ rx' = [rx EXCEPT ![sd.call] = IdleCall]
    /\ UNCHANGED <<epoch, made, pending, receipt, ack, incoming, standbyVars>> /\ UnchangedFaults

SaveReceipt ==
    /\ sd.pc = "verified"
    /\ receipt' = pending.snap /\ Goto("receipt")
    /\ UNCHANGED <<epoch, made, pending, ack>> /\ UnchangedStandby /\ UnchangedFaults

RecordAcknowledgement ==
    /\ sd.pc = "receipt"
    /\ ack' = receipt /\ Goto("retire")
    /\ UNCHANGED <<epoch, made, pending, receipt>> /\ UnchangedStandby /\ UnchangedFaults

Retire ==
    /\ sd.pc = "retire"
    /\ pending' = [pending EXCEPT !.state = "torn"] /\ Goto("retiring")
    /\ UNCHANGED <<epoch, made, receipt, ack>> /\ UnchangedStandby /\ UnchangedFaults

(* A command fails or times out, or there is no room: the run ends, and a   *)
(* call it waited for runs on.                                              *)
GiveUp ==
    /\ sd.pc \in {"probe", "build", "ship", "call", "wait"}
    /\ sd' = IdleSender
    /\ UNCHANGED <<epoch, made, pending, receipt, ack>> /\ UnchangedStandby /\ UnchangedFaults

(* A torn directory does not verify: the run ends with an error.            *)
InspectFails ==
    /\ sd.pc = "inspect" /\ pending.state = "torn"
    /\ sd' = IdleSender
    /\ UNCHANGED <<epoch, made, pending, receipt, ack>> /\ UnchangedStandby /\ UnchangedFaults

(* The sender dies; with the power, files whose removal was not synced may  *)
(* come back.                                                               *)
Die ==
    /\ sd.pc # "idle" /\ deaths < MaxDeaths
    /\ deaths' = deaths + 1 /\ sd' = IdleSender
    /\ \/ UNCHANGED pending
       \/ pending.state = "torn" /\ pending' = [pending EXCEPT !.state = "whole"]
    /\ UNCHANGED <<epoch, made, receipt, ack, outages>> /\ UnchangedStandby

-----------------------------------------------------------------------------
(* receive-replica on the standby. *)
UnchangedSender == UNCHANGED <<epoch, made, pending, receipt, ack, sd>>
At(c, from) == rx[c].pc = from
To(c, pc) == rx' = [rx EXCEPT ![c].pc = pc]

(* The transfer is verified, then moved; an incomplete or missing one fails.*)
Verify(c) ==
    /\ At(c, "called")
    /\ To(c, IF incoming[rx[c].snap] = "whole" THEN "consume" ELSE "failed")
    /\ UNCHANGED <<incoming, standbyVars>> /\ UnchangedSender /\ UnchangedFaults

(* The moved copy is verified again in its stage. *)
Consume(c) ==
    /\ At(c, "consume")
    /\ To(c, IF incoming[rx[c].snap] = "whole" THEN "staged" ELSE "failed")
    /\ incoming' = [incoming EXCEPT ![rx[c].snap] = "none"]
    /\ UNCHANGED standbyVars /\ UnchangedSender /\ UnchangedFaults

(* Mutant: a snapshot that is served already is refused. *)
AcceptableNewer(s) == current # None => current.epoch < s.epoch

Acceptable(s) == current # None => current.epoch <= s.epoch

(* From here to the publication the standby's lock is held. *)
Place(c) ==
    /\ At(c, "staged") /\ \A d \in Call : ~At(d, "placed")
    /\ IF Acceptable(rx[c].snap)
       THEN Standby!Add(rx[c].snap) /\ To(c, "placed")
       ELSE To(c, "failed") /\ UNCHANGED standbyVars
    /\ UNCHANGED incoming /\ UnchangedSender /\ UnchangedFaults

Activate(c) ==
    /\ At(c, "placed")
    /\ Standby!Publish(rx[c].snap)
    /\ To(c, "published")
    /\ UNCHANGED incoming /\ UnchangedSender /\ UnchangedFaults

(* Mutant: success is reported once the snapshot has been moved. *)
ReportEarly(c) ==
    /\ (At(c, "published") \/ At(c, "staged")) /\ To(c, "replied")
    /\ UNCHANGED <<incoming, standbyVars>> /\ UnchangedSender /\ UnchangedFaults

Report(c) ==
    /\ At(c, "published") /\ To(c, "replied")
    /\ IF confirmed < rx[c].snap.epoch THEN Standby!Confirm(rx[c].snap) ELSE UNCHANGED standbyVars
    /\ UNCHANGED incoming /\ UnchangedSender /\ UnchangedFaults

Prune ==
    /\ \A c \in Call : ~At(c, "placed")
    /\ \E s \in whole : Standby!Remove(s)
    /\ UNCHANGED <<incoming, rx>> /\ UnchangedSender /\ UnchangedFaults

(* The connection is gone: nobody hears the answer. *)
Forget(c) ==
    /\ rx[c].pc \in {"replied", "failed"} /\ (sd.pc # "wait" \/ sd.call # c)
    /\ rx' = [rx EXCEPT ![c] = IdleCall]
    /\ UNCHANGED <<incoming, standbyVars>> /\ UnchangedSender /\ UnchangedFaults

DieReceiving(c) ==
    /\ rx[c].pc \notin {"idle", "failed"} /\ deaths < MaxDeaths
    /\ deaths' = deaths + 1
    /\ To(c, "failed")
    /\ UNCHANGED <<incoming, standbyVars, outages>> /\ UnchangedSender

(* The standby loses power: transfers may be torn, the store falls back at  *)
(* most to what it has confirmed. (That a removed snapshot may come back    *)
(* changes nothing for the sender and is left out.)                         *)
StandbyOutage ==
    /\ outages < MaxOutages /\ outages' = outages + 1
    /\ Standby!Outage /\ whole' \subseteq whole
    /\ incoming' = [s \in Snapshot |-> IF incoming[s] = "none" THEN "none" ELSE "partial"]
    /\ rx' = [c \in Call |-> IF At(c, "idle") THEN rx[c] ELSE [rx[c] EXCEPT !.pc = "failed"]]
    /\ UnchangedSender /\ UNCHANGED deaths

SenderStep ==
    \/ Begin \/ Probe \/ Inspect \/ InspectFails \/ Dropped \/ Build \/ Ship \/ Answered
    \/ SaveReceipt \/ RecordAcknowledgement \/ Retire
    \/ \E c \in Call : CallReceive(c)

ReceiverStep(c) == Verify(c) \/ Consume(c) \/ Place(c) \/ Activate(c) \/ Report(c) \/ Forget(c)

Next ==
    \/ Publish \/ SenderStep \/ GiveUp \/ Die \/ Prune \/ StandbyOutage
    \/ \E c \in Call : ReceiverStep(c) \/ DieReceiving(c)

Spec == Init /\ [][Next]_vars

(* The timer starts run after run, and what was started goes on.            *)
FairSpec ==
    /\ Spec
    /\ WF_vars(SenderStep)
    /\ \A c \in Call : WF_vars(ReceiverStep(c))

-----------------------------------------------------------------------------
(* What the outbox and the primary's status call replicated is served by    *)
(* the standby, although receivers that were given up publish, fail and     *)
(* lose power beside the sender.                                            *)
ReceiptIsPublished ==
    \A r \in {receipt, ack} \ {None} : current # None /\ r.epoch <= current.epoch

OutboxInvariant == TypeOK /\ ReceiptIsPublished

(* The sender keeps its snapshot until the standby has confirmed it or a    *)
(* later one: nothing leaves the outbox on another snapshot's receipt.      *)
RemovedIsConfirmed ==
    [][pending.state = "whole" /\ pending'.state # "whole" => pending.snap.epoch <= confirmed]_vars

(* Once transport and room are there for good, the standby catches up and   *)
(* the primary knows: "failed work keeps the same snapshot for retry"       *)
(* (deploy/README.md), also when the sender, receivers and the standby have *)
(* died meanwhile. Only a pending snapshot that was torn in the middle of   *)
(* its removal holds it up: no later run can verify it.                     *)
CatchesUpUnlessTorn ==
    <>[][~GiveUp]_vars =>
       <>[](ack # None /\ ack.epoch = epoch) \/ <>[](pending.state = "torn" /\ receipt = pending.snap)

=============================================================================
