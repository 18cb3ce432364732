------------------------- MODULE Replication_proofs -------------------------
(* What Replication promises, for any number of receivers and any bounds.   *)
(* The inductive invariant ties everything the sender believes to what the  *)
(* standby has confirmed, and what is confirmed to what the standby serves: *)
(* an outage may take back what is current, but nothing that is confirmed.  *)
EXTENDS Replication, TLAPS

Snaps == Snapshot \cup {None}
Pendings == [state : {"none", "whole", "torn"}, snap : Snaps]
Senders == [pc : SenderPCs, call : Call \cup {None}]
Calls == [pc : CallPCs, snap : Snaps]

TypePrimary == epoch \in 1..MaxEpoch /\ made \in 0..MaxSnapshots
TypePending == pending \in Pendings /\ (pending.state = "none" <=> pending.snap = None)
TypeReceipts == receipt \in Snaps /\ ack \in Snaps
TypeSender == sd \in Senders /\ (sd.pc = "wait" <=> sd.call # None)
TypeIncoming == incoming \in [Snapshot -> {"none", "partial", "whole"}]
TypeCalls == rx \in [Call -> Calls] /\ \A c \in Call : rx[c].pc # "idle" => rx[c].snap \in Snapshot
TypeStandby == whole \subseteq Snapshot /\ current \in Snaps /\ confirmed \in 0..MaxEpoch
TypeFaults == deaths \in 0..MaxDeaths /\ outages \in 0..MaxOutages

Types ==
    /\ TypePrimary /\ TypePending /\ TypeReceipts /\ TypeSender
    /\ TypeIncoming /\ TypeCalls /\ TypeStandby /\ TypeFaults

(* The standby's lock has one holder. *)
OneHolder == \A c, d \in Call : rx[c].pc = "placed" /\ rx[d].pc = "placed" => c = d

(* What is confirmed is served. *)
Served == confirmed > 0 => current # None /\ confirmed <= current.epoch

(* A receiver reports success only of what is confirmed,                    *)
Reported == \A c \in Call : rx[c].pc = "replied" => rx[c].snap.epoch <= confirmed

(* and the sender hears the report of the call that it made for what is     *)
(* pending; from then on, until that is removed, it is confirmed.           *)
Heard == {"verified", "receipt", "retire", "retiring", "dropping"}
Sending ==
    /\ sd.pc \in Heard \cup {"inspect", "ship", "call", "wait"} => pending.snap \in Snapshot
    /\ sd.pc = "wait" => rx[sd.call].pc # "idle" /\ rx[sd.call].snap = pending.snap
    /\ sd.pc \in Heard => pending.snap.epoch <= confirmed
    /\ sd.pc \in {"dropping", "retiring"} => pending.state = "torn"

(* What the outbox keeps, or has begun to remove, as acknowledged. *)
Receipted ==
    /\ receipt # None => receipt.epoch <= confirmed
    /\ ack # None => ack.epoch <= confirmed
    /\ pending.state = "torn" => pending.snap.epoch <= confirmed

IInv == Types /\ OneHolder /\ Served /\ Reported /\ Sending /\ Receipted

-----------------------------------------------------------------------------
LEMMA InitIInv == Init => IInv
<1> SUFFICES ASSUME Init PROVE IInv
  OBVIOUS
<1>1. 1 \in 1..MaxEpoch /\ 0 \in 0..MaxEpoch /\ 0 \in 0..MaxSnapshots /\ 0 \in 0..MaxDeaths /\ 0 \in 0..MaxOutages
  BY BoundAssumption
<1>2. TypePrimary /\ TypeFaults
  BY <1>1 DEF Init, TypePrimary, TypeFaults
<1>3. TypePending /\ TypeReceipts /\ TypeSender /\ TypeIncoming /\ TypeCalls
  BY DEF Init, TypePending, TypeReceipts, TypeSender, TypeIncoming, TypeCalls, Pendings,
     Snaps, Senders,
         SenderPCs, Calls, CallPCs, NoSnapshot, IdleSender, IdleCall
<1>4. TypeStandby
  BY <1>1 DEF Init, Standby!Init, TypeStandby, Snaps
<1>5. OneHolder /\ Served /\ Reported /\ Sending /\ Receipted
  BY DEF Init, Standby!Init, OneHolder, Served, Reported, Sending, Heard, Receipted,
     NoSnapshot, IdleSender, IdleCall
<1>6. QED
  BY <1>2, <1>3, <1>4, <1>5 DEF IInv, Types

(* What one action writes and what it leaves alone, for the parts that few  *)
(* actions touch.                                                           *)
LEMMA SenderLeavesStandby ==
    ASSUME Publish \/ Begin \/ Probe \/ Inspect \/ InspectFails \/ Dropped \/ Build \/ SaveReceipt
             \/ RecordAcknowledgement \/ Retire \/ GiveUp \/ Die
    PROVE  UNCHANGED <<incoming, rx, standbyVars>>
BY DEF Publish, Begin, Probe, Inspect, InspectFails, Dropped, Build, SaveReceipt,
   RecordAcknowledgement,
       Retire, GiveUp, Die, UnchangedStandby

LEMMA ReceiverLeavesSender ==
    ASSUME Prune \/ StandbyOutage
             \/ \E c \in Call : Verify(c) \/ Consume(c) \/ Place(c) \/ Activate(c) \/ Report(c)
                                  \/ Forget(c) \/ DieReceiving(c)
    PROVE  UNCHANGED <<epoch, made, pending, receipt, ack, sd>>
BY DEF Prune, StandbyOutage, Verify, Consume, Place, Activate, Report, Forget,
   DieReceiving, UnchangedSender

LEMMA EpochIsNat == \A s \in Snapshot : s.epoch \in 1..MaxEpoch
BY DEF Snapshot

-----------------------------------------------------------------------------
(* Types. *)
LEMMA PrimaryStep == Types /\ [Next]_vars => TypePrimary' /\ TypeFaults'
<1> SUFFICES ASSUME Types, [Next]_vars PROVE TypePrimary' /\ TypeFaults'
  OBVIOUS
<1>1. TypePrimary'
  <2> USE DEF Types, TypePrimary
  <2>1. CASE Publish
    BY <2>1, BoundAssumption DEF Publish
  <2>2. CASE Build
    BY <2>2, BoundAssumption DEF Build
  <2>3. CASE UNCHANGED <<epoch, made>>
    BY <2>3
  <2>4. QED
    BY <2>1, <2>2, <2>3, ReceiverLeavesSender
       DEF Next, SenderStep, ReceiverStep, vars, Begin, Probe, Inspect, InspectFails, Dropped, Ship, Answered,
           SaveReceipt, RecordAcknowledgement, Retire, CallReceive, GiveUp, Die
<1>2. TypeFaults'
  BY BoundAssumption
     DEF Types, TypeFaults, Next, SenderStep, ReceiverStep, vars, UnchangedFaults, Publish, Begin, Probe, Inspect,
         InspectFails, Dropped, Build, Ship, Answered, SaveReceipt, RecordAcknowledgement, Retire, CallReceive,
         GiveUp, Die, Verify, Consume, Place, Activate, Report, Prune, Forget, DieReceiving, StandbyOutage
<1>3. QED
  BY <1>1, <1>2

LEMMA PendingStep == Types /\ Sending /\ [Next]_vars => TypePending'
<1> SUFFICES ASSUME Types, Sending, [Next]_vars PROVE TypePending'
  OBVIOUS
<1> USE DEF Types, TypePending, Pendings
<1>1. CASE pending' = pending
  BY <1>1
<1>2. CASE pending' = [pending EXCEPT !.state = "torn"] /\ pending.state = "whole"
  BY <1>2
<1>3. CASE pending' = [pending EXCEPT !.state = "torn"] /\ pending.snap \in Snapshot
  BY <1>3, NoneAssumption
<1>4. CASE pending' = [pending EXCEPT !.state = "whole"] /\ pending.state = "torn"
  BY <1>4
<1>5. CASE pending' = NoSnapshot
  BY <1>5 DEF NoSnapshot, Snaps
<1>6. ASSUME NEW s \in Snapshot, pending' = [state |-> "whole", snap |-> s] PROVE TypePending'
  BY <1>6, NoneAssumption DEF Snaps
<1>7. CASE Build
  <2>1. CASE pending.state = "none"
    <3>1. made + 1 \in 1..MaxSnapshots /\ epoch \in 1..MaxEpoch
      BY <1>7, <2>1, BoundAssumption DEF Build, TypePrimary
    <3>2. [id |-> made + 1, epoch |-> epoch] \in Snapshot
      BY <3>1 DEF Snapshot
    <3>3. QED
      BY <1>6, <1>7, <2>1, <3>2 DEF Build
  <2>2. QED
    BY <1>1, <1>7, <2>1 DEF Build
<1>8. CASE Inspect
  BY <1>1, <1>2, <1>8 DEF Inspect
<1>9. CASE Retire
  BY <1>3, <1>9 DEF Retire, Sending, Heard
<1>10. CASE Die
  BY <1>1, <1>4, <1>10 DEF Die
<1>11. CASE Dropped
  BY <1>5, <1>11 DEF Dropped
<1>12. QED
  BY <1>1, <1>7, <1>8, <1>9, <1>10, <1>11, ReceiverLeavesSender
     DEF Next, SenderStep, ReceiverStep, vars, Publish, Begin, Probe, InspectFails, Ship, Answered, SaveReceipt,
         RecordAcknowledgement, CallReceive, GiveUp

LEMMA ReceiptsStep == Types /\ [Next]_vars => TypeReceipts'
<1> SUFFICES ASSUME Types, [Next]_vars PROVE TypeReceipts'
  OBVIOUS
<1>1. receipt' \in {receipt, pending.snap} /\ ack' \in {ack, receipt}
  BY ReceiverLeavesSender
     DEF Next, SenderStep, ReceiverStep, vars, Publish, Begin, Probe, Inspect, InspectFails, Dropped, Build, Ship,
         Answered, SaveReceipt, RecordAcknowledgement, Retire, CallReceive, GiveUp, Die
<1>2. QED
  BY <1>1 DEF Types, TypeReceipts, TypePending, Pendings

LEMMA SenderStepTypes == Types /\ [Next]_vars => TypeSender'
<1> SUFFICES ASSUME Types, [Next]_vars PROVE TypeSender'
  OBVIOUS
<1> USE DEF Types, TypeSender, Senders, SenderPCs
<1>1. ASSUME NEW pc \in SenderPCs \ {"wait"}, Goto(pc), sd.pc # "wait" PROVE TypeSender'
  BY <1>1 DEF Goto
<1>2. CASE sd' = IdleSender
  BY <1>2 DEF IdleSender
<1>3. CASE sd' = sd
  BY <1>3
<1>4. ASSUME NEW c \in Call, CallReceive(c) PROVE TypeSender'
  BY <1>4, NoneAssumption DEF CallReceive
<1>5. CASE Answered
  BY <1>5 DEF Answered, IdleSender
<1>6. CASE Dropped
  BY <1>6 DEF Dropped, IdleSender
<1>7. CASE Begin \/ Probe \/ Inspect \/ Build \/ Ship \/ SaveReceipt \/ RecordAcknowledgement \/ Retire
  BY <1>1, <1>3, <1>7 DEF Begin, Probe, Inspect, Build, Ship, SaveReceipt,
     RecordAcknowledgement, Retire
<1>8. QED
  BY <1>2, <1>3, <1>4, <1>5, <1>6, <1>7, ReceiverLeavesSender
     DEF Next, SenderStep, ReceiverStep, vars, Publish, InspectFails, GiveUp, Die

LEMMA IncomingStep == Types /\ [Next]_vars => TypeIncoming'
<1> SUFFICES ASSUME Types, [Next]_vars PROVE TypeIncoming'
  OBVIOUS
<1> USE DEF Types, TypeIncoming
<1>1. CASE incoming' = incoming
  BY <1>1
<1>2. ASSUME NEW s, NEW v \in {"none", "partial", "whole"}, incoming' = [incoming EXCEPT ![s] = v] PROVE TypeIncoming'
  BY <1>2
<1>3. CASE Ship
  BY <1>2, <1>3 DEF Ship
<1>4. ASSUME NEW c \in Call, Consume(c) PROVE TypeIncoming'
  BY <1>2, <1>4 DEF Consume
<1>5. CASE StandbyOutage
  BY <1>5 DEF StandbyOutage
<1>6. QED
  BY <1>1, <1>3, <1>4, <1>5, SenderLeavesStandby
     DEF Next, SenderStep, ReceiverStep, vars, CallReceive, Answered, Verify, Place, Activate, Report, Prune,
         Forget, DieReceiving

LEMMA CallsStep == Types /\ Sending /\ [Next]_vars => TypeCalls'
<1> SUFFICES ASSUME Types, Sending, [Next]_vars PROVE TypeCalls'
  OBVIOUS
<1> USE DEF Types, TypeCalls, Calls, CallPCs
<1>1. CASE rx' = rx
  BY <1>1
<1>2. ASSUME NEW c, rx' = [rx EXCEPT ![c] = IdleCall] PROVE TypeCalls'
  BY <1>2 DEF IdleCall, Snaps
<1>3. ASSUME NEW c \in Call, NEW pc \in CallPCs, To(c, pc), rx[c].pc # "idle" PROVE TypeCalls'
  BY <1>3 DEF To
<1>4. ASSUME NEW c \in Call, CallReceive(c) PROVE TypeCalls'
  BY <1>4 DEF CallReceive, Sending, Shipping, Snaps
<1>5. CASE StandbyOutage
  BY <1>5 DEF StandbyOutage, At
<1>6. ASSUME NEW c \in Call,
             Verify(c) \/ Consume(c) \/ Place(c) \/ Activate(c) \/ Report(c) \/ DieReceiving(c)
      PROVE  TypeCalls'
  BY <1>3, <1>6 DEF Verify, Consume, Place, Activate, Report, DieReceiving, At
<1>7. QED
  BY <1>1, <1>2, <1>4, <1>5, <1>6, SenderLeavesStandby
     DEF Next, SenderStep, ReceiverStep, vars, Ship, Answered, Prune, Forget

(* What is confirmed never becomes less. *)
LEMMA StandbyStep == Types /\ [Next]_vars => TypeStandby' /\ confirmed <= confirmed'
<1> SUFFICES ASSUME Types, [Next]_vars PROVE TypeStandby' /\ confirmed <= confirmed'
  OBVIOUS
<1> USE DEF Types, TypeStandby, Snaps
<1>1. CASE UNCHANGED standbyVars
  BY <1>1 DEF standbyVars
<1>2. ASSUME NEW c \in Call, Place(c) PROVE TypeStandby' /\ confirmed <= confirmed'
  BY <1>1, <1>2 DEF Place, TypeCalls, At, Standby!Add
<1>3. ASSUME NEW c \in Call, Activate(c) PROVE TypeStandby' /\ confirmed <= confirmed'
  BY <1>3 DEF Activate, TypeCalls, At, Standby!Publish
<1>4. ASSUME NEW c \in Call, Report(c) PROVE TypeStandby' /\ confirmed <= confirmed'
  <2>1. rx[c].snap \in Snapshot
    BY <1>4 DEF Report, TypeCalls, At
  <2>2. rx[c].snap.epoch \in 1..MaxEpoch
    BY <2>1, EpochIsNat
  <2>3. CASE confirmed < rx[c].snap.epoch
    BY <1>4, <2>1, <2>2, <2>3, BoundAssumption DEF Report, Standby!Confirm
  <2>4. QED
    BY <1>1, <1>4, <2>3 DEF Report
<1>5. CASE Prune
  BY <1>5 DEF Prune, Standby!Remove
<1>6. CASE StandbyOutage
  BY <1>6 DEF StandbyOutage, Standby!Outage
<1>7. QED
  BY <1>1, <1>2, <1>3, <1>4, <1>5, <1>6, SenderLeavesStandby
     DEF Next, SenderStep, ReceiverStep, vars, Ship, CallReceive, Answered, Verify, Consume, Forget, DieReceiving

-----------------------------------------------------------------------------
(* The receivers and the standby. *)
LEMMA HolderStep == Types /\ OneHolder /\ [Next]_vars => OneHolder'
<1> SUFFICES ASSUME Types, OneHolder, [Next]_vars PROVE OneHolder'
  OBVIOUS
<1> USE DEF Types, TypeCalls, OneHolder
<1>1. ASSUME NEW c \in Call, Place(c) PROVE OneHolder'
  BY <1>1 DEF Place, At, To
<1>2. ASSUME \A c \in Call : rx'[c].pc = "placed" => rx[c].pc = "placed" PROVE OneHolder'
  BY <1>2
<1>3. ASSUME NEW c \in Call, NEW pc \in CallPCs \ {"placed"}, To(c, pc) PROVE OneHolder'
  BY <1>2, <1>3 DEF To
<1>4. ASSUME NEW c \in Call,
             Verify(c) \/ Consume(c) \/ Activate(c) \/ Report(c) \/ DieReceiving(c)
      PROVE  OneHolder'
  BY <1>3, <1>4 DEF Verify, Consume, Activate, Report, DieReceiving, CallPCs
<1>5. ASSUME NEW c \in Call, CallReceive(c) \/ Forget(c) PROVE OneHolder'
  BY <1>2, <1>5 DEF CallReceive, Forget, IdleCall
<1>6. CASE Answered
  BY <1>2, <1>6 DEF Answered, IdleCall
<1>7. CASE StandbyOutage
  BY <1>2, <1>7 DEF StandbyOutage, At
<1>8. CASE rx' = rx
  BY <1>8
<1>9. QED
  BY <1>1, <1>4, <1>5, <1>6, <1>7, <1>8, SenderLeavesStandby
     DEF Next, SenderStep, ReceiverStep, vars, Ship, Prune

LEMMA ServedStep == Types /\ Served /\ [Next]_vars => Served'
<1> SUFFICES ASSUME Types, Served, [Next]_vars PROVE Served'
  OBVIOUS
<1> USE DEF Types, TypeStandby, Served
<1>1. CASE UNCHANGED <<current, confirmed>>
  BY <1>1
<1>2. ASSUME NEW c \in Call, Activate(c) PROVE Served'
  <2>1. rx[c].snap \in Snapshot /\ current' = rx[c].snap /\ confirmed' = confirmed
    BY <1>2 DEF Activate, TypeCalls, At, Standby!Publish
  <2>2. current # None => current \in Snapshot /\ current.epoch <= rx[c].snap.epoch
    BY <1>2, <2>1 DEF Activate, Standby!Publish, Snaps
  <2>3. QED
    BY <2>1, <2>2, EpochIsNat, NoneAssumption
<1>3. ASSUME NEW c \in Call, Report(c) PROVE Served'
  <2>1. rx[c].snap \in Snapshot
    BY <1>3 DEF Report, TypeCalls, At
  <2>2. CASE confirmed < rx[c].snap.epoch
    <3>1. current # None /\ current' = current /\ confirmed' = rx[c].snap.epoch
      BY <1>3, <2>1, <2>2 DEF Report, Standby!Confirm
    <3>2. rx[c].snap.epoch <= current.epoch
      BY <1>3, <2>1, <2>2, <3>1 DEF Report, Standby!Confirm, Snaps
    <3>3. QED
      BY <3>1, <3>2
  <2>3. QED
    BY <1>1, <1>3, <2>2 DEF Report, standbyVars
<1>4. CASE StandbyOutage
  <2>1. confirmed' = confirmed /\ current' \in Snapshot \cup {None}
    BY <1>4 DEF StandbyOutage, Standby!Outage
  <2>2. confirmed > 0 => current' # None /\ confirmed <= current'.epoch
    BY <1>4, <2>1 DEF StandbyOutage, Standby!Outage
  <2>3. QED
    BY <2>1, <2>2
<1>5. ASSUME NEW c \in Call, Place(c) PROVE Served'
  BY <1>1, <1>5 DEF Place, Standby!Add, standbyVars
<1>6. CASE Prune
  BY <1>1, <1>6 DEF Prune, Standby!Remove
<1>7. QED
  BY <1>1, <1>2, <1>3, <1>4, <1>5, <1>6, SenderLeavesStandby
     DEF Next, SenderStep, ReceiverStep, vars, standbyVars, Ship, CallReceive, Answered, Verify, Consume, Forget,
         DieReceiving

LEMMA ReportedStep == Types /\ Reported /\ [Next]_vars => Reported'
<1> SUFFICES ASSUME Types, Reported, [Next]_vars PROVE Reported'
  OBVIOUS
<1> USE DEF Types, TypeCalls, TypeStandby, Reported
<1>1. confirmed \in Nat /\ confirmed' \in Nat /\ confirmed <= confirmed'
  BY StandbyStep
<1>2. ASSUME \A c \in Call : rx'[c].pc = "replied" => rx[c].pc = "replied" /\ rx'[c].snap = rx[c].snap
      PROVE  Reported'
  BY <1>1, <1>2, EpochIsNat
<1>3. ASSUME NEW c \in Call, Report(c) PROVE Reported'
  <2>1. rx[c].snap \in Snapshot /\ rx[c].snap.epoch \in 1..MaxEpoch
    BY <1>3, EpochIsNat DEF Report, At
  <2>2. rx[c].snap.epoch <= confirmed'
    BY <1>1, <1>3, <2>1 DEF Report, Standby!Confirm, standbyVars
  <2>3. rx'[c].snap = rx[c].snap /\ \A d \in Call \ {c} : rx'[d] = rx[d]
    BY <1>3 DEF Report, To
  <2>4. QED
    BY <1>1, <2>2, <2>3, EpochIsNat
<1>4. ASSUME NEW c \in Call, NEW pc \in CallPCs \ {"replied"}, To(c, pc) PROVE Reported'
  BY <1>2, <1>4 DEF To
<1>5. ASSUME NEW c \in Call,
             Verify(c) \/ Consume(c) \/ Place(c) \/ Activate(c) \/ DieReceiving(c)
      PROVE  Reported'
  BY <1>4, <1>5 DEF Verify, Consume, Place, Activate, DieReceiving, CallPCs
<1>6. ASSUME NEW c \in Call, CallReceive(c) \/ Forget(c) PROVE Reported'
  BY <1>2, <1>6 DEF CallReceive, Forget, IdleCall
<1>7. CASE Answered
  BY <1>2, <1>7 DEF Answered, IdleCall
<1>8. CASE StandbyOutage
  BY <1>2, <1>8 DEF StandbyOutage, At
<1>9. CASE rx' = rx
  BY <1>2, <1>9
<1>10. QED
  BY <1>3, <1>5, <1>6, <1>7, <1>8, <1>9, SenderLeavesStandby
     DEF Next, SenderStep, ReceiverStep, vars, Ship, Prune

-----------------------------------------------------------------------------
(* The sender and its outbox. *)
LEMMA SendingStep == Types /\ Sending /\ Reported /\ Receipted /\ [Next]_vars => Sending'
<1> SUFFICES ASSUME Types, Sending, Reported, Receipted, [Next]_vars PROVE Sending'
  OBVIOUS
<1>0. confirmed \in Nat /\ confirmed' \in Nat /\ confirmed <= confirmed'
  BY StandbyStep DEF Types, TypeStandby
<1> USE DEF Types, TypePending, Pendings, Snaps, TypeSender, Senders, TypeCalls, Calls,
            Sending, Heard
<1>1. ASSUME UNCHANGED <<pending, sd>>,
             sd.pc = "wait" => rx'[sd.call].pc # "idle" /\ rx'[sd.call].snap = rx[sd.call].snap
      PROVE  Sending'
  BY <1>0, <1>1, EpochIsNat
<1>2. CASE sd' = IdleSender
  BY <1>2 DEF IdleSender
<1>3. CASE Publish
  BY <1>3, <1>1, SenderLeavesStandby DEF Publish
<1>4. CASE Begin
  BY <1>4 DEF Begin, Goto
<1>5. CASE Probe
  BY <1>5 DEF Probe, Goto
<1>6. CASE Inspect
  <2>1. CASE pending.snap = receipt
    BY <1>6, <2>1, SenderLeavesStandby DEF Inspect, Goto, Receipted, standbyVars
  <2>2. CASE pending.snap # receipt
    BY <1>6, <2>2 DEF Inspect, Goto
  <2>3. QED
    BY <2>1, <2>2
<1>7. CASE Dropped
  BY <1>7 DEF Dropped, NoSnapshot, IdleSender
<1>8. CASE Build
  <2>1. pending'.snap \in Snapshot /\ sd'.pc = "ship"
    <3>1. CASE pending.state = "none"
      <4>1. made + 1 \in 1..MaxSnapshots /\ epoch \in 1..MaxEpoch
        BY <1>8, <3>1, BoundAssumption DEF Build, TypePrimary
      <4>2. QED
        BY <1>8, <3>1, <4>1 DEF Build, Goto, Snapshot
    <3>2. QED
      BY <1>8, <3>1 DEF Build, Goto
  <2>2. QED
    BY <2>1
<1>9. CASE Ship
  BY <1>9 DEF Ship, Goto, Shipping
<1>10. ASSUME NEW c \in Call, CallReceive(c) PROVE Sending'
  BY <1>10 DEF CallReceive, Shipping
<1>11. CASE Answered
  <2>1. CASE rx[sd.call].pc = "replied"
    BY <1>11, <2>1, NoneAssumption DEF Answered, IdleSender, Reported, standbyVars
  <2>2. QED
    BY <1>11, <1>2, <2>1 DEF Answered
<1>12. CASE SaveReceipt
  BY <1>12, <1>0, SenderLeavesStandby DEF SaveReceipt, Goto, standbyVars
<1>13. CASE RecordAcknowledgement
  BY <1>13, <1>0, SenderLeavesStandby DEF RecordAcknowledgement, Goto, standbyVars
<1>14. CASE Retire
  BY <1>14, <1>0, SenderLeavesStandby DEF Retire, Goto, standbyVars
<1>15. CASE GiveUp \/ InspectFails \/ Die
  BY <1>15, <1>2 DEF GiveUp, InspectFails, Die
<1>16. ASSUME NEW c \in Call, Verify(c) PROVE Sending'
  BY <1>16, <1>1 DEF Verify, At, To, UnchangedSender, CallPCs
<1>17. ASSUME NEW c \in Call, Consume(c) PROVE Sending'
  BY <1>17, <1>1 DEF Consume, At, To, UnchangedSender, CallPCs
<1>18. ASSUME NEW c \in Call, Place(c) PROVE Sending'
  BY <1>18, <1>1 DEF Place, At, To, UnchangedSender, CallPCs
<1>19. ASSUME NEW c \in Call, Activate(c) PROVE Sending'
  BY <1>19, <1>1 DEF Activate, At, To, UnchangedSender, CallPCs
<1>20. ASSUME NEW c \in Call, Report(c) PROVE Sending'
  BY <1>20, <1>1 DEF Report, At, To, UnchangedSender, CallPCs
<1>21. ASSUME NEW c \in Call, DieReceiving(c) PROVE Sending'
  BY <1>21, <1>1 DEF DieReceiving, To, UnchangedSender, CallPCs
<1>22. ASSUME NEW c \in Call, Forget(c) PROVE Sending'
  BY <1>22, <1>1 DEF Forget, UnchangedSender
<1>23. CASE Prune
  BY <1>23, <1>1 DEF Prune, UnchangedSender
<1>24. CASE StandbyOutage
  BY <1>24, <1>1, NoneAssumption DEF StandbyOutage, At, UnchangedSender
<1>25. CASE UNCHANGED vars
  BY <1>25, <1>1 DEF vars
<1>26. QED
  BY <1>3, <1>4, <1>5, <1>6, <1>7, <1>8, <1>9, <1>10, <1>11, <1>12, <1>13, <1>14, <1>15,
     <1>16, <1>17, <1>18, <1>19, <1>20, <1>21, <1>22, <1>23, <1>24, <1>25 DEF Next,
     SenderStep, ReceiverStep

LEMMA ReceiptedStep == Types /\ Sending /\ Receipted /\ [Next]_vars => Receipted'
<1> SUFFICES ASSUME Types, Sending, Receipted, [Next]_vars PROVE Receipted'
  OBVIOUS
<1>0. confirmed \in Nat /\ confirmed' \in Nat /\ confirmed <= confirmed'
  BY StandbyStep DEF Types, TypeStandby
<1> USE DEF Types, TypePending, Pendings, Snaps, TypeReceipts, Sending, Heard, Receipted
<1>1. ASSUME NEW s \in Snapshot, s.epoch <= confirmed PROVE s.epoch <= confirmed'
  BY <1>0, <1>1, EpochIsNat
<1>2. CASE UNCHANGED <<pending, receipt, ack>>
  BY <1>1, <1>2
<1>3. CASE Begin
  BY <1>1, <1>3 DEF Begin
<1>4. CASE Inspect
  BY <1>1, <1>4 DEF Inspect
<1>5. CASE Dropped
  BY <1>1, <1>5 DEF Dropped, NoSnapshot
<1>6. CASE Build
  BY <1>1, <1>6 DEF Build
<1>7. CASE SaveReceipt
  BY <1>1, <1>7 DEF SaveReceipt
<1>8. CASE RecordAcknowledgement
  BY <1>1, <1>8 DEF RecordAcknowledgement
<1>9. CASE Retire
  BY <1>1, <1>9 DEF Retire
<1>10. CASE Die
  BY <1>1, <1>10 DEF Die
<1>11. QED
  BY <1>2, <1>3, <1>4, <1>5, <1>6, <1>7, <1>8, <1>9, <1>10, ReceiverLeavesSender
     DEF Next, SenderStep, ReceiverStep, vars, Publish, Probe, InspectFails, Ship, Answered, CallReceive, GiveUp

-----------------------------------------------------------------------------
LEMMA IInvStep == IInv /\ [Next]_vars => IInv'
<1> SUFFICES ASSUME IInv, [Next]_vars PROVE IInv'
  OBVIOUS
<1>1. Types'
  BY PrimaryStep, PendingStep, ReceiptsStep, SenderStepTypes, IncomingStep, CallsStep,
     StandbyStep DEF IInv, Types
<1>2. QED
  BY <1>1, HolderStep, ServedStep, ReportedStep, SendingStep, ReceiptedStep DEF IInv

LEMMA IInvImplies == IInv => OutboxInvariant
<1> SUFFICES ASSUME IInv PROVE OutboxInvariant
  OBVIOUS
<1>1. TypeOK
  BY DEF IInv, Types, TypePrimary, TypePending, TypeReceipts, TypeSender, TypeIncoming,
     TypeCalls, TypeStandby,
         TypeFaults, Pendings, Snaps, Senders, Calls, OneHolder, TypeOK
<1>2. ASSUME NEW r \in {receipt, ack} \ {None} PROVE current # None /\ r.epoch <= current.epoch
  <2>1. r \in Snapshot /\ r.epoch <= confirmed
    BY DEF IInv, Types, TypeReceipts, Snaps, Receipted
  <2>2. confirmed \in Nat /\ r.epoch \in 1..MaxEpoch
    BY <2>1, EpochIsNat DEF IInv, Types, TypeStandby
  <2>3. current # None /\ confirmed <= current.epoch
    BY <2>1, <2>2 DEF IInv, Served
  <2>4. current.epoch \in 1..MaxEpoch
    BY <2>3, EpochIsNat DEF IInv, Types, TypeStandby, Snaps
  <2>5. QED
    BY <2>1, <2>2, <2>3, <2>4
<1>3. QED
  BY <1>1, <1>2 DEF OutboxInvariant, ReceiptIsPublished

(* For any receivers and bounds: what the outbox or the status call         *)
(* replicated is served by the standby, whatever died, was given up or lost *)
(* power meanwhile (storage/replication.py).                                *)
THEOREM ReplicatedIsServed == Spec => []OutboxInvariant
<1>1. Init => IInv
  BY InitIInv
<1>2. IInv /\ [Next]_vars => IInv'
  BY IInvStep
<1>3. IInv => OutboxInvariant
  BY IInvImplies
<1>4. QED
  BY <1>1, <1>2, <1>3, PTL DEF Spec

(* The pending snapshot is torn or dropped only as acknowledged. *)
LEMMA RemovalStep ==
    IInv /\ [Next]_vars =>
        (pending.state = "whole" /\ pending'.state # "whole" => pending.snap.epoch <= confirmed)
<1> SUFFICES ASSUME IInv, [Next]_vars, pending.state = "whole", pending'.state # "whole"
             PROVE  pending.snap.epoch <= confirmed
  OBVIOUS
<1> USE DEF IInv, Types, TypePending, Pendings, Sending, Heard
<1>1. CASE Inspect
  BY <1>1 DEF Inspect, Receipted
<1>2. CASE Retire
  BY <1>2 DEF Retire
<1>3. CASE Dropped
  BY <1>3 DEF Dropped
<1>4. CASE Die
  BY <1>4 DEF Die
<1>5. CASE pending' = pending
  BY <1>5
<1>6. QED
  BY <1>1, <1>2, <1>3, <1>4, <1>5, ReceiverLeavesSender
     DEF Next, SenderStep, ReceiverStep, vars, Publish, Begin, Probe, InspectFails, Build, Ship, Answered,
         SaveReceipt, RecordAcknowledgement, CallReceive, GiveUp

(* The sender parts with its snapshot only when the standby has confirmed it*)
(* or a later one: "failed work keeps the same snapshot for retry".         *)
THEOREM ConfirmedBeforeRemoved == Spec => RemovedIsConfirmed
<1>1. Init => IInv
  BY InitIInv
<1>2. IInv /\ [Next]_vars => IInv'
  BY IInvStep
<1>3. IInv /\ [Next]_vars =>
        [pending.state = "whole" /\ pending'.state # "whole" => pending.snap.epoch <= confirmed]_vars
  BY RemovalStep
<1>4. QED
  BY <1>1, <1>2, <1>3, PTL DEF Spec, RemovedIsConfirmed
=============================================================================
