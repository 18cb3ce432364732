------------------------- MODULE UploadQueue_proofs -------------------------
(* Upload queues and the primary together implement RevisionHistory, for    *)
(* any devices, sessions and bounds, and captured content is never lost.    *)
(* While files only grow no update is lost either, and a device that is     *)
(* alone with its sessions does not conflict with itself.                   *)
EXTENDS UploadQueue, SequenceTheorems, WellFoundedInduction, TLAPS

(* A non-empty set of numbered things up to a bound has a highest one.      *)
LEMMA HighestExists ==
    ASSUME NEW Thing, NEW rank \in [Thing -> 0..MaxVersions], Thing # {}
    PROVE  \E x \in Thing : \A y \in Thing : rank[y] <= rank[x]
<1> DEFINE gap == {n \in Nat : \E x \in Thing : n = MaxVersions - rank[x]}
           less == OpToRel(<, Nat)
<1>1. gap \subseteq Nat /\ gap # {}
  BY BoundAssumption
<1>2. PICK g \in gap : \A h \in gap : <<h, g>> \notin less
  <2> HIDE DEF gap, less
  <2>1. IsWellFoundedOn(less, Nat)
    BY NatLessThanWellFounded DEF less
  <2>2. QED
    BY <1>1, <2>1, WFMin
<1>3. \A h \in gap : g <= h
  <2> SUFFICES ASSUME NEW h \in gap, ~(g <= h) PROVE FALSE
    OBVIOUS
  <2>1. g \in Nat /\ h \in Nat /\ h < g
    OBVIOUS
  <2>2. <<h, g>> \in less
    BY <2>1 DEF OpToRel
  <2>3. QED
    BY <1>2, <2>2
<1>4. PICK x \in Thing : g = MaxVersions - rank[x]
  OBVIOUS
<1>5. ASSUME NEW y \in Thing PROVE rank[y] <= rank[x]
  <2>1. MaxVersions - rank[y] \in gap
    BY BoundAssumption
  <2>2. MaxVersions - rank[x] <= MaxVersions - rank[y]
    <3> HIDE DEF gap
    <3>1. QED
      BY <1>3, <1>4, <2>1
  <2>3. rank[x] \in Nat /\ rank[y] \in Nat /\ MaxVersions \in Nat
    BY BoundAssumption
  <2>4. QED
    BY <2>2, <2>3
<1>6. QED
  BY <1>5

LEMMA ExpectedType ==
    ASSUME TypeOK, NEW c \in Producer, NEW s \in Session
    PROVE  Expected(c, s) \in Revision \cup {None}
<1>1. CASE Rows(c, s) = {}
  BY <1>1 DEF Expected, TypeOK
<1>2. CASE Rows(c, s) # {}
  <2> DEFINE rank == [row \in Rows(c, s) |-> row.id.v]
             Highest(row) == \A other \in Rows(c, s) : other.id.v <= row.id.v
  <2>1. Rows(c, s) \subseteq Row
    BY DEF Rows, TypeOK
  <2>2. rank \in [Rows(c, s) -> 0..MaxVersions]
    BY <2>1 DEF Row, RequestId
  <2>3. \E row \in Rows(c, s) : \A other \in Rows(c, s) : rank[other] <= rank[row]
    <3> HIDE DEF rank
    <3>1. QED
      BY <1>2, <2>2, HighestExists
  <2>4. \E row \in Rows(c, s) : Highest(row)
    BY <2>3
  <2>5. (CHOOSE row \in Rows(c, s) : Highest(row)) \in Rows(c, s)
    BY <2>4
  <2>6. Expected(c, s) = (CHOOSE row \in Rows(c, s) : Highest(row)).rev
    BY <1>2 DEF Expected
  <2>7. QED
    BY <2>1, <2>5, <2>6 DEF Row
<1>3. QED
  BY <1>1, <1>2

-----------------------------------------------------------------------------
(* The rows a client works with: queued, or held by its flush. *)
Held(c) == pending[c] \cup fl[c].todo \cup ({fl[c].row} \ {None})

OwnRows == \A c \in Producer : \A row \in Held(c) : row.id.c = c

(* The key of a row tells which content of the file it carries. *)
RowContent ==
    \A c \in Producer : \A row \in Held(c) :
       /\ row.id.v <= version[c][row.id.s]
       /\ row.id.v = version[c][row.id.s] => row.rev = file[c][row.id.s]

SameContent ==
    \A c \in Producer : \A row, other \in Held(c) :
       row.id = other.id => row.rev = other.rev

CapturedPast ==
    \A c \in Producer, s \in Session : captured[c][s] <= version[c][s]

(* Receipts, and answers on the strength of one, are about stored content.  *)
ReceiptStored == \A r \in receipts : r.rev \in revs[r.id.s]

DurableStored ==
    \A c \in Producer :
       fl[c].pc = "durable" => fl[c].row.rev \in revs[fl[c].row.id.s]

QueueInv == OwnRows /\ RowContent /\ SameContent /\ CapturedPast

StoreInv == ReceiptStored /\ DurableStored

IInv == TypeOK /\ QueueInv /\ StoreInv

(* What is uploaded extends what it is expected to replace.                 *)
Based(x) == x.exp # None => IsPrefix(x.exp, x.rev)

LEMMA EmptyRevision == <<>> \in Revision
BY BoundAssumption DEF Revision, SeqOf

LEMMA RestType ==
    ASSUME NEW rows \in SUBSET Row
    PROVE  /\ Rest(rows) \in FlushState
           /\ Rest(rows).row = None
           /\ Rest(rows).pc \notin Sending
           /\ Rest(rows).todo = rows
           /\ rows # {} => Rest(rows).pc # "idle"
BY DEF Rest, IdleFlush, NoHeads, FlushState, Sending, Replies

LEMMA IdleType ==
    /\ IdleFlush \in FlushState
    /\ IdleFlush.pc = "idle" /\ IdleFlush.row = None /\ IdleFlush.todo = {}
    /\ "idle" \notin Sending
BY DEF IdleFlush, NoHeads, FlushState, Sending, Replies

(* What sending a row, an answer and a reconciled row change in a flush.    *)
LEMMA FlushStep ==
    ASSUME NEW flush \in FlushState, NEW row \in Row, NEW kind \in Replies
    PROVE  LET sent == [flush EXCEPT !.pc = "wait", !.row = row, !.todo = @ \ {row}]
               answered == [flush EXCEPT !.pc = kind]
               rest == [flush EXCEPT !.todo = @ \ {row}]
           IN /\ sent \in FlushState /\ sent.pc = "wait" /\ sent.row = row
              /\ sent.todo = flush.todo \ {row}
              /\ answered \in FlushState /\ answered.pc = kind
              /\ answered.row = flush.row /\ answered.todo = flush.todo
              /\ rest \in FlushState /\ rest.pc = flush.pc /\ rest.row = flush.row
              /\ rest.todo = flush.todo \ {row}
BY DEF FlushState

(* Rows that are marked, rebased or due again keep their key and content.   *)
LEMMA RowStep ==
    ASSUME NEW row \in Row, NEW state \in {"pending", "conflict", "rejected"},
           NEW exp \in Revision \cup {None}
    PROVE  LET marked == [row EXCEPT !.state = state, !.late = TRUE]
               rebased == [row EXCEPT !.exp = exp, !.state = "pending", !.late = FALSE]
               due == [row EXCEPT !.late = FALSE]
           IN /\ marked \in Row /\ marked.id = row.id /\ marked.rev = row.rev /\ marked.exp = row.exp
              /\ rebased \in Row /\ rebased.id = row.id /\ rebased.rev = row.rev /\ rebased.exp = exp
              /\ due \in Row /\ due.id = row.id /\ due.rev = row.rev /\ due.exp = row.exp
BY DEF Row

(* The flush in flight, and a row that goes back to the queue.  *)
LEMMA FlightType ==
    ASSUME TypeOK, QueueInv, NEW c \in Producer, fl[c].pc \in Sending,
           NEW state \in {"pending", "conflict", "rejected"}, Mark(c, state)
    PROVE  /\ pending' \in [Producer -> SUBSET Row]
           /\ \A d \in Producer :
                /\ \A row \in pending'[d] : row.id.c = d
                /\ \A row, other \in pending'[d] : row.id = other.id => row = other
<1>1. fl[c].row \in Row /\ fl[c].row.id.c = c
  BY NoneAssumption DEF TypeOK, FlushState, QueueInv, OwnRows, Held
<1> DEFINE marked == [fl[c].row EXCEPT !.state = state, !.late = TRUE]
<1>2. marked \in Row /\ marked.id = fl[c].row.id
  BY <1>1, RowStep
<1>3. pending' = [pending EXCEPT ![c] = Without(c) \cup {marked}]
  BY DEF Mark
<1>4. QED
  <2> HIDE DEF marked
  <2>1. QED
    BY <1>1, <1>2, <1>3 DEF TypeOK, Without

(* Types, and the shape of queues and flushes. *)
LEMMA TypeStep == TypeOK /\ QueueInv /\ [Next]_vars => TypeOK'
<1> SUFFICES ASSUME TypeOK, QueueInv, [Next]_vars PROVE TypeOK'
  OBVIOUS
<1> USE NoneAssumption, BoundAssumption DEF TypeOK, clientVars, serverVars
<1>1. ASSUME NEW c \in Producer, NEW s \in Session, ChangeFile(c, s) PROVE TypeOK'
  <2>1. PICK new \in Revision : file' = [file EXCEPT ![c][s] = new]
    BY <1>1 DEF ChangeFile
  <2>2. file' \in [Producer -> [Session -> Revision]]
    BY <2>1
  <2>3. version' \in [Producer -> [Session -> 0..MaxVersions]]
    <3>1. version[c][s] + 1 \in 0..MaxVersions
      BY <1>1 DEF ChangeFile
    <3>2. QED
      BY <1>1, <3>1 DEF ChangeFile
  <2>4. QED
    BY <1>1, <2>2, <2>3 DEF ChangeFile
<1>2. ASSUME NEW c \in Producer, NEW s \in Session, NEW force \in BOOLEAN, Capture(c, s, force)
      PROVE  TypeOK'
  <2>1. NewRow(c, s) \in Row /\ NewRow(c, s).id.c = c
    BY ExpectedType DEF NewRow, Row, RequestId
  <2>2. /\ pending' \in [Producer -> SUBSET Row]
        /\ \A d \in Producer :
             /\ \A r \in pending'[d] : r.id.c = d
             /\ \A r1, r2 \in pending'[d] : r1.id = r2.id => r1 = r2
    <3>1. CASE \E row \in pending[c] : row.id = NewRow(c, s).id
      BY <1>2, <3>1 DEF Capture
    <3>2. CASE \A row \in pending[c] : row.id # NewRow(c, s).id
      <4>1. pending' = [pending EXCEPT ![c] = @ \cup {NewRow(c, s)}]
        BY <1>2, <3>2 DEF Capture
      <4>2. QED
        BY <2>1, <3>2, <4>1
    <3>3. QED
      BY <3>1, <3>2
  <2>3. captured' \in [Producer -> [Session -> 0..MaxVersions]]
    BY <1>2 DEF Capture
  <2>4. QED
    BY <1>2, <2>2, <2>3 DEF Capture
<1>3. ASSUME NEW c \in Producer, FlushStart(c) PROVE TypeOK'
  <2>1. Batch(c) \in SUBSET Row
    BY DEF Batch
  <2>2. QED
    BY <1>3, <2>1, RestType DEF FlushStart
<1>4. ASSUME NEW c \in Producer, FlushSend(c) PROVE TypeOK'
  <2>1. PICK row \in fl[c].todo :
           /\ net' = net \cup {Message(row)}
           /\ fl' = [fl EXCEPT ![c] = [fl[c] EXCEPT !.pc = "wait", !.row = row, !.todo = @ \ {row}]]
    BY <1>4 DEF FlushSend
  <2>2. row \in Row
    BY DEF FlushState
  <2>3. Message(row) \in Request
    BY <2>2 DEF Message, Row, Request
  <2>4. fl' \in [Producer -> FlushState]
    <3> DEFINE sent == [fl[c] EXCEPT !.pc = "wait", !.row = row, !.todo = @ \ {row}]
    <3>1. sent \in FlushState
      BY <2>2, FlushStep DEF Replies
    <3>2. fl' = [fl EXCEPT ![c] = sent]
      BY <2>1
    <3> HIDE DEF sent
    <3>3. QED
      BY <3>1, <3>2
  <2>5. fl'[c].row = row /\ fl'[c].pc = "wait" /\ \A d \in Producer \ {c} : fl'[d] = fl[d]
    BY <2>1 DEF FlushState
  <2>6. QED
    BY <1>4, <2>1, <2>2, <2>3, <2>4, <2>5 DEF FlushSend, Sending
<1>5. ASSUME NEW c \in Producer, FlushAck(c) PROVE TypeOK'
  <2>1. fl[c].row \in Row /\ fl[c].todo \in SUBSET Row
    BY <1>5 DEF FlushAck, FlushState, Sending, Replies
  <2>2. acked' \in [Producer -> [Session -> Revision \cup {None}]]
    BY <1>5, <2>1 DEF FlushAck, Row, RequestId
  <2>3. pending' \in [Producer -> SUBSET Row] /\ \A d \in Producer : pending'[d] \subseteq pending[d]
    BY <1>5 DEF FlushAck, Without
  <2>4. fl' = [fl EXCEPT ![c] = Rest(fl[c].todo)]
    BY <1>5 DEF FlushAck, Done
  <2>5. QED
    BY <1>5, <2>1, <2>2, <2>3, <2>4, RestType DEF FlushAck
<1>6. ASSUME NEW c \in Producer, FlushStopped(c) PROVE TypeOK'
  <2>1. fl[c].todo \in SUBSET Row
    BY DEF FlushState
  <2>2. fl' = [fl EXCEPT ![c] = Rest(fl[c].todo)]
    BY <1>6 DEF FlushStopped, Done
  <2>3. fl[c].pc \in Sending /\ fl[c].pc \in {"pending", "conflict", "rejected"} /\ Mark(c, fl[c].pc)
    BY <1>6 DEF FlushStopped, Sending, Replies
  <2>4. QED
    BY <1>6, <2>1, <2>2, <2>3, FlightType, RestType DEF FlushStopped
<1>7. ASSUME NEW c \in Producer, FlushFail(c) PROVE TypeOK'
  BY <1>7, FlightType, IdleType DEF FlushFail
<1>8. ASSUME NEW c \in Producer, NEW s \in Session, Due(c, s) PROVE TypeOK'
  <2>1. PICK row \in pending[c] :
           pending' = [pending EXCEPT ![c] = (@ \ {row}) \cup {[row EXCEPT !.late = FALSE]}]
    BY <1>8 DEF Due, Rows
  <2>2. [row EXCEPT !.late = FALSE] \in Row /\ [row EXCEPT !.late = FALSE].id = row.id
    BY RowStep
  <2>3. /\ pending' \in [Producer -> SUBSET Row]
        /\ \A d \in Producer :
             /\ \A r \in pending'[d] : r.id.c = d
             /\ \A r1, r2 \in pending'[d] : r1.id = r2.id => r1 = r2
    <3> DEFINE due == [row EXCEPT !.late = FALSE]
    <3>1. pending' = [pending EXCEPT ![c] = (@ \ {row}) \cup {due}]
      BY <2>1
    <3>2. due \in Row /\ due.id = row.id
      BY <2>2
    <3> HIDE DEF due
    <3>3. QED
      BY <3>1, <3>2
  <2>4. QED
    BY <1>8, <2>3 DEF Due
<1>9. ASSUME NEW c \in Producer, Die(c) PROVE TypeOK'
  BY <1>9, IdleType DEF Die
<1>10. ASSUME NEW c \in Producer, FetchHeads(c) PROVE TypeOK'
  <2> DEFINE rows == {row \in pending[c] : row.state # "rejected" /\ Oldest(c, row)}
             flush == [IdleFlush EXCEPT !.pc = "heads", !.todo = rows, !.heads = head]
  <2>1. rows \in SUBSET Row
    OBVIOUS
  <2>2. flush \in FlushState /\ flush.pc = "heads" /\ flush.row = None
    <3> HIDE DEF rows
    <3>1. QED
      BY <2>1 DEF FlushState, IdleFlush, NoHeads
  <2>3. fl' = [fl EXCEPT ![c] = flush]
    BY <1>10 DEF FetchHeads
  <2>4. "heads" \notin Sending
    BY DEF Sending, Replies
  <2>5. UNCHANGED <<clientVars, pending, acked, net, serverVars>>
    BY <1>10 DEF FetchHeads
  <2>6. QED
    <3> HIDE DEF flush
    <3>1. QED
      BY <2>2, <2>3, <2>4, <2>5
<1>11. ASSUME NEW c \in Producer, Reconcile(c) PROVE TypeOK'
  <2>1. PICK row \in fl[c].todo :
           /\ pending' = [pending EXCEPT ![c] =
                {other \in @ : other.id # row.id} \cup
                {[row EXCEPT !.exp = fl[c].heads[row.id.s], !.state = "pending", !.late = FALSE]}]
           /\ fl' = [fl EXCEPT ![c].todo = @ \ {row}]
    BY <1>11 DEF Reconcile
  <2> DEFINE rebased == [row EXCEPT !.exp = fl[c].heads[row.id.s], !.state = "pending", !.late = FALSE]
  <2>2. row \in Row /\ row.id.c = c
    BY DEF FlushState, QueueInv, OwnRows, Held
  <2>3. fl[c].heads[row.id.s] \in Revision \cup {None}
    BY <2>2 DEF FlushState, Row, RequestId
  <2>4. rebased \in Row /\ rebased.id = row.id
    BY <2>2, <2>3 DEF Row
  <2>5. /\ pending' \in [Producer -> SUBSET Row]
        /\ \A d \in Producer :
             /\ \A r \in pending'[d] : r.id.c = d
             /\ \A r1, r2 \in pending'[d] : r1.id = r2.id => r1 = r2
    <3>1. pending' = [pending EXCEPT ![c] = {other \in @ : other.id # row.id} \cup {rebased}]
      BY <2>1
    <3>2. QED
      <4> HIDE DEF rebased
      <4>1. QED
        BY <2>2, <2>4, <3>1
  <2>6. fl' \in [Producer -> FlushState]
    <3>1. \A flush \in FlushState : [flush EXCEPT !.todo = @ \ {row}] \in FlushState
      BY <2>2, FlushStep DEF Replies
    <3>2. QED
      BY <2>1, <3>1
  <2>7. \A d \in Producer :
           fl'[d].pc = fl[d].pc /\ fl'[d].row = fl[d].row /\ fl'[d].todo \subseteq fl[d].todo
    BY <2>1 DEF FlushState
  <2>8. QED
    BY <1>11, <2>5, <2>6, <2>7 DEF Reconcile
<1>12. ASSUME NEW m \in net, Serve(m) PROVE TypeOK'
  <2>1. /\ m \in Request /\ m.id \in RequestId /\ m.id.c \in Producer
        /\ m.id.s \in Session /\ m.rev \in Revision
    BY DEF Request, RequestId
  <2>2. PICK kind \in Replies : Answer(m, kind)
    BY <1>12 DEF Serve, Refuse, Repeat, Conflict, Commit, Replies
  <2>3. /\ fl' \in [Producer -> FlushState]
        /\ \A c \in Producer :
             /\ fl'[c].row # None <=> fl'[c].pc \in Sending
             /\ fl'[c].todo # {} => fl'[c].pc # "idle"
    <3>1. CASE fl[m.id.c].pc = "wait"
      <4>1. fl[m.id.c].row \in Row /\ fl[m.id.c] \in FlushState
        BY <2>1, <3>1 DEF FlushState, Sending
      <4>2. kind # "idle" /\ kind \in Sending /\ "wait" \in Sending
        BY DEF Sending, Replies
      <4>3. /\ [fl[m.id.c] EXCEPT !.pc = kind] \in FlushState
            /\ [fl[m.id.c] EXCEPT !.pc = kind].pc = kind
            /\ [fl[m.id.c] EXCEPT !.pc = kind].row = fl[m.id.c].row
        <5> HIDE DEF TypeOK
        <5> DEFINE flush == fl[m.id.c]
        <5>1. flush \in FlushState /\ flush.row \in Row /\ kind \in Replies
          BY <4>1
        <5> HIDE DEF flush
        <5>2. /\ [flush EXCEPT !.pc = kind] \in FlushState
              /\ [flush EXCEPT !.pc = kind].pc = kind
              /\ [flush EXCEPT !.pc = kind].row = flush.row
          BY <5>1, <4>2 DEF FlushState, Replies
        <5>3. QED
          BY <5>2 DEF flush
      <4>4. fl' = fl \/ fl' = [fl EXCEPT ![m.id.c] = [fl[m.id.c] EXCEPT !.pc = kind]]
        BY <2>2 DEF Answer
      <4>5. QED
        BY <2>1, <3>1, <4>1, <4>2, <4>3, <4>4
    <3>2. CASE fl[m.id.c].pc # "wait"
      BY <2>2, <3>2 DEF Answer
    <3>3. QED
      BY <3>1, <3>2
  <2>4. /\ head' \in [Session -> Revision \cup {None}]
        /\ revs' \in [Session -> SUBSET Revision]
        /\ receipts' \subseteq [id : RequestId, rev : Revision]
    <3>1. CASE UNCHANGED serverVars
      BY <3>1
    <3>2. CASE Commit(m)
      BY <2>1, <3>2 DEF Commit, NewHead
    <3>3. QED
      BY <1>12, <3>1, <3>2 DEF Serve, Refuse, Repeat, Conflict
  <2>5. net' \subseteq Request
    BY <1>12 DEF Serve
  <2>6. QED
    BY <1>12, <2>3, <2>4, <2>5 DEF Serve
<1>13. CASE UNCHANGED vars
  BY <1>13 DEF vars
<1>14. QED
  <2> HIDE DEF TypeOK
  <2>1. QED
    BY <1>1, <1>2, <1>3, <1>4, <1>5, <1>6, <1>7, <1>8, <1>9, <1>10, <1>11, <1>12, <1>13
       DEF Next, Flush
-----------------------------------------------------------------------------
(* Except for a capture, no step makes up a row: what a client holds after  *)
(* it, it held before, with the same key and content, and expecting the same*)
(* head unless it was reconciled with another one that it extends.          *)
Inherited(d) ==
    \A row \in Held(d)' : \E old \in Held(d) :
       row.id = old.id /\ row.rev = old.rev /\ (row.exp = old.exp \/ Based(row))

(* An answer changes nothing but where the flush stands. *)
LEMMA AnswerStep ==
    ASSUME TypeOK, NEW m \in Request, NEW kind \in Replies, Answer(m, kind), NEW d \in Producer
    PROVE  /\ fl'[d].todo = fl[d].todo /\ fl'[d].row = fl[d].row
           /\ fl'[d].pc # fl[d].pc =>
                fl'[d].pc = kind /\ fl[d].pc = "wait" /\ d = m.id.c /\ Message(fl[d].row) = m
<1>1. CASE fl[m.id.c].pc = "wait" /\ Message(fl[m.id.c].row) = m
  <2> DEFINE answered == [fl[m.id.c] EXCEPT !.pc = kind]
  <2>1. m.id.c \in Producer
    BY DEF Request, RequestId
  <2>2. fl[m.id.c] \in FlushState /\ fl[m.id.c].row \in Row
    BY <1>1, <2>1, NoneAssumption DEF TypeOK, FlushState, Sending
  <2>3. answered.pc = kind /\ answered.row = fl[m.id.c].row /\ answered.todo = fl[m.id.c].todo
    BY <2>2 DEF FlushState
  <2>4. fl' = [fl EXCEPT ![m.id.c] = answered]
    BY <1>1 DEF Answer
  <2> HIDE DEF answered
  <2>5. QED
    BY <1>1, <2>1, <2>3, <2>4 DEF TypeOK
<1>2. CASE ~(fl[m.id.c].pc = "wait" /\ Message(fl[m.id.c].row) = m)
  BY <1>2 DEF Answer
<1>3. QED
  BY <1>1, <1>2

LEMMA ServeStep ==
    ASSUME TypeOK, NEW m \in net, Serve(m)
    PROVE  /\ m \in Request
           /\ \E kind \in Replies : Answer(m, kind)
BY DEF TypeOK, Serve, Refuse, Repeat, Conflict, Commit, Replies

LEMMA MarkStep ==
    ASSUME TypeOK, NEW c \in Producer, fl[c].pc \in Sending,
           NEW state \in {"pending", "conflict", "rejected"}, Mark(c, state)
    PROVE  /\ \A d \in Producer \ {c} : pending'[d] = pending[d]
           /\ \E marked : /\ marked.id = fl[c].row.id /\ marked.rev = fl[c].row.rev
                          /\ marked.exp = fl[c].row.exp
                          /\ pending'[c] = Without(c) \cup {marked}
<1>1. fl[c].row \in Row
  BY NoneAssumption DEF TypeOK, FlushState
<1> DEFINE marked == [fl[c].row EXCEPT !.state = state, !.late = TRUE]
<1>2. marked.id = fl[c].row.id /\ marked.rev = fl[c].row.rev /\ marked.exp = fl[c].row.exp
  BY <1>1, RowStep
<1>3. pending' = [pending EXCEPT ![c] = Without(c) \cup {marked}]
  BY DEF Mark
<1>4. QED
  <2> HIDE DEF marked
  <2>1. QED
    BY <1>2, <1>3 DEF TypeOK

LEMMA ReconcileStep ==
    ASSUME TypeOK, NEW c \in Producer, Reconcile(c)
    PROVE  \E row \in fl[c].todo, rebased \in Row :
             /\ row \in Row /\ rebased.id = row.id /\ rebased.rev = row.rev /\ Based(rebased)
             /\ pending' = [pending EXCEPT ![c] = {other \in @ : other.id # row.id} \cup {rebased}]
             /\ fl'[c].todo = fl[c].todo \ {row}
             /\ fl'[c].row = fl[c].row /\ fl'[c].pc = fl[c].pc
             /\ \A d \in Producer \ {c} : fl'[d] = fl[d]
<1>1. PICK row \in fl[c].todo :
         /\ fl[c].heads[row.id.s] # None => IsPrefix(fl[c].heads[row.id.s], row.rev)
         /\ pending' = [pending EXCEPT ![c] =
              {other \in @ : other.id # row.id} \cup
              {[row EXCEPT !.exp = fl[c].heads[row.id.s], !.state = "pending", !.late = FALSE]}]
         /\ fl' = [fl EXCEPT ![c].todo = @ \ {row}]
  BY DEF Reconcile
<1> DEFINE rebased == [row EXCEPT !.exp = fl[c].heads[row.id.s], !.state = "pending", !.late = FALSE]
<1>2. row \in Row /\ fl[c].heads[row.id.s] \in Revision \cup {None}
  BY DEF TypeOK, FlushState, Row, RequestId
<1>3. /\ rebased \in Row /\ rebased.id = row.id
      /\ rebased.rev = row.rev /\ rebased.exp = fl[c].heads[row.id.s]
  BY <1>2, RowStep
<1>4. /\ fl'[c].todo = fl[c].todo \ {row}
      /\ fl'[c].row = fl[c].row /\ fl'[c].pc = fl[c].pc
      /\ \A d \in Producer \ {c} : fl'[d] = fl[d]
  BY <1>1 DEF TypeOK, FlushState
<1>5. pending' = [pending EXCEPT ![c] = {other \in @ : other.id # row.id} \cup {rebased}]
  BY <1>1
<1> HIDE DEF rebased
<1>6. Based(rebased)
  BY <1>1, <1>3 DEF Based
<1>7. QED
  BY <1>2, <1>3, <1>4, <1>5, <1>6

LEMMA DueStep ==
    ASSUME TypeOK, NEW c \in Producer, NEW s \in Session, Due(c, s)
    PROVE  \E row \in pending[c], due \in Row :
             /\ due.id = row.id /\ due.rev = row.rev /\ due.exp = row.exp
             /\ pending' = [pending EXCEPT ![c] = (@ \ {row}) \cup {due}]
<1>1. PICK row \in pending[c] :
         pending' = [pending EXCEPT ![c] = (@ \ {row}) \cup {[row EXCEPT !.late = FALSE]}]
  BY DEF Due, Rows
<1> DEFINE due == [row EXCEPT !.late = FALSE]
<1>2. due \in Row /\ due.id = row.id /\ due.rev = row.rev /\ due.exp = row.exp
  <2>1. row \in Row
    BY DEF TypeOK
  <2>2. QED
    BY <2>1 DEF Row
<1>3. pending' = [pending EXCEPT ![c] = (@ \ {row}) \cup {due}]
  BY <1>1
<1> HIDE DEF due
<1>4. QED
  BY <1>2, <1>3

LEMMA HeldStep ==
    ASSUME TypeOK, NEW d \in Producer,
           \/ \E c \in Producer :
                \/ Flush(c) \/ FlushFail(c) \/ Die(c) \/ FetchHeads(c) \/ Reconcile(c)
                \/ \E s \in Session : Due(c, s) \/ ChangeFile(c, s)
           \/ \E m \in net : Serve(m)
           \/ UNCHANGED vars
    PROVE  Inherited(d)
<1> USE DEF Inherited, Held
<1>1. ASSUME NEW c \in Producer, FlushStart(c) PROVE Inherited(d)
  <2>1. Batch(c) \subseteq pending[c] /\ Batch(c) \in SUBSET Row
    BY DEF Batch, TypeOK
  <2>2. pending' = pending /\ fl' = [fl EXCEPT ![c] = Rest(Batch(c))]
    BY <1>1 DEF FlushStart
  <2>3. Rest(Batch(c)).todo = Batch(c) /\ Rest(Batch(c)).row = None
    BY <2>1, RestType
  <2>4. fl'[d] = fl[d] \/ (fl'[d].todo \subseteq pending[d] /\ fl'[d].row = None)
    BY <2>1, <2>2, <2>3 DEF TypeOK
  <2>5. QED
    BY <2>2, <2>4
<1>2. ASSUME NEW c \in Producer, FlushSend(c) PROVE Inherited(d)
  <2>1. PICK row \in fl[c].todo :
           fl' = [fl EXCEPT ![c] = [fl[c] EXCEPT !.pc = "wait", !.row = row, !.todo = @ \ {row}]]
    BY <1>2 DEF FlushSend
  <2> DEFINE sent == [fl[c] EXCEPT !.pc = "wait", !.row = row, !.todo = @ \ {row}]
  <2>2. row \in Row /\ fl[c] \in FlushState
    BY DEF TypeOK, FlushState
  <2>3. sent.row = row /\ sent.todo = fl[c].todo \ {row}
    BY <2>2 DEF FlushState
  <2>4. fl' = [fl EXCEPT ![c] = sent]
    BY <2>1
  <2> HIDE DEF sent
  <2>5. QED
    BY <1>2, <2>3, <2>4 DEF FlushSend, TypeOK
<1>3. ASSUME NEW c \in Producer, FlushAck(c) PROVE Inherited(d)
  <2>1. fl[c].todo \in SUBSET Row
    BY DEF TypeOK, FlushState
  <2>2. QED
    BY <1>3, <2>1, RestType DEF FlushAck, Done, Without, TypeOK
<1>4. ASSUME NEW c \in Producer, FlushStopped(c) PROVE Inherited(d)
  <2>1. fl[c].todo \in SUBSET Row /\ fl[c].pc \in Sending
    BY <1>4 DEF TypeOK, FlushState, FlushStopped, Sending, Replies
  <2>2. /\ \A e \in Producer \ {c} : pending'[e] = pending[e]
        /\ \E marked : /\ marked.id = fl[c].row.id /\ marked.rev = fl[c].row.rev
                       /\ marked.exp = fl[c].row.exp
                       /\ pending'[c] = Without(c) \cup {marked}
    BY <1>4, <2>1, MarkStep DEF FlushStopped
  <2>3. fl' = [fl EXCEPT ![c] = Rest(fl[c].todo)]
    BY <1>4 DEF FlushStopped, Done
  <2>4. fl[c].row # None
    BY <2>1 DEF TypeOK
  <2>5. Rest(fl[c].todo).row = None /\ Rest(fl[c].todo).todo = fl[c].todo
    BY <2>1, RestType
  <2>6. fl'[d].todo = fl[d].todo /\ (fl'[d].row = fl[d].row \/ fl'[d].row = None)
    BY <2>3, <2>5 DEF TypeOK
  <2>7. QED
    BY <2>2, <2>4, <2>6 DEF Without
<1>5. ASSUME NEW c \in Producer, FlushFail(c) PROVE Inherited(d)
  <2>1. fl[c].pc \in Sending /\ fl[c].row # None
    BY <1>5 DEF TypeOK, FlushFail
  <2>2. /\ \A e \in Producer \ {c} : pending'[e] = pending[e]
        /\ \E marked : /\ marked.id = fl[c].row.id /\ marked.rev = fl[c].row.rev
                       /\ marked.exp = fl[c].row.exp
                       /\ pending'[c] = Without(c) \cup {marked}
    BY <1>5, <2>1, MarkStep DEF FlushFail
  <2>3. fl' = [fl EXCEPT ![c] = IdleFlush]
    BY <1>5 DEF FlushFail
  <2>4. fl'[d] = fl[d] \/ (fl'[d].todo = {} /\ fl'[d].row = None)
    BY <2>3, IdleType DEF TypeOK
  <2>5. QED
    BY <2>1, <2>2, <2>4 DEF Without
<1>6. ASSUME NEW c \in Producer, NEW s \in Session, Due(c, s) PROVE Inherited(d)
  <2>1. fl' = fl
    BY <1>6 DEF Due
  <2>2. PICK row \in pending[c], due \in Row :
           /\ due.id = row.id /\ due.rev = row.rev /\ due.exp = row.exp
           /\ pending' = [pending EXCEPT ![c] = (@ \ {row}) \cup {due}]
    BY <1>6, DueStep
  <2>3. pending'[d] \subseteq pending[d] \cup (IF d = c THEN {due} ELSE {})
    BY <2>2 DEF TypeOK
  <2>4. QED
    BY <2>1, <2>2, <2>3
<1>7. ASSUME NEW c \in Producer, Die(c) PROVE Inherited(d)
  BY <1>7, IdleType DEF Die, TypeOK
<1>8. ASSUME NEW c \in Producer, FetchHeads(c) PROVE Inherited(d)
  <2> DEFINE rows == {row \in pending[c] : row.state # "rejected" /\ Oldest(c, row)}
             flush == [IdleFlush EXCEPT !.pc = "heads", !.todo = rows, !.heads = head]
  <2>1. flush.row = None /\ flush.todo = rows
    BY DEF IdleFlush
  <2>2. pending' = pending /\ fl' = [fl EXCEPT ![c] = flush]
    BY <1>8 DEF FetchHeads
  <2> HIDE DEF flush
  <2>3. QED
    BY <2>1, <2>2 DEF TypeOK
<1>9. ASSUME NEW c \in Producer, Reconcile(c) PROVE Inherited(d)
  <2>1. PICK row \in fl[c].todo, rebased \in Row :
           /\ rebased.id = row.id /\ rebased.rev = row.rev /\ Based(rebased)
           /\ pending' = [pending EXCEPT ![c] = {other \in @ : other.id # row.id} \cup {rebased}]
           /\ fl'[c].todo = fl[c].todo \ {row} /\ fl'[c].row = fl[c].row
           /\ \A e \in Producer \ {c} : fl'[e] = fl[e]
    BY <1>9, ReconcileStep
  <2>2. pending'[d] \subseteq pending[d] \cup (IF d = c THEN {rebased} ELSE {})
    BY <2>1 DEF TypeOK
  <2>3. fl'[d].todo \subseteq fl[d].todo /\ fl'[d].row = fl[d].row
    BY <2>1
  <2>4. QED
    BY <2>1, <2>2, <2>3
<1>10. ASSUME NEW m \in net, Serve(m) PROVE Inherited(d)
  <2>1. fl'[d].todo = fl[d].todo /\ fl'[d].row = fl[d].row
    BY <1>10, ServeStep, AnswerStep
  <2>2. QED
    BY <1>10, <2>1 DEF Serve
<1>11. ASSUME NEW c \in Producer, NEW s \in Session, ChangeFile(c, s) PROVE Inherited(d)
  BY <1>11 DEF ChangeFile
<1>12. CASE UNCHANGED vars
  BY <1>12 DEF vars
<1>13. QED
  <2> HIDE DEF Inherited
  <2>1. QED
    BY <1>1, <1>2, <1>3, <1>4, <1>5, <1>6, <1>7, <1>8, <1>9, <1>10, <1>11, <1>12 DEF Flush
-----------------------------------------------------------------------------
LEMMA InitIInv == Init => IInv /\ CapturedIsKept
<1> SUFFICES ASSUME Init PROVE IInv /\ CapturedIsKept
  OBVIOUS
<1>1. <<>> \in Revision
  BY EmptyRevision
<1>2. TypeOK
  BY <1>1, BoundAssumption, IdleType DEF Init, TypeOK
<1>3. QueueInv
  BY IdleType DEF Init, QueueInv, OwnRows, RowContent, SameContent, CapturedPast, Held
<1>4. StoreInv
  BY IdleType DEF Init, StoreInv, ReceiptStored, DurableStored
<1>5. CapturedIsKept
  BY DEF Init, CapturedIsKept
<1>6. QED
  BY <1>2, <1>3, <1>4, <1>5 DEF IInv

(* Queue and flush keep telling the truth about the files.  *)
LEMMA QueueStep == TypeOK /\ TypeOK' /\ QueueInv /\ [Next]_vars => QueueInv'
<1> SUFFICES ASSUME TypeOK, TypeOK', QueueInv, [Next]_vars PROVE QueueInv'
  OBVIOUS
<1>1. ASSUME UNCHANGED clientVars, \A d \in Producer : Inherited(d) PROVE QueueInv'
  <2>1. OwnRows'
    BY <1>1 DEF QueueInv, OwnRows, Inherited
  <2>2. RowContent'
    BY <1>1 DEF QueueInv, RowContent, Inherited, clientVars
  <2>3. SameContent'
    BY <1>1 DEF QueueInv, SameContent, Inherited
  <2>4. CapturedPast'
    BY <1>1 DEF QueueInv, CapturedPast, clientVars
  <2>5. QED
    BY <2>1, <2>2, <2>3, <2>4 DEF QueueInv
<1>2. ASSUME NEW c \in Producer, NEW s \in Session, ChangeFile(c, s) PROVE QueueInv'
  <2>1. \A d \in Producer : Held(d)' = Held(d)
    BY <1>2 DEF ChangeFile, Held
  <2>2. /\ version' = [version EXCEPT ![c][s] = version[c][s] + 1] /\ captured' = captured
        /\ version[c][s] \in Nat
    BY <1>2, BoundAssumption DEF ChangeFile, TypeOK
  <2>3. \A d \in Producer, t \in Session :
           \/ version'[d][t] = version[d][t] /\ file'[d][t] = file[d][t]
           \/ version'[d][t] = version[d][t] + 1
    BY <1>2, <2>2 DEF ChangeFile, TypeOK
  <2>4. \A d \in Producer, row \in Row : row.id.v \in Nat /\ row.id.s \in Session
    BY BoundAssumption DEF Row, RequestId
  <2>5. \A d \in Producer : Held(d) \subseteq Row
    BY DEF Held, TypeOK, FlushState
  <2>6. \A d \in Producer, t \in Session : version[d][t] \in Nat /\ captured[d][t] \in Nat
    BY BoundAssumption DEF TypeOK
  <2>7. OwnRows' /\ SameContent'
    BY <2>1 DEF QueueInv, OwnRows, SameContent
  <2>8. RowContent'
    BY <2>1, <2>3, <2>4, <2>5, <2>6 DEF QueueInv, RowContent
  <2>9. CapturedPast'
    BY <2>2, <2>3, <2>6 DEF QueueInv, CapturedPast
  <2>10. QED
    BY <2>7, <2>8, <2>9 DEF QueueInv
<1>3. ASSUME NEW c \in Producer, NEW s \in Session, NEW force \in BOOLEAN, Capture(c, s, force)
      PROVE  QueueInv'
  <2> DEFINE new == NewRow(c, s)
  <2>1. new.id.c = c /\ new.id.s = s /\ new.id.v = version[c][s] /\ new.rev = file[c][s]
    BY DEF NewRow
  <2>2. \A d \in Producer : Held(d)' \subseteq Held(d) \cup (IF d = c THEN {new} ELSE {})
    BY <1>3 DEF Capture, Held, TypeOK
  <2>3. file' = file /\ version' = version
    BY <1>3 DEF Capture
  <2>4. \A row \in Held(c) : row.id = new.id => row.rev = new.rev
    BY <2>1 DEF QueueInv, RowContent
  <2>5. version[c][s] \in Nat
    BY BoundAssumption DEF TypeOK
  <2> HIDE DEF new
  <2>6. OwnRows'
    BY <2>1, <2>2 DEF QueueInv, OwnRows
  <2>7. RowContent'
    BY <2>1, <2>2, <2>3, <2>5 DEF QueueInv, RowContent
  <2>8. SameContent'
    BY <2>2, <2>4 DEF QueueInv, SameContent
  <2>9. CapturedPast'
    BY <1>3, <2>3, <2>5 DEF QueueInv, CapturedPast, Capture, TypeOK
  <2>10. QED
    BY <2>6, <2>7, <2>8, <2>9 DEF QueueInv
<1>4. ASSUME NEW c \in Producer,
             \/ Flush(c) \/ FlushFail(c) \/ Die(c) \/ FetchHeads(c) \/ Reconcile(c)
             \/ \E s \in Session : Due(c, s)
      PROVE  QueueInv'
  <2>1. UNCHANGED clientVars
    BY <1>4 DEF Flush, FlushStart, FlushSend, FlushAck, FlushStopped, FlushFail, Die,
       FetchHeads,
           Reconcile, Due
  <2>2. QED
    BY <1>1, <1>4, <2>1, HeldStep
<1>5. ASSUME NEW m \in net, Serve(m) PROVE QueueInv'
  BY <1>1, <1>5, HeldStep DEF Serve
<1>6. CASE UNCHANGED vars
  <2>1. UNCHANGED clientVars
    BY <1>6 DEF vars, clientVars
  <2>2. QED
    BY <1>1, <1>6, <2>1, HeldStep
<1>7. QED
  BY <1>2, <1>3, <1>4, <1>5, <1>6 DEF Next

(* The primary's tables only grow, so receipts and durable answers stay true. *)
LEMMA StoreGrows ==
    ASSUME TypeOK, NEW m \in net, Serve(m), NEW s \in Session
    PROVE  revs[s] \subseteq revs'[s]
BY DEF Serve, Refuse, Repeat, Conflict, Commit, serverVars, TypeOK

LEMMA StoreStep == TypeOK /\ StoreInv /\ [Next]_vars => StoreInv'
<1> SUFFICES ASSUME TypeOK, StoreInv, [Next]_vars PROVE StoreInv'
  OBVIOUS
<1>1. ASSUME UNCHANGED serverVars,
             \A d \in Producer : fl'[d].pc = "durable" => fl'[d] = fl[d]
      PROVE  StoreInv'
  BY <1>1 DEF StoreInv, ReceiptStored, DurableStored, serverVars
<1>2. ASSUME NEW c \in Producer,
             \/ Flush(c) \/ FlushFail(c) \/ Die(c) \/ FetchHeads(c) \/ Reconcile(c)
             \/ \E s \in Session :
                  ChangeFile(c, s) \/ Due(c, s) \/ \E force \in BOOLEAN : Capture(c, s, force)
      PROVE  UNCHANGED serverVars /\ \A d \in Producer : fl'[d].pc = "durable" => fl'[d] = fl[d]
  <2>1. UNCHANGED serverVars
    BY <1>2 DEF Flush, FlushStart, FlushSend, FlushAck, FlushStopped, FlushFail, Die,
       FetchHeads,
           Reconcile, Due, ChangeFile, Capture
  <2>2. \A d \in Producer \ {c} : fl'[d] = fl[d]
    BY <1>2 DEF Flush, FlushStart, FlushSend, FlushAck, FlushStopped, FlushFail, Die,
       FetchHeads,
           Reconcile, Due, ChangeFile, Capture, Done, TypeOK
  <2>3. fl'[c] = fl[c] \/ fl'[c].pc # "durable"
    <3>1. \A rows : Rest(rows).pc # "durable"
      BY DEF Rest, IdleFlush
    <3>2. CASE FlushStart(c) \/ FlushAck(c) \/ FlushStopped(c)
      BY <3>1, <3>2 DEF FlushStart, FlushAck, FlushStopped, Done, TypeOK
    <3>3. CASE FlushFail(c) \/ Die(c)
      BY <3>3, IdleType DEF FlushFail, Die, TypeOK
    <3>4. CASE FlushSend(c)
      <4>1. PICK row \in fl[c].todo :
               fl' = [fl EXCEPT ![c] = [fl[c] EXCEPT !.pc = "wait", !.row = row, !.todo = @ \ {row}]]
        BY <3>4 DEF FlushSend
      <4>2. [fl[c] EXCEPT !.pc = "wait", !.row = row, !.todo = @ \ {row}].pc = "wait"
        BY DEF TypeOK, FlushState
      <4>3. QED
        BY <4>1, <4>2 DEF TypeOK
    <3>5. CASE FetchHeads(c)
      <4> DEFINE flush == [IdleFlush EXCEPT !.pc = "heads", !.heads = head,
                 !.todo = {row \in pending[c] : row.state # "rejected" /\ Oldest(c, row)}]
      <4>1. fl'[c].pc = "heads"
        BY <3>5 DEF FetchHeads, IdleFlush, TypeOK
      <4>2. QED
        BY <4>1
    <3>6. CASE Reconcile(c)
      <4>1. fl'[c].pc = fl[c].pc /\ fl[c].pc = "heads"
        BY <3>6, ReconcileStep DEF Reconcile
      <4>2. QED
        BY <4>1
    <3>7. CASE \E s \in Session :
                  ChangeFile(c, s) \/ Due(c, s) \/ \E force \in BOOLEAN : Capture(c, s, force)
      BY <3>7 DEF ChangeFile, Due, Capture
    <3>8. QED
      BY <1>2, <3>2, <3>3, <3>4, <3>5, <3>6, <3>7 DEF Flush
  <2>4. QED
    BY <2>1, <2>2, <2>3
<1>3. ASSUME NEW m \in net, Serve(m) PROVE StoreInv'
  <2>1. m \in Request /\ m.id \in RequestId /\ m.id.s \in Session /\ m.id.c \in Producer
    BY DEF TypeOK, Request, RequestId
  <2>2. ReceiptStored'
    <3>1. CASE Commit(m)
      BY <2>1, <3>1 DEF StoreInv, ReceiptStored, Commit, TypeOK, RequestId
    <3>2. CASE UNCHANGED serverVars
      BY <3>2 DEF StoreInv, ReceiptStored, serverVars
    <3>3. QED
      BY <1>3, <3>1, <3>2 DEF Serve, Refuse, Repeat, Conflict
  <2>3. PICK kind \in Replies : Answer(m, kind) /\ (kind = "durable" => m.rev \in revs'[m.id.s])
    <3>1. CASE Commit(m)
      BY <2>1, <3>1 DEF Commit, TypeOK, Replies
    <3>2. CASE Repeat(m)
      BY <3>2 DEF Repeat, StoreInv, ReceiptStored, serverVars, Replies
    <3>3. CASE Refuse(m) \/ Conflict(m)
      BY <3>3 DEF Refuse, Conflict, Replies
    <3>4. QED
      BY <1>3, <3>1, <3>2, <3>3 DEF Serve
  <2>4. ASSUME NEW d \in Producer, fl'[d].pc = "durable"
        PROVE  fl'[d].row.rev \in revs'[fl'[d].row.id.s]
    <3>1. fl'[d].row = fl[d].row
      BY <2>1, <2>3, AnswerStep
    <3>2. CASE fl[d].pc = "durable"
      <4>1. fl[d].row \in Row
        BY <3>2 DEF TypeOK, FlushState, Sending, Replies
      <4>2. fl[d].row.id.s \in Session
        BY <4>1 DEF Row, RequestId
      <4>3. QED
        BY <1>3, <3>1, <3>2, <4>2, StoreGrows DEF StoreInv, DurableStored
    <3>3. CASE fl[d].pc # "durable"
      <4>1. kind = "durable" /\ Message(fl[d].row) = m
        BY <2>1, <2>3, <2>4, <3>3, AnswerStep
      <4>2. fl[d].row.id = m.id /\ fl[d].row.rev = m.rev
        BY <4>1 DEF Message
      <4>3. QED
        BY <2>3, <3>1, <4>1, <4>2
    <3>4. QED
      BY <3>2, <3>3
  <2>5. QED
    BY <2>2, <2>4 DEF StoreInv, DurableStored
<1>4. CASE UNCHANGED vars
  BY <1>1, <1>4 DEF vars, serverVars
<1>5. QED
  BY <1>1, <1>2, <1>3, <1>4 DEF Next
-----------------------------------------------------------------------------
(* A queued row stays queued, with its key and content, or is stored. *)
LEMMA RowsStay ==
    ASSUME TypeOK, QueueInv, StoreInv, NEW d \in Producer, NEW row \in pending[d],
           \/ \E c \in Producer :
                \/ Flush(c) \/ FlushFail(c) \/ Die(c) \/ FetchHeads(c) \/ Reconcile(c)
                \/ \E s \in Session : Due(c, s)
           \/ \E m \in net : Serve(m)
    PROVE  \/ \E new \in pending'[d] : new.id = row.id /\ new.rev = row.rev
           \/ row.rev \in revs[row.id.s]
<1>1. ASSUME pending'[d] = pending[d]
      PROVE  \E new \in pending'[d] : new.id = row.id /\ new.rev = row.rev
  BY <1>1
<1>2. ASSUME NEW other \in Held(d), other.id = row.id PROVE other.rev = row.rev
  BY <1>2 DEF QueueInv, SameContent, Held
<1>3. ASSUME NEW c \in Producer, FlushAck(c)
      PROVE  \/ \E new \in pending'[d] : new.id = row.id /\ new.rev = row.rev
             \/ row.rev \in revs[row.id.s]
  <2>1. CASE d # c
    BY <1>1, <1>3, <2>1 DEF FlushAck, TypeOK
  <2>2. CASE d = c /\ row.id # fl[c].row.id
    BY <1>3, <2>2 DEF FlushAck, Without, TypeOK
  <2>3. CASE d = c /\ row.id = fl[c].row.id
    <3>1. fl[c].row \in Held(c)
      BY <1>3 DEF FlushAck, Held, TypeOK, Sending, Replies
    <3>2. fl[c].row.rev \in revs[fl[c].row.id.s]
      BY <1>3 DEF FlushAck, StoreInv, DurableStored
    <3>3. QED
      BY <1>2, <2>3, <3>1, <3>2
  <2>4. QED
    BY <2>1, <2>2, <2>3
<1>4. ASSUME NEW c \in Producer, NEW state \in {"pending", "conflict", "rejected"},
             fl[c].pc \in Sending, Mark(c, state)
      PROVE  \E new \in pending'[d] : new.id = row.id /\ new.rev = row.rev
  <2>1. /\ \A e \in Producer \ {c} : pending'[e] = pending[e]
        /\ \E marked : /\ marked.id = fl[c].row.id /\ marked.rev = fl[c].row.rev
                       /\ pending'[c] = Without(c) \cup {marked}
    BY <1>4, MarkStep
  <2>2. fl[c].row \in Held(c)
    BY <1>4 DEF Held, TypeOK
  <2>3. QED
    BY <1>1, <1>2, <2>1, <2>2 DEF Without
<1>5. ASSUME NEW c \in Producer, NEW s \in Session, Due(c, s)
      PROVE  \E new \in pending'[d] : new.id = row.id /\ new.rev = row.rev
  <2>1. PICK old \in pending[c], due \in Row :
           /\ due.id = old.id /\ due.rev = old.rev
           /\ pending' = [pending EXCEPT ![c] = (@ \ {old}) \cup {due}]
    BY <1>5, DueStep
  <2>2. QED
    BY <2>1 DEF TypeOK
<1>6. ASSUME NEW c \in Producer, Reconcile(c)
      PROVE  \E new \in pending'[d] : new.id = row.id /\ new.rev = row.rev
  <2>1. PICK old \in fl[c].todo, rebased \in Row :
           /\ rebased.id = old.id /\ rebased.rev = old.rev
           /\ pending' = [pending EXCEPT ![c] = {other \in @ : other.id # old.id} \cup {rebased}]
    BY <1>6, ReconcileStep
  <2>2. old \in Held(c)
    BY DEF Held
  <2>3. QED
    BY <1>2, <2>1, <2>2 DEF TypeOK
<1>7. ASSUME NEW c \in Producer, FlushStopped(c)
      PROVE  \E new \in pending'[d] : new.id = row.id /\ new.rev = row.rev
  BY <1>4, <1>7 DEF FlushStopped, Sending, Replies
<1>8. ASSUME NEW c \in Producer, FlushFail(c)
      PROVE  \E new \in pending'[d] : new.id = row.id /\ new.rev = row.rev
  BY <1>4, <1>8 DEF FlushFail
<1>9. ASSUME NEW c \in Producer, FlushStart(c) \/ FlushSend(c) \/ Die(c) \/ FetchHeads(c)
      PROVE  pending'[d] = pending[d]
  BY <1>9 DEF FlushStart, FlushSend, Die, FetchHeads
<1>10. ASSUME NEW m \in net, Serve(m) PROVE pending'[d] = pending[d]
  BY <1>10 DEF Serve
<1>11. QED
  BY <1>1, <1>3, <1>5, <1>6, <1>7, <1>8, <1>9, <1>10 DEF Flush

LEMMA KeptStep == IInv /\ CapturedIsKept /\ [Next]_vars => CapturedIsKept'
<1> SUFFICES ASSUME IInv, CapturedIsKept, [Next]_vars,
                    NEW c \in Producer, NEW s \in Session,
                    captured'[c][s] = version'[c][s], version'[c][s] > 0
             PROVE  \/ file'[c][s] \in revs'[s]
                    \/ \E row \in Rows(c, s)' : row.rev = file'[c][s]
  BY DEF CapturedIsKept
<1> USE DEF IInv, Rows
<1>1. ASSUME UNCHANGED clientVars, revs[s] \subseteq revs'[s],
             \A row \in pending[c] :
                \/ \E new \in pending'[c] : new.id = row.id /\ new.rev = row.rev
                \/ row.rev \in revs[row.id.s]
      PROVE  \/ file'[c][s] \in revs'[s]
             \/ \E row \in Rows(c, s)' : row.rev = file'[c][s]
  BY <1>1 DEF CapturedIsKept, clientVars
<1>2. ASSUME NEW d \in Producer, NEW t \in Session, ChangeFile(d, t)
      PROVE  \/ file'[c][s] \in revs'[s]
             \/ \E row \in Rows(c, s)' : row.rev = file'[c][s]
  <2>1. /\ version' = [version EXCEPT ![d][t] = version[d][t] + 1] /\ captured' = captured
        /\ pending' = pending /\ revs' = revs
    BY <1>2 DEF ChangeFile, serverVars
  <2>2. version[c][s] \in Nat /\ captured[c][s] \in Nat /\ captured[c][s] <= version[c][s]
    BY BoundAssumption DEF TypeOK, QueueInv, CapturedPast
  <2>3. ~(c = d /\ s = t)
    BY <2>1, <2>2 DEF TypeOK
  <2>4. file'[c][s] = file[c][s] /\ version'[c][s] = version[c][s]
    BY <1>2, <2>1, <2>3 DEF ChangeFile, TypeOK
  <2>5. QED
    BY <2>1, <2>4 DEF CapturedIsKept
<1>3. ASSUME NEW d \in Producer, NEW t \in Session, NEW force \in BOOLEAN, Capture(d, t, force)
      PROVE  \/ file'[c][s] \in revs'[s]
             \/ \E row \in Rows(c, s)' : row.rev = file'[c][s]
  <2> DEFINE new == NewRow(d, t)
  <2>1. new.id.s = t /\ new.id.v = version[d][t] /\ new.rev = file[d][t]
    BY DEF NewRow
  <2>2. UNCHANGED <<file, version, serverVars>> /\ pending[c] \subseteq pending'[c]
    BY <1>3 DEF Capture, TypeOK
  <2>3. CASE c = d /\ s = t
    <3>1. CASE \E row \in pending[d] : row.id = new.id
      <4>1. PICK row \in pending[d] : row.id = new.id
        BY <3>1
      <4>2. row.rev = file[d][t] /\ row.id.s = t
        BY <2>1, <4>1 DEF QueueInv, RowContent, Held
      <4>3. QED
        BY <2>2, <2>3, <4>2
    <3>2. CASE \A row \in pending[d] : row.id # new.id
      <4>1. new \in pending'[d]
        BY <1>3, <3>2 DEF Capture, TypeOK
      <4>2. QED
        BY <2>1, <2>2, <2>3, <4>1
    <3>3. QED
      BY <3>1, <3>2
  <2>4. CASE ~(c = d /\ s = t)
    <3>1. captured'[c][s] = captured[c][s]
      BY <1>3, <2>4 DEF Capture, TypeOK
    <3>2. QED
      BY <2>2, <3>1 DEF CapturedIsKept, serverVars
  <2>5. QED
    BY <2>3, <2>4
<1>4. ASSUME NEW d \in Producer,
             \/ Flush(d) \/ FlushFail(d) \/ Die(d) \/ FetchHeads(d) \/ Reconcile(d)
             \/ \E t \in Session : Due(d, t)
      PROVE  \/ file'[c][s] \in revs'[s]
             \/ \E row \in Rows(c, s)' : row.rev = file'[c][s]
  <2>1. UNCHANGED clientVars /\ revs' = revs
    BY <1>4 DEF Flush, FlushStart, FlushSend, FlushAck, FlushStopped, FlushFail, Die,
       FetchHeads,
           Reconcile, Due, serverVars
  <2>2. QED
    BY <1>1, <1>4, <2>1, RowsStay
<1>5. ASSUME NEW m \in net, Serve(m)
      PROVE  \/ file'[c][s] \in revs'[s]
             \/ \E row \in Rows(c, s)' : row.rev = file'[c][s]
  <2>1. UNCHANGED clientVars
    BY <1>5 DEF Serve
  <2>2. QED
    BY <1>1, <1>5, <2>1, StoreGrows, RowsStay
<1>6. CASE UNCHANGED vars
  BY <1>6 DEF vars, CapturedIsKept
<1>7. QED
  BY <1>2, <1>3, <1>4, <1>5, <1>6 DEF Next

-----------------------------------------------------------------------------
LEMMA Invariance == Spec => [](IInv /\ CapturedIsKept)
<1>1. IInv /\ [Next]_vars => IInv'
  BY TypeStep, QueueStep, StoreStep DEF IInv
<1>2. QED
  BY <1>1, InitIInv, KeptStep, PTL DEF Spec

(* The tables and requests keep their shape; in particular a queue never    *)
(* holds two rows under one idempotency key (queue.py:76-82).               *)
THEOREM TypeCorrect == Spec => []TypeOK
BY Invariance, PTL DEF IInv

(* No captured content is lost, whatever is resent, refused, reconciled or  *)
(* interrupted (queue.py:62-94, 318-336).                                   *)
THEOREM CapturedKept == Spec => []CapturedIsKept
BY Invariance, PTL

(* Queues and primary implement the history of revisions: each step commits *)
(* a new revision, acknowledges a stored one, or touches neither.           *)
THEOREM Refinement == Spec => ImplementsHistory
<1>1. Init => History!Init
  BY DEF Init, History!Init
<1>2. ASSUME IInv, [Next]_vars PROVE [History!Next]_(History!hvars)
  <2>1. ASSUME NEW c \in Producer, FlushAck(c) PROVE History!Next
    <3>1. fl[c].row \in Row /\ fl[c].row.rev \in revs[fl[c].row.id.s]
      BY <1>2, <2>1 DEF IInv, TypeOK, FlushState, FlushAck, StoreInv, DurableStored,
         Sending, Replies
    <3>2. fl[c].row.rev \in Revision /\ fl[c].row.id.s \in Session
      BY <3>1 DEF Row, RequestId
    <3>3. History!Acknowledge(c, fl[c].row.id.s, fl[c].row.rev)
      BY <2>1, <3>1 DEF FlushAck, History!Acknowledge, serverVars
    <3>4. QED
      BY <3>2, <3>3 DEF History!Next
  <2>2. ASSUME NEW m \in net, Commit(m), acked' = acked PROVE [History!Next]_(History!hvars)
    <3>1. m.rev \in Revision /\ m.id.s \in Session
      BY <1>2 DEF IInv, TypeOK, Request, RequestId
    <3>2. CASE m.rev \in revs[m.id.s]
      <4>1. revs' = revs /\ head' = head
        BY <1>2, <2>2, <3>1, <3>2 DEF Commit, NewHead, IInv, TypeOK
      <4>2. QED
        BY <2>2, <4>1 DEF History!hvars
    <3>3. CASE m.rev \notin revs[m.id.s]
      <4>1. History!Commit(m.id.s, m.rev)
        BY <2>2, <3>3 DEF Commit, NewHead, History!Commit
      <4>2. QED
        BY <3>1, <4>1 DEF History!Next
    <3>4. QED
      BY <3>2, <3>3
  <2>3. ASSUME NEW m \in net, Serve(m) PROVE [History!Next]_(History!hvars)
    BY <2>2, <2>3 DEF Serve, Refuse, Repeat, Conflict, serverVars, History!hvars
  <2>4. ASSUME NEW c \in Producer,
               \/ FlushStart(c) \/ FlushSend(c) \/ FlushStopped(c) \/ FlushFail(c) \/ Die(c)
               \/ FetchHeads(c) \/ Reconcile(c)
               \/ \E s \in Session :
                    ChangeFile(c, s) \/ Due(c, s) \/ \E force \in BOOLEAN : Capture(c, s, force)
        PROVE  UNCHANGED History!hvars
    BY <2>4 DEF FlushStart, FlushSend, FlushStopped, FlushFail, Die, FetchHeads, Reconcile,
           ChangeFile, Due, Capture, serverVars, History!hvars
  <2>5. CASE UNCHANGED vars
    BY <2>5 DEF vars, History!hvars
  <2>6. QED
    BY <1>2, <2>1, <2>3, <2>4, <2>5 DEF Next, Flush
<1>3. QED
  BY <1>1, <1>2, Invariance, PTL DEF Spec, ImplementsHistory, History!Spec
-----------------------------------------------------------------------------
(* Prefixes, element by element.                                            *)
LEMMA PrefixElements ==
    ASSUME NEW r \in Revision, NEW q \in Revision
    PROVE  /\ Len(r) \in Nat /\ Len(q) \in Nat
           /\ IsPrefix(r, q) <=> Len(r) <= Len(q) /\ \A i \in 1..Len(r) : r[i] = q[i]
<1>1. r \in Seq(Producer) /\ q \in Seq(Producer)
  BY BoundAssumption, SeqDef DEF Revision, SeqOf
<1>2. /\ Len(r) \in Nat /\ Len(q) \in Nat
      /\ \A i \in 1..Len(r) : r[i] \in Producer
      /\ \A i \in 1..Len(q) : q[i] \in Producer
  BY <1>1, LenProperties, ElementOfSeq
<1>3. CASE Len(r) <= Len(q)
  <2> DEFINE n == Len(r)
             first == SubSeq(r, 1, n)
             second == SubSeq(q, 1, n)
  <2>1. n \in Nat /\ 1 \in Int /\ n \in Int /\ n - 1 + 1 = n /\ \A i \in 1..n : 1 + i - 1 = i
    BY <1>2
  <2>2. \A i \in 1..n : r[i] \in Producer /\ q[i] \in Producer
    BY <1>2, <1>3
  <2> HIDE DEF n
  <2>3. /\ first \in Seq(Producer) /\ Len(first) = (IF 1 <= n THEN n - 1 + 1 ELSE 0)
        /\ \A i \in 1..n - 1 + 1 : first[i] = r[1 + i - 1]
    BY <2>1, <2>2, SubSeqProperties
  <2>4. /\ second \in Seq(Producer) /\ Len(second) = (IF 1 <= n THEN n - 1 + 1 ELSE 0)
        /\ \A i \in 1..n - 1 + 1 : second[i] = q[1 + i - 1]
    BY <2>1, <2>2, SubSeqProperties
  <2> HIDE DEF first, second
  <2>5. Len(first) = n /\ Len(second) = n
    BY <2>1, <2>3, <2>4
  <2>6. \A i \in 1..n : first[i] = r[i] /\ second[i] = q[i]
    BY <2>1, <2>3, <2>4
  <2>7. first = second <=> \A i \in 1..n : first[i] = second[i]
    BY <2>3, <2>4, <2>5, SeqEqual
  <2>8. QED
    BY <1>2, <1>3, <2>6, <2>7 DEF IsPrefix, first, second, n
<1>4. CASE ~(Len(r) <= Len(q))
  BY <1>2, <1>4 DEF IsPrefix
<1>5. QED
  BY <1>2, <1>3, <1>4

LEMMA PrefixOrder ==
    ASSUME NEW r \in Revision
    PROVE  /\ IsPrefix(r, r)
           /\ \A q, x \in Revision : IsPrefix(r, q) /\ IsPrefix(q, x) => IsPrefix(r, x)
<1>1. IsPrefix(r, r)
  BY PrefixElements
<1>2. ASSUME NEW q \in Revision, NEW x \in Revision, IsPrefix(r, q), IsPrefix(q, x)
      PROVE  IsPrefix(r, x)
  <2>1. Len(r) \in Nat /\ Len(q) \in Nat /\ Len(x) \in Nat /\ Len(r) <= Len(q) /\ Len(q) <= Len(x)
    BY <1>2, PrefixElements
  <2>2. ASSUME NEW i \in 1..Len(r) PROVE r[i] = x[i]
    <3>1. i \in 1..Len(q)
      BY <2>1, <2>2
    <3>2. QED
      BY <1>2, <2>2, <3>1, PrefixElements
  <2>3. QED
    BY <2>1, <2>2, PrefixElements
<1>3. QED
  BY <1>1, <1>2

LEMMA PrefixAppend ==
    ASSUME NEW r \in Revision, NEW c \in Producer, Append(r, c) \in Revision
    PROVE  IsPrefix(r, Append(r, c))
<1>1. r \in Seq(Producer)
  BY BoundAssumption, SeqDef DEF Revision, SeqOf
<1>2. Len(Append(r, c)) = Len(r) + 1 /\ \A i \in 1..Len(r) : Append(r, c)[i] = r[i]
  BY <1>1, AppendProperties
<1>3. Len(r) \in Nat
  BY <1>1, LenProperties
<1> DEFINE q == Append(r, c)
<1>4. q \in Revision /\ Len(q) = Len(r) + 1 /\ \A i \in 1..Len(r) : r[i] = q[i]
  BY <1>2
<1> HIDE DEF q
<1>5. IsPrefix(r, q)
  BY <1>3, <1>4, PrefixElements
<1>6. QED
  BY <1>5 DEF q

(* While files only grow, everything a client queued, sent or saw           *)
(* acknowledged is a beginning of its file, and each upload extends the     *)
(* head it expects.                                                         *)
Grown ==
    /\ \A c \in Producer : \A row \in Held(c) : Based(row) /\ IsPrefix(row.rev, file[c][row.id.s])
    /\ \A c \in Producer, s \in Session : acked[c][s] # None => IsPrefix(acked[c][s], file[c][s])
    /\ \A m \in net : Based(m)
    /\ \A s \in Session : head[s] # None => head[s] \in revs[s]

LEMMA HeldTypes ==
    ASSUME TypeOK, NEW c \in Producer, NEW row \in Held(c)
    PROVE  row \in Row /\ row.rev \in Revision /\ row.id.s \in Session /\ row.exp \in Revision \cup {None}
BY DEF Held, TypeOK, FlushState, Row, RequestId

LEMMA ExpectedExtends ==
    ASSUME TypeOK, QueueInv, Grown, NEW c \in Producer, NEW s \in Session
    PROVE  Expected(c, s) # None => IsPrefix(Expected(c, s), file[c][s])
<1>1. CASE Rows(c, s) = {}
  BY <1>1 DEF Expected, Grown
<1>2. CASE Rows(c, s) # {}
  <2> DEFINE Highest(row) == \A other \in Rows(c, s) : other.id.v <= row.id.v
             rank == [row \in Rows(c, s) |-> row.id.v]
  <2>1. rank \in [Rows(c, s) -> 0..MaxVersions]
    BY DEF Rows, TypeOK, Row, RequestId
  <2>2. \E row \in Rows(c, s) : \A other \in Rows(c, s) : rank[other] <= rank[row]
    <3> HIDE DEF rank
    <3>1. QED
      BY <1>2, <2>1, HighestExists
  <2>3. \E row \in Rows(c, s) : Highest(row)
    BY <2>2
  <2>4. (CHOOSE row \in Rows(c, s) : Highest(row)) \in Rows(c, s)
    BY <2>3
  <2>5. \A row \in Rows(c, s) : IsPrefix(row.rev, file[c][s])
    BY DEF Rows, Grown, Held
  <2>6. Expected(c, s) = (CHOOSE row \in Rows(c, s) : Highest(row)).rev
    BY <1>2 DEF Expected
  <2>7. QED
    BY <2>4, <2>5, <2>6
<1>3. QED
  BY <1>1, <1>2

LEMMA GrownStep ==
    ASSUME Reverts = FALSE, TypeOK, TypeOK', QueueInv, Grown, [Next]_vars
    PROVE  Grown'
<1>1. ASSUME file' = file, \A d \in Producer : Inherited(d)
      PROVE  \A d \in Producer : \A row \in Held(d)' : Based(row) /\ IsPrefix(row.rev, file'[d][row.id.s])
  BY <1>1 DEF Inherited, Grown, Based
<1>2. ASSUME file' = file, acked' = acked
      PROVE  \A d \in Producer, t \in Session : acked'[d][t] # None => IsPrefix(acked'[d][t], file'[d][t])
  BY <1>2 DEF Grown
<1>3. ASSUME UNCHANGED serverVars
      PROVE  \A s \in Session : head'[s] # None => head'[s] \in revs'[s]
  BY <1>3 DEF Grown, serverVars
<1>4. ASSUME NEW c \in Producer, NEW s \in Session, ChangeFile(c, s) PROVE Grown'
  <2>1. PICK new \in Revision :
           /\ \/ new = Append(file[c][s], c)
              \/ new = file[c][s]
              \/ IsPrefix(file[c][s], new)
           /\ file' = [file EXCEPT ![c][s] = new]
    BY <1>4, BoundAssumption, Reverts = FALSE DEF ChangeFile
  <2>2. file[c][s] \in Revision
    BY DEF TypeOK
  <2>3. IsPrefix(file[c][s], new)
    BY <2>1, <2>2, PrefixAppend, PrefixOrder
  <2>4. ASSUME NEW d \in Producer, NEW t \in Session, NEW r \in Revision, IsPrefix(r, file[d][t])
        PROVE  IsPrefix(r, file'[d][t])
    <3>1. CASE d = c /\ t = s
      <4>1. file'[d][t] = new
        BY <2>1, <3>1 DEF TypeOK
      <4>2. QED
        BY <2>1, <2>2, <2>3, <2>4, <3>1, <4>1, PrefixOrder
    <3>2. CASE ~(d = c /\ t = s)
      <4>1. file'[d][t] = file[d][t]
        BY <2>1, <3>2 DEF TypeOK
      <4>2. QED
        BY <2>4, <4>1
    <3>3. QED
      BY <3>1, <3>2
  <2>5. /\ \A d \in Producer : Held(d)' = Held(d)
        /\ UNCHANGED <<acked, net, head, revs>>
    BY <1>4 DEF ChangeFile, Held, serverVars
  <2>6. \A d \in Producer : \A row \in Held(d)' : Based(row) /\ IsPrefix(row.rev, file'[d][row.id.s])
    BY <2>4, <2>5, HeldTypes DEF Grown
  <2>7. \A d \in Producer, t \in Session : acked'[d][t] # None => IsPrefix(acked'[d][t], file'[d][t])
    BY <2>4, <2>5 DEF Grown, TypeOK
  <2>8. QED
    BY <2>5, <2>6, <2>7 DEF Grown, Based
<1>5. ASSUME NEW c \in Producer, NEW s \in Session, NEW force \in BOOLEAN, Capture(c, s, force)
      PROVE  Grown'
  <2> DEFINE new == NewRow(c, s)
  <2>1. new.id.s = s /\ new.rev = file[c][s] /\ new.exp = Expected(c, s)
    BY DEF NewRow
  <2>2. \A d \in Producer : Held(d)' \subseteq Held(d) \cup (IF d = c THEN {new} ELSE {})
    BY <1>5 DEF Capture, Held, TypeOK
  <2>3. UNCHANGED <<file, acked, net, serverVars>>
    BY <1>5 DEF Capture
  <2> HIDE DEF new
  <2>4. Based(new) /\ IsPrefix(new.rev, file[c][s])
    BY <2>1, ExpectedExtends, PrefixOrder DEF Based, TypeOK
  <2>5. \A d \in Producer : \A row \in Held(d)' : Based(row) /\ IsPrefix(row.rev, file'[d][row.id.s])
    BY <2>1, <2>2, <2>3, <2>4 DEF Grown
  <2>6. QED
    BY <1>2, <1>3, <2>3, <2>5 DEF Grown, Based
<1>6. ASSUME NEW c \in Producer,
             \/ Flush(c) \/ FlushFail(c) \/ Die(c) \/ FetchHeads(c) \/ Reconcile(c)
             \/ \E s \in Session : Due(c, s)
      PROVE  Grown'
  <2>1. file' = file /\ UNCHANGED serverVars
    BY <1>6 DEF Flush, FlushStart, FlushSend, FlushAck, FlushStopped, FlushFail, Die,
       FetchHeads,
           Reconcile, Due, clientVars
  <2>2. \A d \in Producer : \A row \in Held(d)' : Based(row) /\ IsPrefix(row.rev, file'[d][row.id.s])
    BY <1>1, <1>6, <2>1, HeldStep
  <2>3. \A d \in Producer, t \in Session : acked'[d][t] # None => IsPrefix(acked'[d][t], file'[d][t])
    <3>1. CASE FlushAck(c)
      <4>1. fl[c].row \in Held(c)
        BY <3>1 DEF FlushAck, Held, TypeOK, Sending, Replies
      <4>2. fl[c].row.id.s \in Session /\ IsPrefix(fl[c].row.rev, file[c][fl[c].row.id.s])
        BY <4>1, HeldTypes DEF Grown
      <4>3. acked' = [acked EXCEPT ![c][fl[c].row.id.s] = fl[c].row.rev]
        BY <3>1 DEF FlushAck
      <4>4. QED
        BY <2>1, <4>2, <4>3 DEF Grown, TypeOK
    <3>2. CASE acked' = acked
      BY <1>2, <2>1, <3>2
    <3>3. QED
      BY <1>6, <3>1, <3>2
         DEF Flush, FlushStart, FlushSend, FlushStopped, FlushFail, Die, FetchHeads, Reconcile, Due
  <2>4. \A m \in net' : Based(m)
    <3>1. CASE FlushSend(c)
      <4>1. PICK row \in fl[c].todo : net' = net \cup {Message(row)}
        BY <3>1 DEF FlushSend
      <4>2. Based(row)
        BY DEF Grown, Held
      <4>3. Based(Message(row))
        BY <4>2 DEF Based, Message
      <4>4. QED
        BY <4>1, <4>3 DEF Grown
    <3>2. CASE net' = net
      BY <3>2 DEF Grown
    <3>3. QED
      BY <1>6, <3>1, <3>2
         DEF Flush, FlushStart, FlushAck, FlushStopped, FlushFail, Die, FetchHeads, Reconcile, Due
  <2>5. QED
    BY <1>3, <2>1, <2>2, <2>3, <2>4 DEF Grown, Based
<1>7. ASSUME NEW m \in net, Serve(m) PROVE Grown'
  <2>1. file' = file /\ acked' = acked /\ net' = net \ {m}
    BY <1>7 DEF Serve, clientVars
  <2>2. \A d \in Producer : \A row \in Held(d)' : Based(row) /\ IsPrefix(row.rev, file'[d][row.id.s])
    BY <1>1, <1>7, <2>1, HeldStep
  <2>3. \A s \in Session : head'[s] # None => head'[s] \in revs'[s]
    <3>1. CASE Commit(m)
      <4>1. m.id.s \in Session
        BY DEF TypeOK, Request, RequestId
      <4>2. QED
        BY <3>1, <4>1 DEF Commit, NewHead, Grown, TypeOK
    <3>2. CASE UNCHANGED serverVars
      BY <1>3, <3>2
    <3>3. QED
      BY <1>7, <3>1, <3>2 DEF Serve, Refuse, Repeat, Conflict
  <2>4. QED
    BY <1>2, <2>1, <2>2, <2>3 DEF Grown, Based
<1>8. CASE UNCHANGED vars
  BY <1>8 DEF vars, Grown, Based, Held
<1>9. QED
  BY <1>4, <1>5, <1>6, <1>7, <1>8 DEF Next

(* No lost update, for any devices and sessions: as long as native files    *)
(* only grow, a head is replaced only by content that extends it, whatever  *)
(* was queued, resent, answered late or reconciled by any of the devices    *)
(* (catalog.py ingest, queue.py reconcile_raw_prefixes).                    *)
THEOREM HeadsGrow == ASSUME Reverts = FALSE PROVE Spec => HeadOnlyGrows
<1>1. Init => Grown
  BY IdleType DEF Init, Grown, Held
<1>2. IInv /\ IInv' /\ Grown /\ [Next]_vars => Grown'
  BY GrownStep DEF IInv
<1>3. ASSUME IInv, Grown, [Next]_vars, NEW s \in Session, head[s] # None
      PROVE  IsPrefix(head[s], head'[s])
  <2> USE DEF IInv
  <2>1. head[s] \in Revision
    BY <1>3 DEF TypeOK
  <2>2. CASE head'[s] = head[s]
    BY <2>1, <2>2, PrefixOrder
  <2>3. ASSUME NEW m \in net, Commit(m), head'[s] # head[s] PROVE IsPrefix(head[s], head'[s])
    <3>1. m.id.s = s /\ m.rev \notin revs[s] /\ head'[s] = m.rev
      BY <1>3, <2>3 DEF Commit, NewHead, TypeOK, Request, RequestId
    <3>2. head[s] = m.exp
      BY <1>3, <2>3, <3>1 DEF Commit, Fits, Grown
    <3>3. QED
      BY <1>3, <3>1, <3>2 DEF Grown, Based
  <2>4. QED
    BY <1>3, <2>2, <2>3
       DEF Next, vars, serverVars, Serve, Refuse, Repeat, Conflict, Flush, FlushStart, FlushSend, FlushAck,
           FlushStopped, FlushFail, Die, FetchHeads, Reconcile, Due, ChangeFile, Capture
<1>4. IInv /\ Grown /\ [Next]_vars =>
         [\A s \in Session : head[s] # None => IsPrefix(head[s], head'[s])]_vars
  BY <1>3
<1>5. QED
  BY <1>1, <1>2, <1>4, Invariance, PTL DEF Spec, HeadOnlyGrows

-----------------------------------------------------------------------------
(* A device that is alone with its sessions. Its rows as they would be      *)
(* sent, which of them is the first of its session, and all revisions of a  *)
(* session that it sent or is about to send.                                *)
Lone == \A c, d \in Producer : c = d

Entries(c) == {Message(row) : row \in pending[c]}
First(c, id) == \A q \in Entries(c) : q.id.s = id.s => id.v <= q.id.v
Receipt(x) == [id |-> x.id, rev |-> x.rev]
Answered(id) == \E r \in receipts : r.id = id
Sent(c, s) == {x \in receipts \cup Entries(c) : x.id.s = s}
Steady(c, s) == \A x, y \in Sent(c, s) : x.id.v <= y.id.v => IsPrefix(x.rev, y.rev)

(* A flush works on the first rows of the sessions, as they are queued, one *)
(* for each session, and takes only a receipt for an acknowledgement.       *)
FlushHolds(c) ==
    /\ \A row \in fl[c].todo : Message(row) \in Entries(c) /\ First(c, row.id)
    /\ \A row, other \in fl[c].todo : row.id = other.id => row = other
    /\ fl[c].row # None =>
          /\ Message(fl[c].row) \in Entries(c) /\ First(c, fl[c].row.id)
          /\ \A row \in fl[c].todo : row.id # fl[c].row.id
    /\ fl[c].pc = "durable" => Receipt(fl[c].row) \in receipts

(* What is on the way was answered already or is a first row.               *)
NetHolds(c) ==
    \A m \in net :
       \/ Receipt(m) \in receipts
       \/ First(c, m.id) /\ \E q \in Entries(c) : q.id = m.id /\ q.rev = m.rev

(* Receipts are about what precedes the queue, or its first row.            *)
ReceiptsPast(c) ==
    \A r \in receipts :
       /\ r.id.v <= version[c][r.id.s]
       /\ r.id.v = version[c][r.id.s] => r.rev = file[c][r.id.s]
       /\ \A q \in Entries(c) : q.id.s = r.id.s => r.id.v <= q.id.v
       /\ \A q \in Entries(c) : q.id = r.id => q.rev = r.rev

StoredByReceipt == \A s \in Session : \A x \in revs[s] : \E r \in receipts : r.id.s = s /\ r.rev = x

(* Every row but the first expects what its predecessor carries.            *)
Before(c, p, q) ==
    /\ p.id.s = q.id.s /\ p.id.v < q.id.v
    /\ \A o \in Entries(c) : o.id.s = q.id.s /\ o.id.v < q.id.v => o.id.v <= p.id.v
Chained(c) ==
    \A q \in Entries(c) : First(c, q.id) \/ \E p \in Entries(c) : Before(c, p, q) /\ q.exp = p.rev

(* While the revisions of a session grow, the head is the last one that was *)
(* answered, the first row expects it, so does what a reconciliation        *)
(* fetched, and nothing conflicts.                                          *)
Led(s) ==
    \A r \in receipts : r.id.s = s =>
       IsPrefix(r.rev, head[s]) /\ \E x \in receipts : x.id.s = s /\ x.rev = head[s]
Expecting(c, s) ==
    /\ (\A q \in Entries(c) : q.id.s = s => ~Answered(q.id)) => head[s] = acked[c][s]
    /\ \A q \in Entries(c) : q.id.s = s /\ First(c, q.id) => Answered(q.id) \/ q.exp = acked[c][s]
Fetched(c, s) ==
    fl[c].pc = "heads" => fl[c].heads[s] = head[s] \/ \E q \in Entries(c) : q.id.s = s /\ Answered(q.id)
Peaceful(c, s) ==
    /\ fl[c].pc = "conflict" => fl[c].row.id.s # s
    /\ \A row \in pending[c] : row.state = "conflict" => row.id.s # s
Undisturbed(c, s) == Led(s) /\ Expecting(c, s) /\ Fetched(c, s) /\ Peaceful(c, s)
HeadHolds(c) == \A s \in Session : Steady(c, s) => Undisturbed(c, s)

Answers(c) == StoredByReceipt /\ ReceiptsPast(c) /\ Chained(c) /\ HeadHolds(c)
Alone == \A c \in Producer : FlushHolds(c) /\ NetHolds(c) /\ Answers(c)

LEMMA MessageFacts ==
    ASSUME NEW row \in Row
    PROVE  /\ Message(row) \in Request
           /\ Message(row).id = row.id /\ Message(row).rev = row.rev /\ Message(row).exp = row.exp
BY DEF Message, Row, Request

LEMMA EntryFacts ==
    ASSUME TypeOK, NEW c \in Producer
    PROVE  /\ \A q \in Entries(c) :
                /\ q \in Request /\ q.id.c = c /\ q.id.s \in Session /\ q.id.v \in Nat
                /\ q.rev \in Revision
                /\ \E row \in pending[c] : row.id = q.id /\ row.rev = q.rev /\ q = Message(row)
           /\ \A p, q \in Entries(c) : p.id.s = q.id.s /\ p.id.v = q.id.v => p = q
<1>1. ASSUME NEW q \in Entries(c)
      PROVE  /\ q \in Request /\ q.id.c = c /\ q.id.s \in Session /\ q.id.v \in Nat /\ q.rev \in Revision
             /\ \E row \in pending[c] : row.id = q.id /\ row.rev = q.rev /\ q = Message(row)
  <2>1. PICK row \in pending[c] : q = Message(row)
    BY <1>1 DEF Entries
  <2>2. row \in Row /\ row.id.c = c
    BY DEF TypeOK
  <2>3. q \in Request /\ q.id = row.id /\ q.rev = row.rev
    BY <2>1, <2>2, MessageFacts
  <2>4. q.id \in RequestId /\ q.rev \in Revision
    BY <2>3 DEF Request
  <2>5. QED
    BY <2>1, <2>2, <2>3, <2>4, BoundAssumption DEF RequestId
<1>2. ASSUME NEW p \in Entries(c), NEW q \in Entries(c), p.id.s = q.id.s, p.id.v = q.id.v
      PROVE  p = q
  <2>1. p.id \in RequestId /\ q.id \in RequestId /\ p.id.c = q.id.c
    BY <1>1 DEF Request
  <2>2. p.id = q.id
    BY <1>2, <2>1 DEF RequestId
  <2>3. PICK row \in pending[c], other \in pending[c] :
           row.id = p.id /\ p = Message(row) /\ other.id = q.id /\ q = Message(other)
    BY <1>1
  <2>4. row = other
    BY <2>2, <2>3 DEF TypeOK
  <2>5. QED
    BY <2>3, <2>4
<1>3. QED
  BY <1>1, <1>2

LEMMA ReceiptFacts ==
    ASSUME TypeOK, NEW r \in receipts
    PROVE  r.id \in RequestId /\ r.id.s \in Session /\ r.id.v \in Nat /\ r.rev \in Revision /\ r.id.c \in Producer
BY BoundAssumption DEF TypeOK, RequestId

(* A session has one first row, and of its rows only that can be answered.  *)
LEMMA OneFirst ==
    ASSUME TypeOK, NEW c \in Producer, NEW p \in Entries(c), NEW q \in Entries(c),
           p.id.s = q.id.s, First(c, p.id),
           First(c, q.id) \/ (ReceiptsPast(c) /\ Answered(q.id))
    PROVE  p = q
<1>1. p.id.v \in Nat /\ q.id.v \in Nat
  BY EntryFacts
<1>2. p.id.v <= q.id.v
  BY DEF First
<1>3. q.id.v <= p.id.v
  BY DEF First, ReceiptsPast, Answered
<1>4. QED
  BY <1>1, <1>2, <1>3, EntryFacts

(* A step that leaves the rows and what was answered alone.                 *)
LEMMA QuietStep ==
    ASSUME NEW c \in Producer, Answers(c),
           Entries(c)' = Entries(c), UNCHANGED <<clientVars, acked, serverVars>>,
           fl'[c].pc = "heads" => (fl[c].pc = "heads" /\ fl'[c].heads = fl[c].heads) \/ fl'[c].heads = head,
           \A s \in Session : Steady(c, s) => Peaceful(c, s)'
    PROVE  Answers(c)'
<1> USE DEF Answers
<1>1. \A id : First(c, id)' <=> First(c, id)
  BY DEF First
<1>2. \A p, q : Before(c, p, q)' <=> Before(c, p, q)
  BY DEF Before
<1>3. StoredByReceipt'
  BY DEF StoredByReceipt, serverVars
<1>4. ReceiptsPast(c)'
  BY DEF ReceiptsPast, serverVars, clientVars
<1>5. Chained(c)'
  BY <1>1, <1>2 DEF Chained
<1>6. ASSUME NEW s \in Session, Steady(c, s)' PROVE Undisturbed(c, s)'
  <2>1. Steady(c, s)
    BY <1>6 DEF Steady, Sent, serverVars
  <2>2. Undisturbed(c, s)
    BY <2>1 DEF HeadHolds
  <2>3. \A id : Answered(id)' <=> Answered(id)
    BY DEF Answered, serverVars
  <2>4. Led(s)'
    BY <2>2 DEF Undisturbed, Led, serverVars
  <2>5. Expecting(c, s)'
    BY <1>1, <2>2, <2>3 DEF Undisturbed, Expecting, serverVars
  <2>6. Fetched(c, s)'
    BY <2>2, <2>3 DEF Undisturbed, Fetched, serverVars
  <2>7. QED
    BY <2>1, <2>4, <2>5, <2>6 DEF Undisturbed
<1>7. QED
  BY <1>3, <1>4, <1>5, <1>6 DEF HeadHolds

LEMMA PrefixAntisymmetric ==
    ASSUME NEW r \in Revision, NEW q \in Revision, IsPrefix(r, q), IsPrefix(q, r)
    PROVE  r = q
<1>1. r \in Seq(Producer) /\ q \in Seq(Producer)
  BY BoundAssumption, SeqDef DEF Revision, SeqOf
<1>2. Len(r) = Len(q) /\ \A i \in 1..Len(r) : r[i] = q[i]
  BY PrefixElements
<1>3. QED
  BY <1>1, <1>2, SeqEqual

LEMMA InitAlone == Init => Alone
<1> SUFFICES ASSUME Init, NEW c \in Producer PROVE FlushHolds(c) /\ NetHolds(c) /\ Answers(c)
  BY DEF Alone
<1>1. Entries(c) = {} /\ receipts = {} /\ net = {}
  BY DEF Init, Entries
<1>2. FlushHolds(c) /\ NetHolds(c)
  BY <1>1, IdleType DEF Init, FlushHolds, NetHolds
<1>3. StoredByReceipt /\ ReceiptsPast(c) /\ Chained(c)
  BY <1>1 DEF Init, StoredByReceipt, ReceiptsPast, Chained
<1>4. ASSUME NEW s \in Session PROVE Undisturbed(c, s)
  BY <1>1, IdleType DEF Init, Undisturbed, Led, Expecting, Fetched, Peaceful
<1>5. QED
  BY <1>2, <1>3, <1>4 DEF Answers, HeadHolds

(* Nothing but the state of a row changes when the flush marks it.          *)
LEMMA MarkKeeps ==
    ASSUME TypeOK, NEW c \in Producer, FlushHolds(c), fl[c].pc \in Sending,
           NEW state \in {"pending", "conflict", "rejected"}, Mark(c, state)
    PROVE  /\ Entries(c)' = Entries(c)
           /\ \A row \in pending'[c] : row \in pending[c] \/ (row.id = fl[c].row.id /\ row.state = state)
<1> DEFINE marked == [fl[c].row EXCEPT !.state = state, !.late = TRUE]
<1>1. fl[c].row \in Row /\ fl[c].row # None
  BY NoneAssumption DEF TypeOK, FlushState
<1>2. /\ marked.id = fl[c].row.id /\ marked.rev = fl[c].row.rev
      /\ marked.exp = fl[c].row.exp /\ marked.state = state
  BY <1>1 DEF Row
<1>3. pending'[c] = Without(c) \cup {marked}
  BY DEF Mark, TypeOK
<1> HIDE DEF marked
<1>4. Message(marked) = Message(fl[c].row)
  BY <1>2 DEF Message
<1>5. Message(fl[c].row) \in Entries(c)
  BY <1>1 DEF FlushHolds
<1>6. Entries(c)' = {Message(row) : row \in Without(c)} \cup {Message(fl[c].row)}
  BY <1>3, <1>4 DEF Entries, Message
<1>7. ASSUME NEW row \in pending[c], row \notin Without(c)
      PROVE  Message(row) = Message(fl[c].row)
  <2>1. row.id = fl[c].row.id /\ row \in Row
    BY <1>7 DEF Without, TypeOK
  <2>2. Message(row) \in Entries(c)
    BY DEF Entries
  <2>3. Message(row).id = Message(fl[c].row).id
    BY <1>1, <2>1, MessageFacts
  <2>4. QED
    BY <1>5, <2>2, <2>3, EntryFacts
<1>8. Entries(c)' = Entries(c)
  BY <1>5, <1>6, <1>7 DEF Entries, Without
<1>9. QED
  BY <1>2, <1>3, <1>8 DEF Without

LEMMA DueKeeps ==
    ASSUME TypeOK, NEW c \in Producer, NEW s \in Session, Due(c, s)
    PROVE  /\ Entries(c)' = Entries(c)
           /\ \A row \in pending'[c] : row \in pending[c] \/ row.state = "pending"
<1>1. PICK row \in pending[c] :
         /\ row.state = "pending"
         /\ pending' = [pending EXCEPT ![c] = (@ \ {row}) \cup {[row EXCEPT !.late = FALSE]}]
  BY DEF Due, Rows
<1> DEFINE due == [row EXCEPT !.late = FALSE]
<1>2. due.id = row.id /\ due.rev = row.rev /\ due.exp = row.exp /\ due.state = "pending"
  BY <1>1 DEF TypeOK, Row
<1>3. pending'[c] = (pending[c] \ {row}) \cup {due}
  BY <1>1 DEF TypeOK
<1> HIDE DEF due
<1>4. Message(due) = Message(row)
  BY <1>2 DEF Message
<1>5. Entries(c)' = Entries(c)
  BY <1>3, <1>4 DEF Entries, Message
<1>6. QED
  BY <1>2, <1>3, <1>5

(* The rows that a flush reads are first rows, one of each session.         *)
LEMMA ReadRows ==
    ASSUME TypeOK, NEW c \in Producer, NEW rows \in SUBSET pending[c],
           \A row \in rows : Oldest(c, row)
    PROVE  /\ \A row \in rows : Message(row) \in Entries(c) /\ First(c, row.id)
           /\ \A row, other \in rows : row.id = other.id => row = other
<1>1. ASSUME NEW row \in rows PROVE Message(row) \in Entries(c) /\ First(c, row.id)
  <2>1. Message(row) \in Entries(c)
    BY DEF Entries
  <2>2. ASSUME NEW q \in Entries(c), q.id.s = row.id.s PROVE row.id.v <= q.id.v
    <3>1. PICK other \in pending[c] : other.id = q.id
      BY EntryFacts
    <3>2. QED
      BY <2>2, <3>1 DEF Oldest, Rows
  <2>3. QED
    BY <2>1, <2>2 DEF First
<1>2. QED
  BY <1>1 DEF TypeOK

(* A flush that does not wait for an answer, or that marks a row.           *)
LEMMA FlushQuiet ==
    ASSUME TypeOK, TypeOK', NEW c \in Producer, FlushHolds(c), NetHolds(c), Answers(c),
           \/ FlushStart(c) \/ FlushSend(c) \/ FlushStopped(c) \/ FlushFail(c) \/ Die(c) \/ FetchHeads(c)
           \/ \E s \in Session : Due(c, s)
    PROVE  FlushHolds(c)' /\ NetHolds(c)' /\ Answers(c)'
<1>1. UNCHANGED <<clientVars, acked, serverVars>>
  BY DEF FlushStart, FlushSend, FlushStopped, FlushFail, Die, FetchHeads, Due
<1>2. /\ Entries(c)' = Entries(c)
      /\ \A row \in pending'[c] :
            row \in pending[c] \/ row.state # "conflict" \/ (fl[c].pc = "conflict" /\ row.id = fl[c].row.id)
  <2>1. CASE FlushStopped(c)
    BY <2>1, MarkKeeps DEF FlushStopped, Sending, Replies
  <2>2. CASE FlushFail(c)
    BY <2>2, MarkKeeps DEF FlushFail
  <2>3. CASE \E s \in Session : Due(c, s)
    BY <2>3, DueKeeps
  <2>4. CASE pending' = pending
    BY <2>4 DEF Entries, Message
  <2>5. QED
    BY <2>1, <2>2, <2>3, <2>4 DEF FlushStart, FlushSend, Die, FetchHeads
<1>3. \A id : First(c, id)' <=> First(c, id)
  BY <1>2 DEF First
<1>4. \/ fl'[c].pc = "heads" /\ fl'[c].heads = head
      \/ fl'[c].pc \in {"idle", "next", "wait"}
      \/ fl' = fl
  <2>1. CASE FetchHeads(c)
    BY <2>1 DEF FetchHeads, TypeOK, IdleFlush
  <2>2. CASE FlushSend(c)
    <3>1. PICK row \in fl[c].todo :
             fl' = [fl EXCEPT ![c] = [fl[c] EXCEPT !.pc = "wait", !.row = row, !.todo = @ \ {row}]]
      BY <2>2 DEF FlushSend
    <3>2. fl'[c].pc = "wait"
      BY <3>1 DEF TypeOK, FlushState
    <3>3. QED
      BY <3>2
  <2>3. CASE \E s \in Session : Due(c, s)
    BY <2>3 DEF Due
  <2>4. CASE FlushStart(c) \/ FlushStopped(c)
    <3>1. PICK rows : fl'[c] = Rest(rows)
      BY <2>4 DEF FlushStart, FlushStopped, Done, TypeOK
    <3>2. Rest(rows).pc \in {"idle", "next"}
      BY DEF Rest, IdleFlush
    <3>3. QED
      BY <3>1, <3>2
  <2>5. CASE FlushFail(c) \/ Die(c)
    <3>1. fl'[c] = IdleFlush
      BY <2>5 DEF FlushFail, Die, TypeOK
    <3>2. QED
      BY <3>1, IdleType
  <2>6. QED
    BY <2>1, <2>2, <2>3, <2>4, <2>5
<1>6. ASSUME NEW s \in Session, Steady(c, s) PROVE Peaceful(c, s)'
  <2>1. Peaceful(c, s)
    BY <1>6 DEF Answers, HeadHolds, Undisturbed
  <2>2. QED
    BY <1>2, <1>4, <2>1 DEF Peaceful
<1>7. Answers(c)'
  BY <1>1, <1>2, <1>4, <1>6, QuietStep
<1>8. FlushHolds(c)'
  <2>1. ASSUME fl'[c].todo \subseteq fl[c].todo, fl'[c].row = None, fl'[c].pc # "durable"
        PROVE  FlushHolds(c)'
    BY <1>2, <1>3, <2>1 DEF FlushHolds, Message
  <2>2. ASSUME NEW rows \in SUBSET pending[c], \A row \in rows : Oldest(c, row), fl'[c].todo = rows,
               fl'[c].row = None, fl'[c].pc # "durable"
        PROVE  FlushHolds(c)'
    BY <1>2, <1>3, <2>2, ReadRows DEF FlushHolds, Message
  <2>3. CASE FlushStart(c)
    <3>1. Batch(c) \in SUBSET pending[c] /\ Batch(c) \in SUBSET Row /\ \A row \in Batch(c) : Oldest(c, row)
      BY DEF Batch, TypeOK
    <3>2. fl'[c] = Rest(Batch(c))
      BY <2>3 DEF FlushStart, TypeOK
    <3>3. fl'[c].todo = Batch(c) /\ fl'[c].row = None /\ fl'[c].pc # "durable"
      BY <3>1, <3>2, RestType DEF Sending, Replies
    <3>4. QED
      BY <2>2, <3>1, <3>3
  <2>4. CASE FetchHeads(c)
    <3> DEFINE rows == {row \in pending[c] : row.state # "rejected" /\ Oldest(c, row)}
    <3>1. fl'[c].todo = rows /\ fl'[c].row = None /\ fl'[c].pc # "durable"
      BY <2>4 DEF FetchHeads, TypeOK, IdleFlush
    <3>2. rows \in SUBSET pending[c] /\ \A row \in rows : Oldest(c, row)
      OBVIOUS
    <3> HIDE DEF rows
    <3>3. QED
      BY <2>2, <3>1, <3>2
  <2>5. CASE FlushSend(c)
    <3>1. PICK row \in fl[c].todo :
             fl' = [fl EXCEPT ![c] = [fl[c] EXCEPT !.pc = "wait", !.row = row, !.todo = @ \ {row}]]
      BY <2>5 DEF FlushSend
    <3>2. fl'[c].pc = "wait" /\ fl'[c].row = row /\ fl'[c].todo = fl[c].todo \ {row}
      BY <3>1 DEF TypeOK, FlushState
    <3>3. QED
      BY <1>2, <1>3, <3>2 DEF FlushHolds, Message
  <2>6. CASE FlushStopped(c)
    <3>1. fl'[c] = Rest(fl[c].todo) /\ fl[c].todo \in SUBSET Row
      BY <2>6 DEF FlushStopped, Done, TypeOK, FlushState
    <3>2. fl'[c].todo = fl[c].todo /\ fl'[c].row = None /\ fl'[c].pc # "durable"
      BY <3>1, RestType DEF Sending, Replies
    <3>3. QED
      BY <2>1, <3>2
  <2>7. CASE FlushFail(c) \/ Die(c)
    <3>1. fl'[c] = IdleFlush
      BY <2>7 DEF FlushFail, Die, TypeOK
    <3>2. fl'[c].todo = {} /\ fl'[c].row = None /\ fl'[c].pc # "durable"
      BY <3>1, IdleType
    <3>3. QED
      BY <2>1, <3>2
  <2>8. CASE \E s \in Session : Due(c, s)
    <3>1. fl' = fl /\ receipts' = receipts
      BY <2>8 DEF Due, serverVars
    <3>2. QED
      BY <1>2, <1>3, <3>1 DEF FlushHolds, Message, Receipt
  <2>9. QED
    BY <2>3, <2>4, <2>5, <2>6, <2>7, <2>8
<1>9. NetHolds(c)'
  <2>1. receipts' = receipts
    BY <1>1 DEF serverVars
  <2>2. CASE FlushSend(c)
    <3>1. PICK row \in fl[c].todo : net' = net \cup {Message(row)}
      BY <2>2 DEF FlushSend
    <3>2. Message(row) \in Entries(c) /\ First(c, row.id) /\ Message(row).id = row.id
      BY MessageFacts DEF FlushHolds, TypeOK, FlushState
    <3>3. QED
      BY <1>2, <1>3, <2>1, <3>1, <3>2 DEF NetHolds, Receipt
  <2>3. CASE net' = net
    BY <1>2, <1>3, <2>1, <2>3 DEF NetHolds, Receipt
  <2>4. QED
    BY <2>2, <2>3 DEF FlushStart, FlushStopped, FlushFail, Die, FetchHeads, Due
<1>10. QED
  BY <1>7, <1>8, <1>9

(* A file that changes gets a version that no receipt is about.             *)
LEMMA ChangeAlone ==
    ASSUME TypeOK, NEW c \in Producer, FlushHolds(c), NetHolds(c), Answers(c),
           NEW s \in Session, ChangeFile(c, s)
    PROVE  FlushHolds(c)' /\ NetHolds(c)' /\ Answers(c)'
<1>1. UNCHANGED <<pending, acked, fl, net, serverVars>>
  BY DEF ChangeFile
<1>2. Entries(c)' = Entries(c)
  BY <1>1 DEF Entries, Message
<1>3. \A id : First(c, id)' <=> First(c, id)
  BY <1>2 DEF First
<1>4. \A p, q : Before(c, p, q)' <=> Before(c, p, q)
  BY <1>2 DEF Before
<1>5. FlushHolds(c)' /\ NetHolds(c)'
  BY <1>1, <1>2, <1>3 DEF FlushHolds, NetHolds, Message, Receipt, serverVars
<1>6. StoredByReceipt' /\ Chained(c)'
  BY <1>1, <1>2, <1>3, <1>4 DEF Answers, StoredByReceipt, Chained, serverVars
<1>7. ASSUME NEW t \in Session, Steady(c, t)' PROVE Undisturbed(c, t)'
  <2>1. Undisturbed(c, t)
    BY <1>1, <1>2, <1>7 DEF Answers, HeadHolds, Steady, Sent, serverVars
  <2>2. QED
    BY <1>1, <1>2, <1>3, <2>1 DEF Undisturbed, Led, Expecting, Fetched, Peaceful, Answered,
       serverVars
<1>8. ReceiptsPast(c)'
  <2>1. PICK new : file' = [file EXCEPT ![c][s] = new]
    BY DEF ChangeFile
  <2>2. version' = [version EXCEPT ![c][s] = @ + 1]
    BY DEF ChangeFile
  <2>3. ASSUME NEW r \in receipts
        PROVE  /\ r.id.v <= version'[c][r.id.s]
               /\ r.id.v = version'[c][r.id.s] => r.rev = file'[c][r.id.s]
    <3>1. /\ r.id.s \in Session /\ r.id.v \in Nat
          /\ version[c][r.id.s] \in Nat /\ r.id.v <= version[c][r.id.s]
      BY ReceiptFacts DEF Answers, ReceiptsPast, TypeOK
    <3>2. CASE r.id.s = s
      <4>1. version'[c][r.id.s] = version[c][r.id.s] + 1
        BY <2>2, <3>2 DEF TypeOK
      <4>2. QED
        BY <3>1, <4>1
    <3>3. CASE r.id.s # s
      <4>1. version'[c][r.id.s] = version[c][r.id.s] /\ file'[c][r.id.s] = file[c][r.id.s]
        BY <2>1, <2>2, <3>1, <3>3 DEF TypeOK
      <4>2. QED
        BY <3>1, <4>1 DEF Answers, ReceiptsPast
    <3>4. QED
      BY <3>2, <3>3
  <2>4. QED
    BY <1>1, <1>2, <2>3 DEF Answers, ReceiptsPast, serverVars
<1>9. QED
  BY <1>5, <1>6, <1>7, <1>8 DEF Answers, HeadHolds

(* What a capture expects is what the last row of the session carries.      *)
LEMMA ExpectedLast ==
    ASSUME TypeOK, NEW c \in Producer, NEW s \in Session
    PROVE  \/ (\A q \in Entries(c) : q.id.s # s) /\ Expected(c, s) = acked[c][s]
           \/ \E p \in Entries(c) :
                /\ p.id.s = s /\ Expected(c, s) = p.rev
                /\ \A q \in Entries(c) : q.id.s = s => q.id.v <= p.id.v
<1>1. CASE Rows(c, s) = {}
  <2>1. \A q \in Entries(c) : q.id.s # s
    BY <1>1, EntryFacts DEF Rows
  <2>2. QED
    BY <1>1, <2>1 DEF Expected
<1>2. CASE Rows(c, s) # {}
  <2> DEFINE Highest(row) == \A other \in Rows(c, s) : other.id.v <= row.id.v
             rank == [row \in Rows(c, s) |-> row.id.v]
             last == CHOOSE row \in Rows(c, s) : Highest(row)
  <2>1. rank \in [Rows(c, s) -> 0..MaxVersions]
    BY DEF Rows, TypeOK, Row, RequestId
  <2>2. \E row \in Rows(c, s) : \A other \in Rows(c, s) : rank[other] <= rank[row]
    <3> HIDE DEF rank
    <3>1. QED
      BY <1>2, <2>1, HighestExists
  <2>3. \E row \in Rows(c, s) : Highest(row)
    BY <2>2
  <2>4. last \in Rows(c, s) /\ Highest(last)
    BY <2>3
  <2>5. Expected(c, s) = last.rev
    BY <1>2 DEF Expected
  <2> DEFINE p == Message(last)
  <2>6. last \in pending[c] /\ last \in Row /\ last.id.s = s
    BY <2>4 DEF Rows, TypeOK
  <2> HIDE DEF last
  <2>7. p \in Entries(c) /\ p.id = last.id /\ p.rev = last.rev
    BY <2>6, MessageFacts DEF Entries
  <2>8. ASSUME NEW q \in Entries(c), q.id.s = s PROVE q.id.v <= p.id.v
    <3>1. PICK other \in pending[c] : other.id = q.id
      BY EntryFacts
    <3>2. other \in Rows(c, s)
      BY <2>8, <3>1 DEF Rows
    <3>3. QED
      BY <2>4, <2>7, <3>1, <3>2
  <2>9. QED
    BY <2>5, <2>6, <2>7, <2>8
<1>3. QED
  BY <1>1, <1>2

(* A captured row comes last in its session.                                *)
LEMMA CaptureAlone ==
    ASSUME TypeOK, TypeOK', QueueInv, NEW c \in Producer, FlushHolds(c), NetHolds(c), Answers(c),
           NEW s \in Session, NEW force \in BOOLEAN, Capture(c, s, force)
    PROVE  FlushHolds(c)' /\ NetHolds(c)' /\ Answers(c)'
<1>a. PICK row : row = NewRow(c, s)
  OBVIOUS
<1>b. PICK new : new = Message(row)
  OBVIOUS
<1>1. UNCHANGED <<file, version, acked, fl, net, serverVars>>
  BY DEF Capture
<1>2. /\ new.id.c = c /\ new.id.s = s /\ new.id.v = version[c][s] /\ row.id = new.id
      /\ new.rev = file[c][s] /\ new.exp = Expected(c, s) /\ row.state = "pending"
      /\ new.id = [c |-> c, s |-> s, v |-> version[c][s]]
  BY <1>a, <1>b DEF Message, NewRow
<1>3. version[c][s] \in Nat
  BY DEF TypeOK
<1>4. CASE pending' = pending
  <2>1. Entries(c)' = Entries(c) /\ \A t \in Session : Steady(c, t) => Peaceful(c, t)'
    BY <1>1, <1>4 DEF Entries, Message, Answers, HeadHolds, Undisturbed, Peaceful
  <2>2. \A id : First(c, id)' <=> First(c, id)
    BY <2>1 DEF First
  <2>3. \A p, q : Before(c, p, q)' <=> Before(c, p, q)
    BY <2>1 DEF Before
  <2>4. FlushHolds(c)' /\ NetHolds(c)'
    BY <1>1, <2>1, <2>2 DEF FlushHolds, NetHolds, Message, Receipt, serverVars
  <2>5. StoredByReceipt' /\ Chained(c)' /\ ReceiptsPast(c)'
    BY <1>1, <2>1, <2>2, <2>3 DEF Answers, StoredByReceipt, Chained, ReceiptsPast, serverVars
  <2>6. ASSUME NEW t \in Session, Steady(c, t)' PROVE Undisturbed(c, t)'
    <3>1. Undisturbed(c, t)
      BY <1>1, <2>1, <2>6 DEF Answers, HeadHolds, Steady, Sent, serverVars
    <3>2. QED
      BY <1>1, <1>4, <2>1, <2>2, <3>1 DEF Undisturbed, Led, Expecting, Fetched, Peaceful,
         Answered, serverVars
  <2>7. QED
    BY <2>4, <2>5, <2>6 DEF Answers, HeadHolds
<1>5. ASSUME \A other \in pending[c] : other.id # new.id,
             pending' = [pending EXCEPT ![c] = @ \cup {row}]
      PROVE  FlushHolds(c)' /\ NetHolds(c)' /\ Answers(c)'
  <2>1. pending'[c] = pending[c] \cup {row}
    BY <1>5 DEF TypeOK
  <2>2. Entries(c)' = Entries(c) \cup {new}
    BY <1>b, <2>1 DEF Entries, Message
  <2>3. ASSUME NEW q \in Entries(c), q.id.s = s PROVE q.id.v \in Nat /\ q.id.v < new.id.v
    <3>1. PICK other \in pending[c] : other.id = q.id
      BY EntryFacts
    <3>2. q.id.v <= version[c][s]
      BY <2>3, <3>1 DEF QueueInv, RowContent, Held
    <3>3. other.id \in RequestId /\ other.id.c = c
      BY DEF TypeOK, Row
    <3>4. q.id.v # version[c][s]
      BY <1>2, <1>5, <2>3, <3>1, <3>3 DEF RequestId
    <3>5. q.id.v \in Nat
      BY EntryFacts
    <3>6. QED
      BY <1>2, <1>3, <3>2, <3>4, <3>5
  <2>4. \A q \in Entries(c) : First(c, q.id)' <=> First(c, q.id)
    BY <1>2, <1>3, <2>2, <2>3 DEF First
  <2>5. \A p, q \in Entries(c) : Before(c, p, q) => Before(c, p, q)'
    <3>1. ASSUME NEW p \in Entries(c), NEW q \in Entries(c), Before(c, p, q), new.id.s = q.id.s
          PROVE  ~(new.id.v < q.id.v)
      BY <1>2, <1>3, <2>3, <3>1
    <3>2. QED
      BY <2>2, <3>1 DEF Before
  <2>6. FlushHolds(c)'
    <3>1. \A r \in fl[c].todo \cup ({fl[c].row} \ {None}) : Message(r) \in Entries(c) /\ r.id = Message(r).id
      BY DEF FlushHolds, Message
    <3>2. \A r \in fl[c].todo \cup ({fl[c].row} \ {None}) : First(c, r.id)'
      BY <2>4, <3>1 DEF FlushHolds
    <3>3. QED
      BY <1>1, <2>2, <3>1, <3>2 DEF FlushHolds, Message, Receipt, serverVars
  <2>7. NetHolds(c)'
    BY <1>1, <2>2, <2>4 DEF NetHolds, Receipt, serverVars
  <2>8. StoredByReceipt'
    BY <1>1 DEF Answers, StoredByReceipt, serverVars
  <2>9. ReceiptsPast(c)'
    <3>1. ASSUME NEW r \in receipts
          PROVE  /\ new.id.s = r.id.s => r.id.v <= new.id.v
                 /\ new.id = r.id => new.rev = r.rev
      BY <1>2 DEF Answers, ReceiptsPast
    <3>2. QED
      BY <1>1, <2>2, <3>1 DEF Answers, ReceiptsPast, serverVars
  <2>10. First(c, new.id)' \/ \E p \in Entries(c) : Before(c, p, new)' /\ new.exp = p.rev
    <3>1. CASE (\A q \in Entries(c) : q.id.s # s)
      BY <1>2, <1>3, <2>2, <3>1 DEF First
    <3>2. ASSUME NEW p \in Entries(c), p.id.s = s, Expected(c, s) = p.rev,
                 \A q \in Entries(c) : q.id.s = s => q.id.v <= p.id.v
          PROVE  Before(c, p, new)' /\ new.exp = p.rev
      BY <1>2, <1>3, <2>2, <2>3, <3>2 DEF Before
    <3>3. QED
      BY <3>1, <3>2, ExpectedLast
  <2>11. Chained(c)'
    <3>1. ASSUME NEW q \in Entries(c)
          PROVE  First(c, q.id)' \/ \E p \in Entries(c)' : Before(c, p, q)' /\ q.exp = p.rev
      BY <2>2, <2>4, <2>5 DEF Answers, Chained
    <3>2. QED
      BY <2>2, <2>10, <3>1 DEF Chained
  <2>12. ASSUME NEW t \in Session, Steady(c, t)' PROVE Undisturbed(c, t)'
    <3>1. Undisturbed(c, t)
      <4>1. Sent(c, t) \subseteq Sent(c, t)'
        BY <1>1, <2>2 DEF Sent, serverVars
      <4>2. Steady(c, t)
        BY <2>12, <4>1 DEF Steady
      <4>3. QED
        BY <4>2 DEF Answers, HeadHolds
    <3>2. \A id : Answered(id)' <=> Answered(id)
      BY <1>1 DEF Answered, serverVars
    <3>3. Led(t)'
      BY <1>1, <3>1 DEF Undisturbed, Led, serverVars
    <3>4. ASSUME new.id.s = t, First(c, new.id)' PROVE new.exp = acked[c][t]
      <4>1. \A q \in Entries(c) : q.id.s # s
        BY <1>2, <1>3, <2>2, <2>3, <3>4 DEF First
      <4>2. QED
        BY <1>2, <3>4, <4>1, ExpectedLast
    <3>5. Expecting(c, t)'
      <4>1. (\A q \in Entries(c)' : q.id.s = t => ~Answered(q.id)') => head'[t] = acked'[c][t]
        BY <1>1, <2>2, <3>1, <3>2 DEF Undisturbed, Expecting, serverVars
      <4>2. ASSUME NEW q \in Entries(c)', q.id.s = t, First(c, q.id)'
            PROVE  Answered(q.id)' \/ q.exp = acked'[c][t]
        <5>1. CASE q \in Entries(c)
          BY <1>1, <2>4, <3>1, <3>2, <4>2, <5>1 DEF Undisturbed, Expecting
        <5>2. CASE q = new
          BY <1>1, <3>4, <4>2, <5>2
        <5>3. QED
          BY <2>2, <5>1, <5>2
      <4>3. QED
        BY <4>1, <4>2 DEF Expecting
    <3>6. Fetched(c, t)'
      BY <1>1, <2>2, <3>1, <3>2 DEF Undisturbed, Fetched, serverVars
    <3>7. Peaceful(c, t)'
      BY <1>1, <1>2, <2>1, <3>1 DEF Undisturbed, Peaceful
    <3>8. QED
      BY <3>3, <3>5, <3>6, <3>7 DEF Undisturbed
  <2>13. QED
    BY <2>6, <2>7, <2>8, <2>9, <2>11, <2>12 DEF Answers, HeadHolds
<1>6. QED
  <2>1. row.id = new.id
    BY <1>2
  <2>2. CASE \E other \in pending[c] : other.id = row.id
    <3>1. pending' = pending
      BY <1>a, <2>2 DEF Capture
    <3>2. QED
      BY <1>4, <3>1
  <2>3. CASE ~\E other \in pending[c] : other.id = row.id
    <3>1. pending' = [pending EXCEPT ![c] = @ \cup {row}]
      BY <1>a, <2>3 DEF Capture
    <3>2. \A other \in pending[c] : other.id # new.id
      BY <2>1, <2>3
    <3>3. QED
      BY <1>5, <3>1, <3>2
  <2>4. QED
    BY <2>2, <2>3

(* An acknowledged row was the first; its successor expects what it carries.*)
LEMMA AckAlone ==
    ASSUME Lone, TypeOK, TypeOK', NEW c \in Producer, FlushHolds(c), NetHolds(c), Answers(c),
           FlushAck(c)
    PROVE  FlushHolds(c)' /\ NetHolds(c)' /\ Answers(c)'
<1>a. PICK row : row = fl[c].row
  OBVIOUS
<1>b. PICK old : old = Message(row)
  OBVIOUS
<1>1. UNCHANGED <<clientVars, net, serverVars>>
  BY DEF FlushAck
<1>2. row \in Row /\ row # None /\ Receipt(row) \in receipts
  BY <1>a, NoneAssumption DEF FlushAck, TypeOK, FlushState, FlushHolds, Sending, Replies
<1>3. /\ old \in Entries(c) /\ First(c, old.id) /\ old.id = row.id /\ old.rev = row.rev
      /\ \A other \in fl[c].todo : other.id # old.id
  BY <1>a, <1>b, <1>2, MessageFacts DEF FlushHolds
<1>4. old.id.s \in Session /\ old.id.v \in Nat /\ old.rev \in Revision
  BY <1>3, EntryFacts
<1>5. acked' = [acked EXCEPT ![c][old.id.s] = old.rev]
  BY <1>a, <1>3 DEF FlushAck
<1>6. pending'[c] = {other \in pending[c] : other.id # old.id}
  BY <1>a, <1>3 DEF FlushAck, Without, TypeOK
<1>7. Entries(c)' = Entries(c) \ {old}
  <2>1. ASSUME NEW other \in pending[c], other.id # old.id PROVE Message(other) # old
    BY <2>1 DEF Message
  <2>2. ASSUME NEW other \in pending[c], Message(other) # old PROVE other.id # old.id
    <3>1. Message(other) \in Entries(c) /\ Message(other).id = other.id
      BY DEF Entries, Message
    <3>2. QED
      BY <1>3, <2>2, <3>1, EntryFacts
  <2>3. QED
    BY <1>6, <2>1, <2>2 DEF Entries, Message
<1>8. \A id : First(c, id) => First(c, id)'
  BY <1>7 DEF First
<1>9. fl'[c].todo = fl[c].todo /\ fl'[c].row = None /\ fl'[c].pc \in {"idle", "next"}
  <2>1. fl'[c] = Rest(fl[c].todo) /\ fl[c].todo \in SUBSET Row
    BY DEF FlushAck, Done, TypeOK, FlushState
  <2>2. Rest(fl[c].todo).pc \in {"idle", "next"}
    BY DEF Rest, IdleFlush
  <2>3. QED
    BY <2>1, <2>2, RestType
<1>10. FlushHolds(c)'
  <2>1. ASSUME NEW other \in fl[c].todo
        PROVE  Message(other) \in Entries(c)' /\ First(c, other.id)'
    <3>1. Message(other) \in Entries(c) /\ First(c, other.id) /\ Message(other).id = other.id
      BY DEF FlushHolds, Message
    <3>2. QED
      BY <1>3, <1>7, <1>8, <3>1
  <2>2. QED
    BY <1>9, <2>1 DEF FlushHolds, Message
<1>11. NetHolds(c)'
  <2>1. ASSUME NEW m \in net, Receipt(m) \notin receipts
        PROVE  First(c, m.id)' /\ \E q \in Entries(c)' : q.id = m.id /\ q.rev = m.rev
    <3>1. PICK q \in Entries(c) : First(c, m.id) /\ q.id = m.id /\ q.rev = m.rev
      BY <2>1 DEF NetHolds
    <3>2. q # old
      BY <1>2, <1>3, <2>1, <3>1 DEF Receipt
    <3>3. QED
      BY <1>7, <1>8, <3>1, <3>2
  <2>2. QED
    BY <1>1, <2>1 DEF NetHolds, Receipt, serverVars
<1>12. StoredByReceipt' /\ ReceiptsPast(c)'
  BY <1>1, <1>7 DEF Answers, StoredByReceipt, ReceiptsPast, serverVars, clientVars
<1>13. ASSUME NEW q \in Entries(c), q # old, First(c, q.id)', q.id.s = old.id.s
       PROVE  q.exp = old.rev
  <2>1. ~First(c, q.id)
    BY <1>3, <1>13, OneFirst
  <2>2. PICK p \in Entries(c) : Before(c, p, q) /\ q.exp = p.rev
    BY <2>1 DEF Answers, Chained
  <2>3. p.id.s = q.id.s /\ p.id.v < q.id.v /\ p.id.v \in Nat /\ q.id.v \in Nat
    BY <2>2, EntryFacts DEF Before
  <2>4. p = old
    BY <1>7, <1>13, <2>3 DEF First
  <2>5. QED
    BY <2>2, <2>4
<1>14. Chained(c)'
  <2>1. ASSUME NEW q \in Entries(c), q # old, ~First(c, q.id)'
        PROVE  \E p \in Entries(c)' : Before(c, p, q)' /\ q.exp = p.rev
    <3>1. PICK p \in Entries(c) : Before(c, p, q) /\ q.exp = p.rev
      BY <1>8, <2>1 DEF Answers, Chained
    <3>2. Before(c, p, q)'
      BY <1>7, <3>1 DEF Before
    <3>3. CASE p = old
      <4>1. First(c, q.id)'
        <5>1. ASSUME NEW o \in Entries(c), o # old, o.id.s = q.id.s, ~(q.id.v <= o.id.v)
              PROVE  FALSE
          <6>1. o.id.v \in Nat /\ q.id.v \in Nat /\ o.id.v < q.id.v
            BY <5>1, EntryFacts
          <6>2. o.id.v <= old.id.v /\ old.id.s = q.id.s
            BY <3>1, <3>3, <5>1, <6>1 DEF Before
          <6>3. old.id.v <= o.id.v
            BY <1>3, <5>1, <6>2 DEF First
          <6>4. QED
            BY <1>3, <1>4, <5>1, <6>1, <6>2, <6>3, EntryFacts
        <5>2. QED
          BY <1>7, <5>1 DEF First
      <4>2. QED
        BY <2>1, <4>1
    <3>4. QED
      BY <1>7, <3>1, <3>2, <3>3
  <2>2. QED
    BY <1>7, <2>1 DEF Chained
<1>15. ASSUME NEW s \in Session, Steady(c, s)' PROVE Undisturbed(c, s)'
  <2>1. Steady(c, s)
    <3>1. ASSUME NEW x \in Sent(c, s)
          PROVE  \E y \in Sent(c, s)' : y.id = x.id /\ y.rev = x.rev
      <4>1. CASE x = old
        <5>1. Receipt(row) \in Sent(c, s)'
          BY <1>1, <1>2, <1>3, <3>1, <4>1 DEF Sent, Receipt, serverVars
        <5>2. QED
          BY <1>3, <4>1, <5>1 DEF Receipt
      <4>2. CASE x # old
        BY <1>1, <1>7, <3>1, <4>2 DEF Sent, serverVars
      <4>3. QED
        BY <4>1, <4>2
    <3>2. ASSUME NEW x \in Sent(c, s), NEW y \in Sent(c, s), x.id.v <= y.id.v
          PROVE  IsPrefix(x.rev, y.rev)
      <4>1. PICK u \in Sent(c, s)' : u.id = x.id /\ u.rev = x.rev
        BY <3>1
      <4>2. PICK w \in Sent(c, s)' : w.id = y.id /\ w.rev = y.rev
        BY <3>1
      <4>3. QED
        BY <1>15, <3>2, <4>1, <4>2 DEF Steady
    <3>3. QED
      BY <3>2 DEF Steady
  <2>2. Undisturbed(c, s)
    BY <2>1 DEF Answers, HeadHolds
  <2>3. \A id : Answered(id)' <=> Answered(id)
    BY <1>1 DEF Answered, serverVars
  <2>4. Led(s)'
    BY <1>1, <2>2 DEF Undisturbed, Led, serverVars
  <2>5. Fetched(c, s)'
    BY <1>9 DEF Fetched
  <2>6. Peaceful(c, s)'
    BY <1>6, <1>9, <2>2 DEF Undisturbed, Peaceful
  <2>7. ASSUME s # old.id.s PROVE Expecting(c, s)'
    <3>1. acked'[c][s] = acked[c][s] /\ head' = head
      BY <1>1, <1>5, <2>7 DEF TypeOK, serverVars
    <3>2. \A q \in Entries(c) : q.id.s = s => q \in Entries(c)'
      BY <1>7, <2>7
    <3>3. \A q \in Entries(c)' : q \in Entries(c)
      BY <1>7
    <3>4. \A q \in Entries(c)' : q.id.s = s /\ First(c, q.id)' => First(c, q.id)
      BY <3>2 DEF First
    <3>5. QED
      BY <2>2, <2>3, <3>1, <3>2, <3>3, <3>4 DEF Undisturbed, Expecting
  <2>8. ASSUME s = old.id.s PROVE Expecting(c, s)'
    <3>1. acked'[c][s] = old.rev
      BY <1>4, <1>5, <2>8 DEF TypeOK
    <3>2. head[s] = old.rev
      <4>1. Receipt(row) \in receipts /\ Receipt(row).id.s = s /\ Receipt(row).rev = old.rev
        BY <1>2, <1>3, <2>8 DEF Receipt
      <4>2. PICK x \in receipts : x.id.s = s /\ x.rev = head[s] /\ IsPrefix(old.rev, head[s])
        BY <2>2, <4>1 DEF Undisturbed, Led
      <4>3. x.id.v <= old.id.v
        BY <1>3, <2>8, <4>2 DEF Answers, ReceiptsPast
      <4>4. IsPrefix(head[s], old.rev)
        BY <1>3, <2>1, <2>8, <4>2, <4>3 DEF Steady, Sent
      <4>5. head[s] \in Revision
        BY <4>2, ReceiptFacts
      <4>6. QED
        BY <1>4, <4>2, <4>4, <4>5, PrefixAntisymmetric
    <3>3. QED
      BY <1>1, <1>7, <1>13, <2>8, <3>1, <3>2 DEF Expecting, serverVars
  <2>9. QED
    BY <2>4, <2>5, <2>6, <2>7, <2>8 DEF Undisturbed
<1>16. QED
  BY <1>10, <1>11, <1>12, <1>14, <1>15 DEF Answers, HeadHolds

(* A reconciled row keeps its place; it expects the head that was fetched,  *)
(* which is still the head unless the row was answered meanwhile.           *)
LEMMA ReconcileAlone ==
    ASSUME TypeOK, TypeOK', NEW c \in Producer, FlushHolds(c), NetHolds(c), Answers(c),
           Reconcile(c)
    PROVE  FlushHolds(c)' /\ NetHolds(c)' /\ Answers(c)'
<1>1. UNCHANGED <<clientVars, acked, net, serverVars>>
  BY DEF Reconcile
<1>2. PICK row \in fl[c].todo :
         /\ pending' = [pending EXCEPT ![c] =
              {other \in @ : other.id # row.id} \cup
              {[row EXCEPT !.exp = fl[c].heads[row.id.s], !.state = "pending", !.late = FALSE]}]
         /\ fl' = [fl EXCEPT ![c].todo = @ \ {row}]
  BY DEF Reconcile
<1>3. PICK rebased : rebased = [row EXCEPT !.exp = fl[c].heads[row.id.s], !.state = "pending", !.late = FALSE]
  OBVIOUS
<1>4. row \in Row
  BY DEF TypeOK, FlushState
<1>5. /\ rebased.id = row.id /\ rebased.rev = row.rev
      /\ rebased.exp = fl[c].heads[row.id.s] /\ rebased.state = "pending"
  BY <1>3, <1>4 DEF Row
<1>6. pending'[c] = {other \in pending[c] : other.id # row.id} \cup {rebased}
  BY <1>2, <1>3 DEF TypeOK
<1>7. PICK old : old = Message(row)
  OBVIOUS
<1>8. PICK new : new = Message(rebased)
  OBVIOUS
<1>9. /\ old \in Entries(c) /\ First(c, old.id) /\ old.id = row.id /\ old.rev = row.rev
      /\ new.id = old.id /\ new.rev = old.rev /\ new.exp = fl[c].heads[old.id.s]
  BY <1>4, <1>5, <1>7, <1>8, MessageFacts DEF FlushHolds, Message
<1>10. Entries(c)' = (Entries(c) \ {old}) \cup {new}
  <2>1. ASSUME NEW other \in pending[c], other.id # old.id PROVE Message(other) # old
    BY <2>1 DEF Message
  <2>2. ASSUME NEW other \in pending[c], Message(other) # old PROVE other.id # old.id
    <3>1. Message(other) \in Entries(c) /\ Message(other).id = other.id
      BY DEF Entries, Message
    <3>2. QED
      BY <1>9, <2>2, <3>1, EntryFacts
  <2>3. QED
    BY <1>6, <1>8, <1>9, <2>1, <2>2 DEF Entries, Message
<1>11. /\ \A q \in Entries(c) : \E p \in Entries(c)' : p.id = q.id /\ p.rev = q.rev /\ (q # old => p = q)
       /\ \A q \in Entries(c)' : \E p \in Entries(c) : p.id = q.id /\ p.rev = q.rev
  BY <1>9, <1>10
<1>12. \A id : First(c, id)' <=> First(c, id)
  BY <1>11 DEF First
<1>13. /\ fl'[c].todo = fl[c].todo \ {row} /\ fl'[c].row = None
       /\ fl'[c].pc = "heads" /\ fl'[c].heads = fl[c].heads
  <2>1. fl[c] \in FlushState /\ fl[c].pc = "heads" /\ fl[c].row = None
    BY DEF Reconcile, TypeOK, Sending, Replies
  <2>2. fl'[c] = [fl[c] EXCEPT !.todo = @ \ {row}]
    BY <1>2 DEF TypeOK
  <2>3. QED
    BY <2>1, <2>2 DEF FlushState
<1>14. FlushHolds(c)'
  <2>1. ASSUME NEW other \in fl[c].todo \ {row}
        PROVE  Message(other) \in Entries(c)' /\ First(c, other.id)'
    <3>1. Message(other) \in Entries(c) /\ First(c, other.id) /\ Message(other).id = other.id /\ other.id # old.id
      BY <1>9 DEF FlushHolds, Message
    <3>2. QED
      BY <1>10, <1>12, <3>1
  <2>2. QED
    BY <1>13, <2>1 DEF FlushHolds, Message
<1>15. NetHolds(c)'
  <2>1. ASSUME NEW m \in net, Receipt(m) \notin receipts
        PROVE  First(c, m.id)' /\ \E q \in Entries(c)' : q.id = m.id /\ q.rev = m.rev
    <3>1. PICK q \in Entries(c) : First(c, m.id) /\ q.id = m.id /\ q.rev = m.rev
      BY <2>1 DEF NetHolds
    <3>2. PICK p \in Entries(c)' : p.id = q.id /\ p.rev = q.rev
      BY <1>11
    <3>3. QED
      BY <1>12, <3>1, <3>2
  <2>2. QED
    BY <1>1, <2>1 DEF NetHolds, Receipt, serverVars
<1>16. StoredByReceipt' /\ ReceiptsPast(c)'
  <2>1. ASSUME NEW r \in receipts, NEW q \in Entries(c)'
        PROVE  (q.id.s = r.id.s => r.id.v <= q.id.v) /\ (q.id = r.id => q.rev = r.rev)
    BY <1>11 DEF Answers, ReceiptsPast
  <2>2. QED
    BY <1>1, <2>1 DEF Answers, StoredByReceipt, ReceiptsPast, serverVars, clientVars
<1>17. Chained(c)'
  <2>1. ASSUME NEW q \in Entries(c)', ~First(c, q.id)'
        PROVE  \E p \in Entries(c)' : Before(c, p, q)' /\ q.exp = p.rev
    <3>1. q \in Entries(c)
      BY <1>9, <1>10, <1>12, <2>1
    <3>2. PICK p \in Entries(c) : Before(c, p, q) /\ q.exp = p.rev
      BY <1>12, <2>1, <3>1 DEF Answers, Chained
    <3>3. PICK b \in Entries(c)' : b.id = p.id /\ b.rev = p.rev
      BY <1>11
    <3>4. Before(c, b, q)'
      BY <1>11, <3>2, <3>3 DEF Before
    <3>5. QED
      BY <3>2, <3>3, <3>4
  <2>2. QED
    BY <2>1 DEF Chained
<1>18. ASSUME NEW s \in Session, Steady(c, s)' PROVE Undisturbed(c, s)'
  <2>1. Steady(c, s)
    <3>1. \A x \in Sent(c, s) : \E y \in Sent(c, s)' : y.id = x.id /\ y.rev = x.rev
      BY <1>1, <1>11 DEF Sent, serverVars
    <3>2. ASSUME NEW x \in Sent(c, s), NEW y \in Sent(c, s), x.id.v <= y.id.v
          PROVE  IsPrefix(x.rev, y.rev)
      <4>1. PICK u \in Sent(c, s)' : u.id = x.id /\ u.rev = x.rev
        BY <3>1
      <4>2. PICK w \in Sent(c, s)' : w.id = y.id /\ w.rev = y.rev
        BY <3>1
      <4>3. QED
        BY <1>18, <3>2, <4>1, <4>2 DEF Steady
    <3>3. QED
      BY <3>2 DEF Steady
  <2>2. Undisturbed(c, s)
    BY <2>1 DEF Answers, HeadHolds
  <2>3. \A id : Answered(id)' <=> Answered(id)
    BY <1>1 DEF Answered, serverVars
  <2>4. Led(s)'
    BY <1>1, <2>2 DEF Undisturbed, Led, serverVars
  <2>5. Fetched(c, s)'
    <3>1. fl[c].heads[s] = head[s] \/ \E q \in Entries(c) : q.id.s = s /\ Answered(q.id)
      BY <2>2 DEF Undisturbed, Fetched, Reconcile
    <3>2. QED
      BY <1>1, <1>11, <1>13, <2>3, <3>1 DEF Fetched, serverVars
  <2>6. Peaceful(c, s)'
    BY <1>5, <1>6, <1>13, <2>2 DEF Undisturbed, Peaceful
  <2>7. ASSUME s = old.id.s PROVE Answered(old.id) \/ new.exp = acked[c][s]
    <3>1. CASE \E q \in Entries(c) : q.id.s = s /\ Answered(q.id)
      BY <1>9, <2>7, <3>1, OneFirst DEF Answers
    <3>2. CASE \A q \in Entries(c) : q.id.s = s => ~Answered(q.id)
      <4>1. head[s] = acked[c][s]
        BY <2>2, <3>2 DEF Undisturbed, Expecting
      <4>2. fl[c].heads[s] = head[s]
        BY <2>2, <3>2 DEF Undisturbed, Fetched, Reconcile
      <4>3. QED
        BY <1>9, <2>7, <4>1, <4>2
    <3>3. QED
      BY <3>1, <3>2
  <2>8. Expecting(c, s)'
    <3>1. (\A q \in Entries(c)' : q.id.s = s => ~Answered(q.id)') => head'[s] = acked'[c][s]
      BY <1>1, <1>11, <2>2, <2>3 DEF Undisturbed, Expecting, serverVars
    <3>2. ASSUME NEW q \in Entries(c)', q.id.s = s, First(c, q.id)'
          PROVE  Answered(q.id)' \/ q.exp = acked'[c][s]
      <4>1. CASE q = new
        BY <1>1, <1>9, <2>3, <2>7, <3>2, <4>1
      <4>2. CASE q # new
        BY <1>1, <1>10, <1>12, <2>2, <2>3, <3>2, <4>2 DEF Undisturbed, Expecting
      <4>3. QED
        BY <4>1, <4>2
    <3>3. QED
      BY <3>1, <3>2 DEF Expecting
  <2>9. QED
    BY <2>4, <2>5, <2>6, <2>8 DEF Undisturbed
<1>19. QED
  BY <1>14, <1>15, <1>16, <1>17, <1>18 DEF Answers, HeadHolds

(* A request that is served: answered again, refused, or accepted because   *)
(* it is the first row, which expects the head while the session grows.     *)
LEMMA ServeAlone ==
    ASSUME Lone, TypeOK, TypeOK', QueueInv, NEW c \in Producer,
           FlushHolds(c), NetHolds(c), Answers(c), NEW m \in net, Serve(m)
    PROVE  FlushHolds(c)' /\ NetHolds(c)' /\ Answers(c)'
<1>1. /\ m \in Request /\ m.id.c = c /\ m.id.s \in Session /\ m.id.v \in Nat /\ m.rev \in Revision
      /\ UNCHANGED <<clientVars, pending, acked>> /\ net' = net \ {m}
  BY BoundAssumption DEF Lone, TypeOK, Request, RequestId, Serve
<1>2. Entries(c)' = Entries(c)
  BY <1>1 DEF Entries, Message
<1>3. \A id : First(c, id)' <=> First(c, id)
  BY <1>2 DEF First
<1>4. receipts \subseteq receipts'
  BY DEF Serve, Refuse, Repeat, Conflict, Commit, serverVars
<1>5. NetHolds(c)'
  BY <1>1, <1>2, <1>3, <1>4 DEF NetHolds, Receipt
<1>6. ASSUME NEW kind \in Replies, Answer(m, kind)
      PROVE  /\ fl'[c].todo = fl[c].todo /\ fl'[c].row = fl[c].row /\ fl'[c].heads = fl[c].heads
             /\ \/ fl'[c].pc = fl[c].pc
                \/ fl[c].pc = "wait" /\ Message(fl[c].row) = m /\ fl'[c].pc = kind
  <2>1. fl[c] \in FlushState
    BY DEF TypeOK
  <2>2. CASE fl[m.id.c].pc = "wait" /\ Message(fl[m.id.c].row) = m
    <3>1. fl' = [fl EXCEPT ![c].pc = kind]
      BY <1>1, <1>6, <2>2 DEF Answer
    <3>2. fl'[c] = [fl[c] EXCEPT !.pc = kind]
      BY <3>1 DEF TypeOK
    <3>3. QED
      BY <1>1, <2>1, <2>2, <3>2 DEF FlushState
  <2>3. CASE ~(fl[m.id.c].pc = "wait" /\ Message(fl[m.id.c].row) = m)
    BY <1>6, <2>3 DEF Answer
  <2>4. QED
    BY <2>2, <2>3
<1>7. ASSUME NEW kind \in Replies, Answer(m, kind), kind = "durable" => Receipt(m) \in receipts'
      PROVE  FlushHolds(c)'
  <2>1. ASSUME fl'[c].pc = "durable" PROVE Receipt(fl'[c].row) \in receipts'
    <3>1. CASE fl'[c].pc = fl[c].pc
      BY <1>4, <1>6, <1>7, <2>1, <3>1 DEF FlushHolds
    <3>2. CASE Message(fl[c].row) = m /\ fl'[c].pc = kind
      BY <1>6, <1>7, <2>1, <3>2 DEF Message, Receipt
    <3>3. QED
      BY <1>6, <1>7, <3>1, <3>2
  <2>2. QED
    BY <1>2, <1>3, <1>6, <1>7, <2>1 DEF FlushHolds, Message, Receipt
<1>8. ASSUME UNCHANGED serverVars, NEW kind \in Replies, Answer(m, kind),
             \A s \in Session : Steady(c, s) => Peaceful(c, s)'
      PROVE  Answers(c)'
  <2>1. fl'[c].pc = "heads" => fl[c].pc = "heads" /\ fl'[c].heads = fl[c].heads
    BY <1>6, <1>8 DEF Replies
  <2>2. QED
    BY <1>1, <1>2, <1>8, <2>1, QuietStep
<1>9. ASSUME NEW kind \in Replies, Answer(m, kind), kind # "conflict", NEW s \in Session, Peaceful(c, s)
      PROVE  Peaceful(c, s)'
  BY <1>1, <1>6, <1>9 DEF Peaceful
<1>10. ASSUME NEW kind \in {"durable", "rejected"}, Answer(m, kind), UNCHANGED serverVars,
              kind = "durable" => Receipt(m) \in receipts
       PROVE  FlushHolds(c)' /\ Answers(c)'
  <2>1. kind \in Replies /\ kind # "conflict"
    BY <1>10 DEF Replies
  <2>2. FlushHolds(c)'
    BY <1>7, <1>10, <2>1 DEF serverVars
  <2>3. \A s \in Session : Steady(c, s) => Peaceful(c, s)'
    BY <1>9, <1>10, <2>1 DEF Answers, HeadHolds, Undisturbed
  <2>4. QED
    BY <1>8, <1>10, <2>1, <2>2, <2>3
<1>11. CASE Refuse(m)
  BY <1>5, <1>10, <1>11 DEF Refuse
<1>12. CASE Repeat(m)
  BY <1>5, <1>10, <1>12 DEF Repeat, Receipt
<1>13. CASE Conflict(m)
  <2>1. "conflict" \in Replies /\ Answer(m, "conflict") /\ UNCHANGED serverVars
    BY <1>13 DEF Conflict, Replies
  <2>2. FlushHolds(c)'
    BY <1>7, <2>1
  <2>3. ASSUME NEW s \in Session, Steady(c, s), fl[c].pc = "wait", Message(fl[c].row) = m
        PROVE  m.id.s # s
    <3>1. SUFFICES ASSUME m.id.s = s PROVE FALSE
      OBVIOUS
    <3>2. m \in Entries(c) /\ First(c, m.id)
      BY <2>3 DEF FlushHolds, TypeOK, Sending, Message
    <3>3. ~Answered(m.id) /\ ~Fits(m)
      BY <1>13 DEF Conflict, Known, Answered
    <3>4. \A q \in Entries(c) : q.id.s = s => ~Answered(q.id)
      BY <3>1, <3>2, <3>3, OneFirst DEF Answers
    <3>5. Expecting(c, s)
      BY <2>3 DEF Answers, HeadHolds, Undisturbed
    <3>6. m.exp = acked[c][s] /\ head[s] = acked[c][s]
      BY <3>1, <3>2, <3>3, <3>4, <3>5 DEF Expecting
    <3>7. QED
      BY <3>1, <3>3, <3>6 DEF Fits
  <2>4. ASSUME NEW s \in Session, Steady(c, s) PROVE Peaceful(c, s)'
    <3>1. Peaceful(c, s)
      BY <2>4 DEF Answers, HeadHolds, Undisturbed
    <3>2. Message(fl[c].row).id = fl[c].row.id
      BY DEF Message
    <3>3. QED
      BY <1>1, <1>6, <2>1, <2>3, <2>4, <3>1, <3>2 DEF Peaceful
  <2>5. QED
    BY <1>5, <1>8, <2>1, <2>2, <2>4
<1>14. CASE Commit(m)
  <2>1. /\ "durable" \in Replies /\ Answer(m, "durable")
        /\ receipts' = receipts \cup {Receipt(m)}
        /\ revs' = [revs EXCEPT ![m.id.s] = @ \cup {m.rev}]
        /\ head' = [head EXCEPT ![m.id.s] = NewHead(m)]
        /\ ~Answered(m.id)
    BY <1>14 DEF Commit, Replies, Receipt, Known, Answered
  <2>2. Receipt(m).id = m.id /\ Receipt(m).rev = m.rev /\ Receipt(m) \notin receipts
    BY <2>1 DEF Receipt, Answered
  <2>3. PICK q \in Entries(c) : First(c, m.id) /\ q.id = m.id /\ q.rev = m.rev
    BY <2>2 DEF NetHolds
  <2>4. FlushHolds(c)'
    BY <1>7, <2>1
  <2>5. StoredByReceipt'
    <3>1. ASSUME NEW s \in Session, NEW x \in revs'[s]
          PROVE  \E r \in receipts' : r.id.s = s /\ r.rev = x
      <4>1. CASE x \in revs[s]
        BY <1>4, <4>1 DEF Answers, StoredByReceipt
      <4>2. CASE x \notin revs[s]
        <5>1. s = m.id.s /\ x = m.rev
          BY <1>1, <2>1, <3>1, <4>2 DEF TypeOK
        <5>2. QED
          BY <2>1, <2>2, <5>1
      <4>3. QED
        BY <4>1, <4>2
    <3>2. QED
      BY <3>1 DEF StoredByReceipt
  <2>6. ReceiptsPast(c)'
    <3>1. /\ m.id.v <= version[c][m.id.s]
          /\ m.id.v = version[c][m.id.s] => m.rev = file[c][m.id.s]
      <4>1. PICK row \in pending[c] : row.id = q.id /\ row.rev = q.rev
        BY EntryFacts
      <4>2. QED
        BY <2>3, <4>1 DEF QueueInv, RowContent, Held
    <3>2. ASSUME NEW p \in Entries(c)
          PROVE  (p.id.s = m.id.s => m.id.v <= p.id.v) /\ (p.id = m.id => p.rev = m.rev)
      BY <2>3, EntryFacts DEF First
    <3>3. QED
      BY <1>1, <1>2, <2>1, <2>2, <3>1, <3>2 DEF Answers, ReceiptsPast, clientVars
  <2>7. Chained(c)'
    BY <1>2, <1>3 DEF Answers, Chained, Before
  <2>8. ASSUME NEW s \in Session, Steady(c, s)' PROVE Undisturbed(c, s)'
    <3>1. Steady(c, s)
      BY <1>2, <1>4, <2>8 DEF Steady, Sent
    <3>2. Undisturbed(c, s)
      BY <3>1 DEF Answers, HeadHolds
    <3>3. Peaceful(c, s)'
      BY <1>9, <2>1, <3>2 DEF Undisturbed
    <3>4. \A id : Answered(id) => Answered(id)'
      BY <1>4 DEF Answered
    <3>5. fl'[c].pc = "heads" => fl[c].pc = "heads" /\ fl'[c].heads = fl[c].heads
      BY <1>6, <2>1
    <3>6. ASSUME s # m.id.s PROVE Led(s)' /\ Expecting(c, s)' /\ Fetched(c, s)'
      <4>1. head'[s] = head[s]
        BY <2>1, <3>6 DEF TypeOK
      <4>2. \A r \in receipts' : r.id.s = s => r \in receipts
        BY <2>1, <2>2, <3>6
      <4>3. \A id : id.s = s => (Answered(id)' <=> Answered(id))
        BY <1>4, <4>2 DEF Answered
      <4>4. Led(s)'
        BY <1>4, <3>2, <4>1, <4>2 DEF Undisturbed, Led
      <4>5. Expecting(c, s)'
        BY <1>1, <1>2, <1>3, <3>2, <4>1, <4>3 DEF Undisturbed, Expecting
      <4>6. Fetched(c, s)'
        BY <1>2, <3>2, <3>4, <3>5, <4>1 DEF Undisturbed, Fetched
      <4>7. QED
        BY <4>4, <4>5, <4>6
    <3>7. ASSUME s = m.id.s PROVE Led(s)' /\ Expecting(c, s)' /\ Fetched(c, s)'
      <4>1. Answered(q.id)' /\ q.id.s = s /\ First(c, q.id) /\ q \in Entries(c)'
        BY <1>2, <2>1, <2>2, <2>3, <3>7 DEF Answered
      <4>2. Fetched(c, s)'
        BY <4>1 DEF Fetched
      <4>3. \A p \in Entries(c) : p.id.s = s /\ First(c, p.id) => p = q
        BY <4>1, OneFirst
      <4>4. Expecting(c, s)'
        BY <1>2, <1>3, <4>1, <4>3 DEF Expecting
      <4>5. head'[s] = IF m.rev \in revs[s] THEN head[s] ELSE m.rev
        BY <2>1, <3>7 DEF TypeOK, NewHead
      <4>6. CASE m.rev \in revs[s]
        <5>1. PICK r \in receipts : r.id.s = s /\ r.rev = m.rev
          BY <4>6 DEF Answers, StoredByReceipt
        <5>2. IsPrefix(m.rev, head[s]) /\ \E x \in receipts : x.id.s = s /\ x.rev = head[s]
          BY <3>2, <5>1 DEF Undisturbed, Led
        <5>3. Led(s)'
          BY <2>1, <2>2, <3>2, <4>5, <4>6, <5>2 DEF Undisturbed, Led
        <5>4. QED
          BY <4>2, <4>4, <5>3
      <4>7. CASE m.rev \notin revs[s]
        <5>1. ASSUME NEW r \in receipts, r.id.s = s PROVE IsPrefix(r.rev, m.rev)
          <6>1. r.id.v <= q.id.v
            BY <4>1, <5>1 DEF Answers, ReceiptsPast
          <6>2. QED
            BY <2>3, <3>1, <4>1, <5>1, <6>1 DEF Steady, Sent
        <5>2. IsPrefix(m.rev, m.rev)
          BY <1>1, PrefixOrder
        <5>3. Led(s)'
          BY <2>1, <2>2, <3>7, <4>5, <4>7, <5>1, <5>2 DEF Led
        <5>4. QED
          BY <4>2, <4>4, <5>3
      <4>8. QED
        BY <4>6, <4>7
    <3>8. QED
      BY <3>3, <3>6, <3>7 DEF Undisturbed
  <2>9. QED
    BY <1>5, <2>4, <2>5, <2>6, <2>7, <2>8 DEF Answers, HeadHolds
<1>15. QED
  BY <1>11, <1>12, <1>13, <1>14 DEF Serve

LEMMA AloneStep ==
    ASSUME Lone, TypeOK, TypeOK', QueueInv, Alone, [Next]_vars
    PROVE  Alone'
<1> SUFFICES ASSUME NEW c \in Producer PROVE FlushHolds(c)' /\ NetHolds(c)' /\ Answers(c)'
  BY DEF Alone
<1>1. FlushHolds(c) /\ NetHolds(c) /\ Answers(c)
  BY DEF Alone
<1>2. ASSUME NEW d \in Producer,
             \/ Flush(d) \/ FlushFail(d) \/ Die(d) \/ FetchHeads(d) \/ Reconcile(d)
             \/ \E s \in Session : Due(d, s)
      PROVE  FlushHolds(c)' /\ NetHolds(c)' /\ Answers(c)'
  <2>1. d = c
    BY DEF Lone
  <2>2. QED
    BY <1>1, <1>2, <2>1, FlushQuiet, AckAlone, ReconcileAlone DEF Flush
<1>3. ASSUME NEW d \in Producer, NEW s \in Session,
             ChangeFile(d, s) \/ \E force \in BOOLEAN : Capture(d, s, force)
      PROVE  FlushHolds(c)' /\ NetHolds(c)' /\ Answers(c)'
  <2>1. d = c
    BY DEF Lone
  <2>2. QED
    BY <1>1, <1>3, <2>1, ChangeAlone, CaptureAlone
<1>4. ASSUME NEW m \in net, Serve(m) PROVE FlushHolds(c)' /\ NetHolds(c)' /\ Answers(c)'
  BY <1>1, <1>4, ServeAlone
<1>5. CASE UNCHANGED vars
  <2>1. Entries(c)' = Entries(c) /\ UNCHANGED <<clientVars, acked, serverVars, fl, pending, net>>
    BY <1>5 DEF vars, clientVars, serverVars, Entries, Message
  <2>2. \A s \in Session : Steady(c, s) => Peaceful(c, s)'
    BY <1>1, <2>1 DEF Answers, HeadHolds, Undisturbed, Peaceful
  <2>3. Answers(c)'
    BY <1>1, <2>1, <2>2, QuietStep
  <2>4. FlushHolds(c)' /\ NetHolds(c)'
    BY <1>1, <2>1 DEF FlushHolds, NetHolds, First, Message, Receipt, serverVars
  <2>5. QED
    BY <2>3, <2>4
<1>6. QED
  BY <1>2, <1>3, <1>4, <1>5 DEF Next

LEMMA AloneImplies == ASSUME Lone, TypeOK, Alone PROVE NoSelfConflict
<1> SUFFICES ASSUME NEW c \in Producer, NEW row \in pending[c], row.state = "conflict"
             PROVE  \E x, y \in Went(c, row.id.s) : x.v <= y.v /\ ~IsPrefix(x.rev, y.rev)
  BY DEF NoSelfConflict
<1> DEFINE s == row.id.s
<1>1. s \in Session
  BY DEF TypeOK, Row, RequestId
<1>2. ~Steady(c, s)
  BY <1>1 DEF Alone, Answers, HeadHolds, Undisturbed, Peaceful
<1>3. PICK x, y \in Sent(c, s) : x.id.v <= y.id.v /\ ~IsPrefix(x.rev, y.rev)
  BY <1>2 DEF Steady
<1>4. ASSUME NEW z \in Sent(c, s) PROVE [v |-> z.id.v, rev |-> z.rev] \in Went(c, s)
  <2>1. CASE z \in receipts
    BY <1>4, <2>1, ReceiptFacts DEF Sent, Went, Lone
  <2>2. CASE z \in Entries(c)
    <3>1. PICK other \in pending[c] : other.id = z.id /\ other.rev = z.rev
      BY <2>2, EntryFacts
    <3>2. other \in Rows(c, s)
      BY <1>4, <3>1 DEF Sent, Rows
    <3>3. QED
      BY <3>1, <3>2 DEF Went
  <2>3. QED
    BY <1>4, <2>1, <2>2 DEF Sent
<1> HIDE DEF s
<1> DEFINE u == [v |-> x.id.v, rev |-> x.rev]
           w == [v |-> y.id.v, rev |-> y.rev]
<1>5. u \in Went(c, s) /\ w \in Went(c, s) /\ u.v <= w.v /\ ~IsPrefix(u.rev, w.rev)
  BY <1>3, <1>4
<1>6. QED
  BY <1>5 DEF s

(* A device that is alone never conflicts with itself while its files grow, *)
(* for any sessions, versions and requests: a row that met a conflict       *)
(* belongs to a session some of whose revisions went back (queue.py ingest, *)
(* which fixes the expected head at capture, and flush).                    *)
THEOREM NeverAgainstItself == ASSUME \A c, d \in Producer : c = d PROVE Spec => []NoSelfConflict
<1>1. Lone
  BY DEF Lone
<1>2. IInv /\ IInv' /\ Alone /\ [Next]_vars => Alone'
  BY <1>1, AloneStep DEF IInv
<1>3. IInv /\ Alone => NoSelfConflict
  BY <1>1, AloneImplies DEF IInv
<1>4. QED
  BY <1>2, <1>3, InitAlone, Invariance, PTL DEF Spec
=============================================================================
