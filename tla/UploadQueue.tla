----------------------------- MODULE UploadQueue -----------------------------
(* From a native session file to an acknowledged revision: capture into the *)
(* client's durable queue (capture/local.py, capture/queue.py), the flush   *)
(* that sends one revision per session, the compare-and-write of the        *)
(* primary (interfaces/server.py ingest, storage/catalog.py ingest), and    *)
(* the reconciliation of conflicting rows.                                  *)
(*                                                                          *)
(* A session's content is the sequence of the devices that appended a       *)
(* record; the revision is the content itself (a digest). The fingerprint   *)
(* of a file (inode, size, mtime) is a version number; raw archival is on.  *)
(* A row's position (seq) is left out: the rows of one session are queued   *)
(* in the order of their versions, and the order of sessions is arbitrary.  *)
(* Requests may be answered late, after the client gave up, or never.       *)
EXTENDS Naturals, Sequences, FiniteSets, SequencesExt

CONSTANTS
    Producer,     \* devices, each with its upload queue
    Session,
    None,
    Refused,      \* sessions whose payload the server refuses (413)
    MaxRecords,   \* bound on the records of a session
    MaxVersions,  \* bound on the changes of one file
    Brief,        \* bound: the sessions whose files change only once
    MaxRequests,  \* bound on the requests on the way at a time
    Reverts       \* whether a file may lose records again

ASSUME BoundAssumption ==
    /\ MaxRecords \in Nat /\ MaxVersions \in Nat /\ MaxRequests \in Nat
    /\ Refused \subseteq Session /\ Brief \subseteq Session /\ Reverts \in BOOLEAN

VARIABLES
    file,      \* [Producer -> [Session -> content of the native file]]
    version,   \* [Producer -> [Session -> its fingerprint]]
    captured,  \* [Producer -> [Session -> fingerprint in table captured]]
    pending,   \* [Producer -> the rows of table pending]
    acked,     \* [Producer -> [Session -> revision in table acknowledged]]
    fl,        \* [Producer -> the flush in progress]
    net,       \* requests on the way
    head, revs, receipts      \* the primary's tables

clientVars == <<file, version, captured>>
serverVars == <<head, revs, receipts>>
vars == <<file, version, captured, pending, acked, fl, net, head, revs, receipts>>

Revision == SeqOf(Producer, MaxRecords)

(* request_id is a digest of producer, path and fingerprint. *)
RequestId == [c : Producer, s : Session, v : 0..MaxVersions]

Row == [id : RequestId, rev : Revision, exp : Revision \cup {None},
        state : {"pending", "conflict", "rejected"}, late : BOOLEAN]

ASSUME NoneAssumption == None \notin Row

Request == [id : RequestId, rev : Revision, exp : Revision \cup {None}]

Replies == {"durable", "conflict", "rejected"}

NoHeads == [s \in Session |-> None]

(* A flush: the rows it still has to send (or to reconcile), the one it     *)
(* sends, and the heads it fetched for reconciliation.                      *)
FlushState ==
    [pc : {"idle", "heads", "next", "wait"} \cup Replies, todo : SUBSET Row,
     row : Row \cup {None}, heads : [Session -> Revision \cup {None}]]

IdleFlush == [pc |-> "idle", todo |-> {}, row |-> None, heads |-> NoHeads]

Sending == {"wait"} \cup Replies

(* Every row of a queue belongs to its producer, and request_id is unique.  *)
TypeOK ==
    /\ file \in [Producer -> [Session -> Revision]]
    /\ version \in [Producer -> [Session -> 0..MaxVersions]]
    /\ captured \in [Producer -> [Session -> 0..MaxVersions]]
    /\ acked \in [Producer -> [Session -> Revision \cup {None}]]
    /\ pending \in [Producer -> SUBSET Row]
    /\ fl \in [Producer -> FlushState]
    /\ net \subseteq Request
    /\ head \in [Session -> Revision \cup {None}]
    /\ revs \in [Session -> SUBSET Revision]
    /\ receipts \subseteq [id : RequestId, rev : Revision]
    /\ \A c \in Producer :
         /\ \A row \in pending[c] : row.id.c = c
         /\ \A row1, row2 \in pending[c] : row1.id = row2.id => row1 = row2
         /\ fl[c].row # None <=> fl[c].pc \in Sending
         /\ fl[c].todo # {} => fl[c].pc # "idle"

Init ==
    /\ file = [c \in Producer |-> [s \in Session |-> <<>>]]
    /\ version = [c \in Producer |-> [s \in Session |-> 0]]
    /\ captured = [c \in Producer |-> [s \in Session |-> 0]]
    /\ pending = [c \in Producer |-> {}]
    /\ acked = [c \in Producer |-> [s \in Session |-> None]]
    /\ fl = [c \in Producer |-> IdleFlush]
    /\ net = {}
    /\ head = [s \in Session |-> None]
    /\ revs = [s \in Session |-> {}]
    /\ receipts = {}

-----------------------------------------------------------------------------
(* The outside world: a device appends a record, touches the file, takes    *)
(* over a longer copy from another device, or (Reverts) loses records.      *)
ChangeFile(c, s) ==
    /\ version[c][s] < MaxVersions
    /\ s \in Brief => version[c][s] = 0
    /\ \E new \in Revision \ {<<>>} :
         /\ \/ new = Append(file[c][s], c)
            \/ new = file[c][s]
            \/ \E d \in Producer : new = file[d][s] /\ IsPrefix(file[c][s], new)
            \/ Reverts /\ IsPrefix(new, file[c][s])
         /\ file' = [file EXCEPT ![c][s] = new]
    /\ version' = [version EXCEPT ![c][s] = @ + 1]
    /\ UNCHANGED <<captured, pending, acked, fl, net, serverVars>>

Rows(c, s) == {row \in pending[c] : row.id.s = s}

(* Mutant: rows still queued are not considered. *)
ExpectedAcked(c, s) == acked[c][s]

(* UploadQueue.ingest: the revision the server is expected to hold is the   *)
(* one queued last for the session, else the one acknowledged last.         *)
Expected(c, s) ==
    IF Rows(c, s) = {} THEN acked[c][s]
    ELSE (CHOOSE row \in Rows(c, s) : \A other \in Rows(c, s) : other.id.v <= row.id.v).rev

NewRow(c, s) ==
    [id |-> [c |-> c, s |-> s, v |-> version[c][s]], rev |-> file[c][s],
     exp |-> Expected(c, s), state |-> "pending", late |-> FALSE]

(* capture_file: a changed file (any file, when forced) becomes a row and   *)
(* its fingerprint is recorded in the same transaction. A request_id that   *)
(* is still queued is not queued again.                                     *)
Capture(c, s, force) ==
    /\ file[c][s] # <<>>
    /\ force \/ captured[c][s] # version[c][s]
    /\ pending' = IF \E row \in pending[c] : row.id = NewRow(c, s).id
                    THEN pending
                    ELSE [pending EXCEPT ![c] = @ \cup {NewRow(c, s)}]
    /\ captured' = [captured EXCEPT ![c][s] = version[c][s]]
    /\ UNCHANGED <<file, version, acked, fl, net, serverVars>>

-----------------------------------------------------------------------------
(* The flush, under .flush.lock. *)

(* Mutant: a row waits for the older rows of every session. *)
OldestOfAll(c, row) == \A other \in pending[c] : row.id.v <= other.id.v

Oldest(c, row) == \A other \in Rows(c, row.id.s) : row.id.v <= other.id.v

(* The rows of a pass: the oldest one of each session, if it is due.        *)
Batch(c) ==
    {row \in pending[c] : row.state = "pending" /\ ~row.late /\ Oldest(c, row)}

(* The flush that has these rows left to send; the pass ends with the last. *)
Rest(rows) ==
    IF rows = {} THEN IdleFlush ELSE [IdleFlush EXCEPT !.pc = "next", !.todo = rows]

(* The pass starts on its own or after a reconciliation. *)
FlushStart(c) ==
    /\ \/ fl[c].pc = "heads"
       \/ fl[c].pc = "idle" /\ Batch(c) # {}
    /\ fl' = [fl EXCEPT ![c] = Rest(Batch(c))]
    /\ UNCHANGED <<clientVars, pending, acked, net, serverVars>>

Message(row) == [id |-> row.id, rev |-> row.rev, exp |-> row.exp]

FlushSend(c) ==
    /\ fl[c].pc = "next"
    /\ Cardinality(net) < MaxRequests
    /\ \E row \in fl[c].todo :
         /\ net' = net \cup {Message(row)}
         /\ fl' = [fl EXCEPT ![c] =
                     [fl[c] EXCEPT !.pc = "wait", !.row = row, !.todo = @ \ {row}]]
    /\ UNCHANGED <<clientVars, pending, acked, serverVars>>

Done(c) == fl' = [fl EXCEPT ![c] = Rest(@.todo)]

(* Mutant: every row of the session is deleted. *)
WithoutSession(c) == {row \in pending[c] : row.id.s # fl[c].row.id.s}

Without(c) == {row \in pending[c] : row.id # fl[c].row.id}

(* A durable receipt: acknowledge and delete the row in one transaction. *)
FlushAck(c) ==
    /\ fl[c].pc = "durable"
    /\ acked' = [acked EXCEPT ![c][fl[c].row.id.s] = fl[c].row.rev]
    /\ pending' = [pending EXCEPT ![c] = Without(c)]
    /\ Done(c)
    /\ UNCHANGED <<clientVars, net, serverVars>>

Mark(c, state) ==
    pending' = [pending EXCEPT ![c] =
       Without(c) \cup {[fl[c].row EXCEPT !.state = state, !.late = TRUE]}]

(* 409 and 400/413/422 stop the session; the pass goes on with the others.  *)
FlushStopped(c) ==
    /\ fl[c].pc \in {"conflict", "rejected"}
    /\ Mark(c, fl[c].pc)
    /\ Done(c)
    /\ UNCHANGED <<clientVars, acked, net, serverVars>>

(* An outage (no answer, 5xx, 401, 403, 429): back off and end the pass.    *)
FlushFail(c) ==
    /\ fl[c].pc \in Sending
    /\ Mark(c, "pending")
    /\ fl' = [fl EXCEPT ![c] = IdleFlush]
    /\ UNCHANGED <<clientVars, acked, net, serverVars>>

(* next_attempt passes for a row of the session (only its oldest one waits). *)
Due(c, s) ==
    /\ \E row \in Rows(c, s) :
         /\ row.state = "pending" /\ row.late
         /\ pending' = [pending EXCEPT ![c] = (@ \ {row}) \cup {[row EXCEPT !.late = FALSE]}]
    /\ UNCHANGED <<clientVars, acked, fl, net, serverVars>>

(* The client process dies, or an error other than a server's answer ends   *)
(* the flush; the queue is on disk.                                         *)
Die(c) ==
    /\ fl[c].pc # "idle"
    /\ fl' = [fl EXCEPT ![c] = IdleFlush]
    /\ UNCHANGED <<clientVars, pending, acked, net, serverVars>>

(* flush --reconcile-raw-prefixes, before the pass: select the oldest rows  *)
(* that no refusal stopped, and fetch the heads of the primary ...          *)
FetchHeads(c) ==
    LET rows == {row \in pending[c] : row.state # "rejected" /\ Oldest(c, row)} IN
    /\ fl[c].pc = "idle"
    /\ rows # {}
    /\ fl' = [fl EXCEPT ![c] = [IdleFlush EXCEPT !.pc = "heads", !.todo = rows, !.heads = head]]
    /\ UNCHANGED <<clientVars, pending, acked, net, serverVars>>

(* ... then a row whose session the primary did not know expects no head,   *)
(* and one whose staged raw file extends the raw file of the head expects   *)
(* that head. Staging that cannot be read leaves the row alone.             *)
Reconcile(c) ==
    /\ fl[c].pc = "heads"
    /\ \E row \in fl[c].todo :
         LET h == fl[c].heads[row.id.s] IN
         /\ h # None => IsPrefix(h, row.rev)
         /\ pending' = [pending EXCEPT ![c] =
              {other \in @ : other.id # row.id} \cup
              {[row EXCEPT !.exp = h, !.state = "pending", !.late = FALSE]}]
         /\ fl' = [fl EXCEPT ![c].todo = @ \ {row}]
    /\ UNCHANGED <<clientVars, acked, net, serverVars>>

-----------------------------------------------------------------------------
(* The primary. A known request_id is answered again; otherwise the head    *)
(* must be the expected revision or already the uploaded one.               *)
Known(m) == \E r \in receipts : r.id = m.id

(* Mutant: any revision of the past may be expected. *)
FitsHistory(m) == m.exp \in revs[m.id.s] \cup {None}

Fits(m) == head[m.id.s] \in {m.exp, m.rev}

(* Mutant: the client takes every answer for a receipt. *)
AnswerDurable(m, kind) ==
    fl' = IF fl[m.id.c].pc = "wait" /\ Message(fl[m.id.c].row) = m
            THEN [fl EXCEPT ![m.id.c].pc = "durable"] ELSE fl

(* The reply reaches the flush that still waits for this very request.      *)
Answer(m, kind) ==
    fl' = IF fl[m.id.c].pc = "wait" /\ Message(fl[m.id.c].row) = m
            THEN [fl EXCEPT ![m.id.c].pc = kind] ELSE fl

Refuse(m) ==
    /\ m.id.s \in Refused
    /\ Answer(m, "rejected")
    /\ UNCHANGED serverVars

(* An idempotency key reused for other content is a 400. *)
Repeat(m) ==
    /\ m.id.s \notin Refused
    /\ Known(m)
    /\ Answer(m, IF [id |-> m.id, rev |-> m.rev] \in receipts THEN "durable" ELSE "rejected")
    /\ UNCHANGED serverVars

Conflict(m) ==
    /\ m.id.s \notin Refused
    /\ ~Known(m) /\ ~Fits(m)
    /\ Answer(m, "conflict")
    /\ UNCHANGED serverVars

(* Mutant: the uploaded revision always becomes the head. *)
NewHeadAlways(m) == m.rev

(* Only a revision that was not stored yet becomes the head. *)
NewHead(m) == IF m.rev \in revs[m.id.s] THEN head[m.id.s] ELSE m.rev

Commit(m) ==
    /\ m.id.s \notin Refused
    /\ ~Known(m) /\ Fits(m)
    /\ receipts' = receipts \cup {[id |-> m.id, rev |-> m.rev]}
    /\ revs' = [revs EXCEPT ![m.id.s] = @ \cup {m.rev}]
    /\ head' = [head EXCEPT ![m.id.s] = NewHead(m)]
    /\ Answer(m, "durable")

Serve(m) ==
    /\ net' = net \ {m}
    /\ Refuse(m) \/ Repeat(m) \/ Conflict(m) \/ Commit(m)
    /\ UNCHANGED <<clientVars, pending, acked>>

Flush(c) ==
    FlushStart(c) \/ FlushSend(c) \/ FlushAck(c) \/ FlushStopped(c)

Next ==
    \/ \E c \in Producer :
         \/ Flush(c) \/ FlushFail(c) \/ Die(c) \/ FetchHeads(c) \/ Reconcile(c)
         \/ \E s \in Session :
              ChangeFile(c, s) \/ Due(c, s) \/ \E force \in BOOLEAN : Capture(c, s, force)
    \/ \E m \in net : Serve(m)

Spec == Init /\ [][Next]_vars

(* A timer flushes again and again, a delayed row becomes due, and the      *)
(* primary answers what reaches it.                                         *)
Fairness ==
    \A c \in Producer :
       /\ WF_vars(Flush(c))
       /\ WF_vars(\E m \in net : m.id.c = c /\ Serve(m))
       /\ \A s \in Session : WF_vars(Due(c, s))

FairSpec == Spec /\ Fairness

-----------------------------------------------------------------------------
(* What a client takes for acknowledged is stored, the store only grows and *)
(* a head never rewinds, whatever is resent, answered late or reconciled,   *)
(* also when files go back to content they had before.                      *)
History == INSTANCE RevisionHistory
ImplementsHistory == History!Spec

(* Captured content is never lost: while a file is unchanged since its      *)
(* capture (so that no capture will ever look at it again), its content is  *)
(* queued or stored by the primary.                                         *)
CapturedIsKept ==
    \A c \in Producer, s \in Session :
       (captured[c][s] = version[c][s] /\ version[c][s] > 0) =>
          \/ file[c][s] \in revs[s]
          \/ \E row \in Rows(c, s) : row.rev = file[c][s]

(* No lost update: when files only grow, a head is replaced only by content *)
(* that extends it, so a device never overwrites records of another one,    *)
(* whatever both of them queued meanwhile.                                  *)
HeadOnlyGrows ==
    [][\A s \in Session :
         head[s] # None => IsPrefix(head[s], head'[s])]_vars

(* A device that is alone with its files never conflicts with itself while  *)
(* they grow: the heads its queued rows expect follow the order of          *)
(* delivery. Only a session some of whose revisions went back may conflict. *)
Went(c, s) ==
    {[v |-> x.id.v, rev |-> x.rev] : x \in {r \in receipts : r.id.c = c /\ r.id.s = s} \cup Rows(c, s)}

NoSelfConflict ==
    \A c \in Producer : \A row \in pending[c] :
       row.state = "conflict" =>
          \E x, y \in Went(c, row.id.s) : x.v <= y.v /\ ~IsPrefix(x.rev, y.rev)

Queued(id) == \E row \in pending[id.c] : row.id = id

Stopped(id) ==
    \E row \in Rows(id.c, id.s) : Oldest(id.c, row) /\ row.state # "pending"

Outage == \E c \in Producer : FlushFail(c) \/ Die(c)

(* Once outages and deaths of the client end, every queued row is delivered *)
(* or its session is stopped by a refusal or a conflict: a stopped session  *)
(* does not hold up another one.                                            *)
QueueDrains ==
    <>[][~Outage]_vars =>
       \A id \in RequestId : Queued(id) ~> (~Queued(id) \/ Stopped(id))
=============================================================================
