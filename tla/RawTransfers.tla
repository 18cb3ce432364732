---------------------------- MODULE RawTransfers ----------------------------
(* Resumable upload of one object by several producers: the client's loop   *)
(* (interfaces/client.py upload_raw_store), the status and append handlers  *)
(* (storage/transfers.py) that run it in parallel threads, the publication  *)
(* of the object, and expiry. Content is counted in units, and unit i of    *)
(* the object is the number i, so a byte written twice or at the wrong      *)
(* place shows. The per-partial lock is a mutex (module TransferLock).      *)
(*                                                                          *)
(* A crash stops the handlers; a power loss also takes back what was not    *)
(* fsynced: appended units, links and unlinks. File systems that expose     *)
(* unwritten blocks after a power loss are outside the model.               *)
EXTENDS Integers, Sequences, FiniteSets, FiniteSetsExt, SequencesExt

CONSTANTS
    Producer,    \* devices that upload the same object
    Rotten,      \* the devices whose staged copy has decayed
    Thread,      \* server threads
    None,        \* nobody; no staging budget
    Total,       \* units in the object
    MaxChunk,    \* units per append
    Files,       \* files a published object consists of: 1, or chunks + recipe
    Budget,      \* staging budget in units, or None
    MaxCrashes,  \* bound on crashes, power losses and expiries together
    MaxLosses    \* bound on client timeouts, or None

ASSUME SizeAssumption ==
    /\ Total \in Nat \ {0} /\ MaxChunk \in 1..Total /\ Files \in Nat \ {0}
    /\ Budget \in Nat \cup {None}
    /\ Rotten \subseteq Producer

ASSUME DeviceAssumption == IsFiniteSet(Producer) /\ None \notin Producer \cup Thread

VARIABLES
    part,     \* [Producer -> content of its partial], <<>> for no partial
    disk,     \* [Producer -> content a power loss leaves for sure]
    file,     \* [1..Files -> "absent" | "linked" | "durable"]
    lock,     \* [Producer -> thread inside the partial's section]
    th,       \* [Thread -> the request it handles]
    cl,       \* [Producer -> the client's attempt]
    told,     \* [Producer -> the offset the last append reply promised]
    faults, losses

vars == <<part, disk, file, lock, th, cl, told, faults, losses>>

Source == [i \in 1..Total |-> i]

(* What a client sends; 0 is a wrong unit, found by the checksum only. *)
Copy(pr) == IF pr \in Rotten THEN [Source EXCEPT ![Total] = 0] ELSE Source

(* The object counts as published once its last file has a name: the file   *)
(* itself, or the recipe. verify() needs every file.                        *)
Completed == file[Files] # "absent"

Verified == \A i \in 1..Files : file[i] # "absent"

ReplyPCs == {"pending", "complete", "retry", "reject"}
LockedPCs == {"locked", "admitted", "written", "publish", "sync", "drop", "dropped"}
HandlerPCs == {"idle", "append", "status", "look", "found"} \cup LockedPCs \cup ReplyPCs

IdleThread == [pc |-> "idle", pr |-> None, off |-> 0, n |-> 0, at |-> 0]
IdleClient == [pc |-> "idle", off |-> 0, n |-> 0, t |-> None]

TypeOK ==
    /\ part \in [Producer -> SeqOf(0..Total, Total)]
    /\ disk \in [Producer -> SeqOf(0..Total, Total)]
    /\ file \in [1..Files -> {"absent", "linked", "durable"}]
    /\ lock \in [Producer -> Thread \cup {None}]
    /\ th \in [Thread -> [pc : HandlerPCs, pr : Producer \cup {None}, off : 0..Total,
                          n : 0..MaxChunk, at : 0..Files]]
    /\ cl \in [Producer -> [pc : {"idle", "wait", "ready", "done", "rejected"},
                            off : 0..Total, n : 0..MaxChunk, t : Thread \cup {None}]]
    /\ told \in [Producer -> 0..Total]
    /\ \A t \in Thread : th[t].pc \in LockedPCs <=> \E pr \in Producer : lock[pr] = t

Init ==
    /\ part = [pr \in Producer |-> <<>>]
    /\ disk = [pr \in Producer |-> <<>>]
    /\ file = [i \in 1..Files |-> "absent"]
    /\ lock = [pr \in Producer |-> None]
    /\ th = [t \in Thread |-> IdleThread]
    /\ cl = [pr \in Producer |-> IdleClient]
    /\ told = [pr \in Producer |-> 0]
    /\ faults = 0 /\ losses = 0

-----------------------------------------------------------------------------
(* The client. *)
Request(pr, call, off, n) ==
    \E t \in Thread :
       /\ th[t].pc = "idle"
       /\ th' = [th EXCEPT ![t] = [IdleThread EXCEPT !.pc = call, !.pr = pr, !.off = off, !.n = n]]
       /\ cl' = [cl EXCEPT ![pr] = [pc |-> "wait", off |-> off, n |-> n, t |-> t]]
       /\ UNCHANGED <<part, disk, file, lock, told, faults, losses>>

(* Every attempt starts from the server's durable progress. *)
AskStatus(pr) == cl[pr].pc = "idle" /\ Request(pr, "status", 0, 0)

(* The next piece, as long as the block read from the store allows; at the  *)
(* end an empty append asks for completion.                                 *)
SendChunk(pr) ==
    LET left == Total - cl[pr].off IN
    /\ cl[pr].pc = "ready"
    /\ \E n \in IF left = 0 THEN {0} ELSE 1..Min({MaxChunk, left}) :
         Request(pr, "append", cl[pr].off, n)

(* The reply decides the attempt: only an exact offset is accepted, 400     *)
(* rejects the queued row for good, everything else is tried again later.   *)
Receive(pr) ==
    LET t == cl[pr].t
        expected == cl[pr].off + cl[pr].n
        isStatus == cl[pr].n = 0 /\ cl[pr].off < Total
    IN
    /\ cl[pr].pc = "wait"
    /\ th[t].pc \in ReplyPCs
    /\ cl' = [cl EXCEPT ![pr] =
         CASE th[t].pc = "reject" -> [IdleClient EXCEPT !.pc = "rejected"]
           [] th[t].pc = "complete" /\ (isStatus \/ expected = Total) ->
                [IdleClient EXCEPT !.pc = "done"]
           [] th[t].pc = "pending" /\ (isStatus \/ th[t].off = expected) ->
                [IdleClient EXCEPT !.pc = "ready", !.off = th[t].off]
           [] OTHER -> IdleClient]
    /\ th' = [th EXCEPT ![t] = IdleThread]
    /\ UNCHANGED <<part, disk, file, lock, told, faults, losses>>

(* Timeout or broken connection: the handler goes on without its client.    *)
Lose(pr) ==
    /\ cl[pr].pc = "wait"
    /\ losses' = IF MaxLosses = None THEN losses ELSE losses + 1
    /\ MaxLosses # None => losses < MaxLosses
    /\ cl' = [cl EXCEPT ![pr] = IdleClient]
    /\ UNCHANGED <<part, disk, file, lock, th, told, faults>>

(* The reply of an abandoned request goes nowhere. *)
Discard(t) ==
    /\ th[t].pc \in ReplyPCs
    /\ \A pr \in Producer : cl[pr].t # t
    /\ th' = [th EXCEPT ![t] = IdleThread]
    /\ UNCHANGED <<part, disk, file, lock, cl, told, faults, losses>>

-----------------------------------------------------------------------------
(* The handlers. A reply leaves the section. *)
Goto(t, label) == th' = [th EXCEPT ![t].pc = label]

Reply(t, kind, off) ==
    th' = [th EXCEPT ![t] = [IdleThread EXCEPT !.pc = kind, !.pr = th[t].pr, !.off = off]]

(* Mutant: a reply keeps the lock. *)
LeaveNot(t) == UNCHANGED lock

Leave(t) == lock' = [pr \in Producer |-> IF lock[pr] = t THEN None ELSE lock[pr]]

(* Mutant: the fsync is skipped. *)
SyncFileNot(i) == UNCHANGED file

(* fsync of a published file, and of a partial and the staging directory.   *)
(* A file that is synced is taken to keep its name through a loss of power. *)
(* The code syncs the directory of a file it links, and _sync_completed     *)
(* that of an object it finds; but not the bucket of a chunk that another   *)
(* producer linked (chunks.py 24-30, 47-72), and the parent of a new        *)
(* objects/raw nowhere (transfers.py 187-193).                              *)
SyncFile(i) == file' = [file EXCEPT ![i] = "durable"]

SyncPartial(pr) == disk' = [disk EXCEPT ![pr] = part[pr]]

(* status() looks for the object before it takes any lock. *)
StatusLook(t) ==
    /\ th[t].pc = "status"
    /\ CASE ~Completed -> Goto(t, "look")
         [] Completed /\ Verified -> Goto(t, "found")
         [] OTHER -> Reply(t, "reject", 0)
    /\ UNCHANGED <<part, disk, file, lock, cl, told, faults, losses>>

(* No object was seen: report the size of the partial once nobody appends.  *)
StatusPending(t) ==
    /\ th[t].pc = "look"
    /\ lock[th[t].pr] = None
    /\ Reply(t, "pending", Len(part[th[t].pr]))
    /\ UNCHANGED <<part, disk, file, lock, cl, told, faults, losses>>

(* Mutant: a reader reports an object it merely saw. *)
StatusCompleteUnsynced(t) ==
    /\ th[t].pc = "found"
    /\ Reply(t, "complete", Total)
    /\ UNCHANGED <<part, disk, file, lock, cl, told, faults, losses>>

(* The object was seen: fsync its last file, then reclaim the producer's    *)
(* own duplicate unless its lock is busy.                                   *)
StatusComplete(t) ==
    LET pr == th[t].pr IN
    /\ th[t].pc = "found"
    /\ SyncFile(Files)
    /\ IF part[pr] # <<>> /\ lock[pr] = None
         THEN lock' = [lock EXCEPT ![pr] = t] /\ Goto(t, "drop")
         ELSE UNCHANGED lock /\ Reply(t, "complete", Total)
    /\ UNCHANGED <<part, disk, cl, told, faults, losses>>

AppendLock(t) ==
    /\ th[t].pc = "append"
    /\ lock[th[t].pr] = None
    /\ lock' = [lock EXCEPT ![th[t].pr] = t]
    /\ Goto(t, "locked")
    /\ UNCHANGED <<part, disk, file, cl, told, faults, losses>>

(* The object exists already: make it durable and drop the partial. *)
AppendCompleted(t) ==
    /\ th[t].pc = "locked"
    /\ Completed
    /\ IF Verified
         THEN SyncFile(Files) /\ Goto(t, "drop") /\ UNCHANGED lock
         ELSE UNCHANGED file /\ Reply(t, "reject", 0) /\ Leave(t)
    /\ UNCHANGED <<part, disk, cl, told, faults, losses>>

(* Mutant: an offset inside the partial is accepted. *)
AtEndOrBefore(t) == th[t].off <= Len(part[th[t].pr])

AtEnd(t) == th[t].off = Len(part[th[t].pr])

(* A stale or repeated chunk: OffsetConflict, 503. *)
AppendConflict(t) ==
    /\ th[t].pc = "locked"
    /\ ~Completed
    /\ ~AtEnd(t)
    /\ Reply(t, "retry", 0) /\ Leave(t)
    /\ UNCHANGED <<part, disk, file, cl, told, faults, losses>>

(* staging_admission: the scan and the durable append are serialized over   *)
(* all partials by a lock that is never waited for; an empty append and an  *)
(* unconfigured budget skip it.                                             *)
Unmetered(t) == Budget = None \/ th[t].n = 0

Scanning(t) == th[t].pc \in {"admitted", "written"} /\ ~Unmetered(t)

Staged == Cardinality({u \in Producer \X (1..Total) : u[2] <= Len(part[u[1]])})

Admissible(t) ==
    Unmetered(t) \/ ((\A s \in Thread : ~Scanning(s)) /\ Staged + th[t].n <= Budget)

AppendAdmit(t) ==
    /\ th[t].pc = "locked"
    /\ ~Completed
    /\ AtEnd(t)
    /\ IF Admissible(t) THEN Goto(t, "admitted") /\ UNCHANGED lock
                        ELSE Reply(t, "retry", 0) /\ Leave(t)
    /\ UNCHANGED <<part, disk, file, cl, told, faults, losses>>

Chunk(t) == SubSeq(Copy(th[t].pr), th[t].off + 1, th[t].off + th[t].n)

AppendWrite(t) ==
    /\ th[t].pc = "admitted"
    /\ part' = [part EXCEPT ![th[t].pr] = @ \o Chunk(t)]
    /\ Goto(t, "written")
    /\ UNCHANGED <<disk, file, lock, cl, told, faults, losses>>

(* A full disk: some of the chunk is in the file, the handler answers 503.  *)
AppendTorn(t) ==
    /\ th[t].pc = "admitted"
    /\ \E k \in 0..th[t].n - 1 :
         part' = [part EXCEPT ![th[t].pr] = @ \o SubSeq(Chunk(t), 1, k)]
    /\ Reply(t, "retry", 0) /\ Leave(t)
    /\ UNCHANGED <<disk, file, cl, told, faults, losses>>

(* Mutant: the size is taken for the checksum. *)
ChecksumBySize(content) == Len(content) = Total

Checksum(content) == content = Source

(* fsync of the file and its directory; then the size and checksum tests.   *)
AppendSync(t) ==
    LET content == part[th[t].pr] IN
    /\ th[t].pc = "written"
    /\ SyncPartial(th[t].pr)
    /\ \/ /\ Len(content) # Total
          /\ told' = [told EXCEPT ![th[t].pr] = Len(content)]
          /\ Reply(t, "pending", Len(content)) /\ Leave(t)
       \/ /\ Len(content) = Total /\ Checksum(content)
          /\ th' = [th EXCEPT ![t].pc = "publish", ![t].at = 1]
          /\ UNCHANGED <<lock, told>>
       \/ /\ Len(content) = Total /\ ~Checksum(content)
          /\ Reply(t, "reject", 0) /\ Leave(t)
          /\ UNCHANGED told
    /\ UNCHANGED <<part, file, cl, faults, losses>>

(* Link the next file, unless another producer published it already: then   *)
(* its content is compared. Either way it is fsynced before going on.       *)
PublishLink(t) ==
    /\ th[t].pc = "publish"
    /\ file' = [file EXCEPT ![th[t].at] = IF @ = "absent" THEN "linked" ELSE @]
    /\ Goto(t, "sync")
    /\ UNCHANGED <<part, disk, lock, cl, told, faults, losses>>

PublishSync(t) ==
    /\ th[t].pc = "sync"
    /\ SyncFile(th[t].at)
    /\ IF th[t].at = Files THEN Goto(t, "drop")
                           ELSE th' = [th EXCEPT ![t].pc = "publish", ![t].at = th[t].at + 1]
    /\ UNCHANGED <<part, disk, lock, cl, told, faults, losses>>

DropPartial(t) ==
    /\ th[t].pc = "drop"
    /\ part' = [part EXCEPT ![th[t].pr] = <<>>]
    /\ Goto(t, "dropped")
    /\ UNCHANGED <<disk, file, lock, cl, told, faults, losses>>

DropSync(t) ==
    /\ th[t].pc = "dropped"
    /\ SyncPartial(th[t].pr)
    /\ Reply(t, "complete", Total) /\ Leave(t)
    /\ UNCHANGED <<part, file, cl, told, faults, losses>>

Handle(t) ==
    \/ StatusLook(t) \/ StatusPending(t) \/ StatusComplete(t)
    \/ AppendLock(t) \/ AppendCompleted(t) \/ AppendConflict(t) \/ AppendAdmit(t)
    \/ AppendWrite(t) \/ AppendSync(t) \/ PublishLink(t) \/ PublishSync(t)
    \/ DropPartial(t) \/ DropSync(t) \/ Discard(t)

-----------------------------------------------------------------------------
(* expire_transfers --apply: no writer is active (it takes the writer lease *)
(* exclusively), the object is not published, no reader holds the lock.     *)
Expire(pr) ==
    /\ faults < MaxCrashes
    /\ \A t \in Thread : th[t].pc \notin LockedPCs \cup {"append"}
    /\ part[pr] # <<>>
    /\ ~Completed
    /\ part' = [part EXCEPT ![pr] = <<>>]
    /\ disk' = [disk EXCEPT ![pr] = <<>>]
    /\ told' = [told EXCEPT ![pr] = 0]
    /\ faults' = faults + 1
    /\ UNCHANGED <<file, lock, th, cl, losses>>

StopServer ==
    /\ faults < MaxCrashes
    /\ faults' = faults + 1
    /\ th' = [t \in Thread |-> IdleThread]
    /\ lock' = [pr \in Producer |-> None]
    /\ cl' = [pr \in Producer |-> IF cl[pr].pc = "wait" THEN IdleClient ELSE cl[pr]]
    /\ UNCHANGED <<told, losses>>

(* The process dies, the kernel keeps what it wrote. (Dying amid a write    *)
(* leaves what AppendTorn leaves.)                                          *)
Crash == StopServer /\ UNCHANGED <<part, disk, file>>

(* What a power loss may leave of a partial: anything between the durable   *)
(* content and the cached one, or a durable file whose unlink was not       *)
(* synced.                                                                  *)
Survivors(pr) ==
    IF IsPrefix(disk[pr], part[pr])
      THEN {SubSeq(part[pr], 1, k) : k \in Len(disk[pr])..Len(part[pr])}
      ELSE {part[pr], disk[pr]}

PowerLoss ==
    /\ StopServer
    /\ part' \in [Producer -> UNION {Survivors(pr) : pr \in Producer}]
    /\ \A pr \in Producer : part'[pr] \in Survivors(pr)
    /\ disk' = part'
    /\ file' \in [1..Files -> {"absent", "durable"}]
    /\ \A i \in 1..Files : file[i] # "linked" => file'[i] = file[i]

Next ==
    \/ \E pr \in Producer : AskStatus(pr) \/ SendChunk(pr) \/ Receive(pr) \/ Lose(pr) \/ Expire(pr)
    \/ \E t \in Thread : Handle(t) \/ AppendTorn(t)
    \/ Crash
    \/ PowerLoss

Spec == Init /\ [][Next]_vars

(* Threads run, clients keep retrying; nothing else has to happen. *)
FairSpec ==
    /\ Spec
    /\ \A t \in Thread : WF_vars(Handle(t))
    /\ \A pr \in Producer : WF_vars(AskStatus(pr) \/ SendChunk(pr) \/ Receive(pr))

-----------------------------------------------------------------------------
(* Concurrent, repeated, delayed and torn appends never put a unit at the   *)
(* wrong offset: each partial is always a beginning of the object, also     *)
(* what a power loss leaves of it (transfers.py:154-166). And an offset is  *)
(* durable (transfers.py:1) from the reply that promised it until the whole *)
(* object is; expiry is the documented exception.                           *)
PartialIsPrefix ==
    \A pr \in Producer : IsPrefix(part[pr], Copy(pr)) /\ IsPrefix(disk[pr], Copy(pr))

PromisedIsDurable ==
    \A pr \in Producer :
       \/ told[pr] <= Len(disk[pr])
       \/ \A i \in 1..Files : file[i] = "durable"

(* transfer_capacity.py: the staging budget holds over all producers' appends. *)
StagingBounded == Budget # None => Staged <= Budget

StagedIsSafe == TypeOK /\ PartialIsPrefix /\ PromisedIsDurable /\ StagingBounded

(* A client that was told "complete" may delete its copy: every file of the *)
(* object survives a power loss, whichever producer published it            *)
(* (transfers.py:89-95, chunks.py:47-74). A recipe has a name only when all *)
(* of its chunks are durable, after power losses too, so nobody takes a     *)
(* published object for a corrupt one.                                      *)
CompleteIsDurable ==
    \A pr \in Producer : cl[pr].pc = "done" => \A i \in 1..Files : file[i] = "durable"

RecipeComesLast == Completed => \A i \in 1..Files - 1 : file[i] = "durable"

(* A client with an intact copy never gets 400: the queue would mark its row rejected   *)
(* and block the session for good (queue.py:352-353).                       *)
NeverRejected == \A pr \in Producer \ Rotten : cl[pr].pc # "rejected"

PublishedIsSafe == CompleteIsDurable /\ RecipeComesLast /\ NeverRejected

(* Decayed bytes are never published under the digest of the intact object: *)
(* some intact partial was complete before any file of it got a name.       *)
RotIsNotPublished ==
    [][\A i \in 1..Files : file[i] = "absent" /\ file'[i] = "linked" =>
         \E pr \in Producer : part[pr] = Source]_vars

(* Apart from expiry and power losses, a partial disappears only when every *)
(* file of the object is durable.                                           *)
DropsOnlyDurable ==
    [][\A pr \in Producer :
         part[pr] # <<>> /\ part'[pr] = <<>> /\ faults' = faults =>
            \A i \in 1..Files : file[i] = "durable"]_vars

(* Once replies stop getting lost and the disk stops being full, every      *)
(* intact upload completes: locks left by crashed handlers, zombie          *)
(* handlers, torn and stale offsets all resolve. Only partials that leave   *)
(* no room for a chunk in the staging budget, until they expire, hold it up.*)
UploadCompletes ==
    <>[][(\A pr \in Producer : ~Lose(pr)) /\ (\A t \in Thread : ~AppendTorn(t))]_vars =>
        \A pr \in Producer \ Rotten :
            <>(cl[pr].pc = "done") \/ <>[](Budget # None /\ Staged + MaxChunk > Budget)
=============================================================================
