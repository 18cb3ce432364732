---------------------------- MODULE TransferLock ----------------------------
(* The lock file of one partial upload (storage/transfers.py transfer_lock) *)
(* and everyone who takes it: the append handler, the reclaim of a finished *)
(* partial, the status handler, and the expiry of abandoned uploads, which  *)
(* opens the file on its own (storage/transfer_maintenance.py).             *)
(*                                                                          *)
(* The file is created on demand and unlinked by whoever holds it once the  *)
(* partial is gone, so a waiter may win flock on an inode that no longer    *)
(* has a name. Inodes are reused as soon as nobody has them open.           *)
EXTENDS Naturals, FiniteSets

CONSTANTS
    Proc,       \* handler threads and maintenance processes
    Inode,      \* inodes the lock file may get
    NoOne        \* no inode, no owner

ASSUME NoOneAssumption == NoOne \notin Proc /\ NoOne \notin Inode

VARIABLES
    path,       \* the inode the name of the lock file refers to
    partial,       \* whether the partial upload exists
    owner,      \* [Inode -> the process holding the exclusive flock]
    lease,      \* [Proc -> its flock on .writers.lock]
    op,         \* [Proc -> the call it executes]
    pc,         \* [Proc -> where it is in that call]
    fd,         \* [Proc -> the inode it has open]
    seen        \* [Proc -> the lock inode an expiry scan recorded]

lockVars == <<path, partial, owner, lease, op, pc, fd, seen>>

Calls == {"append", "reclaim", "status", "expire"}

(* A scan turns "expire" into the removal of a partial or of an orphan lock. *)
Ops == Calls \cup {"expirePart", "expireLock"}

PCs == {"idle", "lease", "scan", "open", "flock", "check", "held", "retire",
        "unlinkPart", "unlink", "close", "return"}

(* A descriptor is open exactly from os.open to os.close. *)
OpenPCs == {"flock", "check", "held", "retire", "unlinkPart", "unlink", "close"}

LockTypeOK ==
    /\ path \in Inode \cup {NoOne}
    /\ partial \in BOOLEAN
    /\ owner \in [Inode -> Proc \cup {NoOne}]
    /\ lease \in [Proc -> {"none", "shared", "exclusive"}]
    /\ op \in [Proc -> Ops]
    /\ pc \in [Proc -> PCs]
    /\ fd \in [Proc -> Inode \cup {NoOne}]
    /\ seen \in [Proc -> Inode \cup {NoOne}]
    /\ \A p \in Proc : fd[p] # NoOne <=> pc[p] \in OpenPCs

LockInit ==
    /\ path = NoOne
    /\ partial = FALSE
    /\ owner = [i \in Inode |-> NoOne]
    /\ lease = [p \in Proc |-> "none"]
    /\ op = [p \in Proc |-> "status"]
    /\ pc = [p \in Proc |-> "idle"]
    /\ fd = [p \in Proc |-> NoOne]
    /\ seen = [p \in Proc |-> NoOne]

-----------------------------------------------------------------------------
LockGoto(p, label) == pc' = [pc EXCEPT ![p] = label]

Expiring(p) == op[p] \in {"expire", "expirePart", "expireLock"}

Creates(p) == op[p] \in {"append", "reclaim"}

(* Closing a descriptor drops the flock that was taken through it. *)
CloseFd(p) ==
    /\ fd' = [fd EXCEPT ![p] = NoOne]
    /\ owner' = [i \in Inode |-> IF owner[i] = p THEN NoOne ELSE owner[i]]

(* A call begins. Reclaiming is attempted only for a partial that exists;  *)
(* the status call takes no writer lease.                                  *)
Start(p, k) ==
    /\ pc[p] = "idle"
    /\ k = "reclaim" => partial
    /\ op' = [op EXCEPT ![p] = k]
    /\ LockGoto(p, IF k = "status" THEN "open" ELSE "lease")
    /\ UNCHANGED <<path, partial, owner, lease, fd, seen>>

(* Mutant: a writer does not wait for the expiry that holds the lease. *)
TakeSharedLeaseEagerly(p) ==
    /\ pc[p] = "lease" /\ Creates(p)
    /\ lease' = [lease EXCEPT ![p] = "shared"]
    /\ LockGoto(p, "open")
    /\ UNCHANGED <<path, partial, owner, op, fd, seen>>

(* acquire_writer: append and reclaim share .writers.lock and wait for an   *)
(* exclusive holder to leave.                                               *)
TakeSharedLease(p) ==
    /\ pc[p] = "lease"
    /\ Creates(p)
    /\ \A q \in Proc : lease[q] # "exclusive"
    /\ lease' = [lease EXCEPT ![p] = "shared"]
    /\ LockGoto(p, "open")
    /\ UNCHANGED <<path, partial, owner, op, fd, seen>>

(* Mutant: expiry does not exclude the writers. *)
TakeNoLease(p) ==
    /\ pc[p] = "lease" /\ Expiring(p)
    /\ LockGoto(p, "scan")
    /\ UNCHANGED <<path, partial, owner, lease, op, fd, seen>>

(* expire_transfers takes it exclusively or defers. *)
TakeExclusiveLease(p) ==
    /\ pc[p] = "lease"
    /\ Expiring(p)
    /\ IF \A q \in Proc : lease[q] = "none"
         THEN lease' = [lease EXCEPT ![p] = "exclusive"] /\ LockGoto(p, "scan")
         ELSE UNCHANGED lease /\ LockGoto(p, "return")
    /\ UNCHANGED <<path, partial, owner, op, fd, seen>>

(* The directory scan: an old enough, unpublished partial is a candidate;   *)
(* a lock without a partial is an orphan whose inode is recorded.           *)
Scan(p) ==
    /\ pc[p] = "scan"
    /\ \/ partial /\ op' = [op EXCEPT ![p] = "expirePart"] /\ LockGoto(p, "open") /\ UNCHANGED seen
       \/ /\ ~partial /\ path # NoOne
          /\ op' = [op EXCEPT ![p] = "expireLock"]
          /\ seen' = [seen EXCEPT ![p] = path]
          /\ LockGoto(p, "open")
       \/ LockGoto(p, "return") /\ UNCHANGED <<op, seen>>
    /\ UNCHANGED <<path, partial, owner, lease, fd>>

(* os.open of an existing lock file. *)
OpenExisting(p) ==
    /\ pc[p] = "open"
    /\ path # NoOne
    /\ fd' = [fd EXCEPT ![p] = path]
    /\ LockGoto(p, "flock")
    /\ UNCHANGED <<path, partial, owner, lease, op, seen>>

(* os.open with O_CREAT when the name is free: any inode nobody has open.   *)
OpenCreate(p) ==
    /\ pc[p] = "open"
    /\ path = NoOne
    /\ Creates(p)
    /\ \E i \in Inode :
         /\ \A q \in Proc : fd[q] # i
         /\ path' = i
         /\ fd' = [fd EXCEPT ![p] = i]
    /\ LockGoto(p, "flock")
    /\ UNCHANGED <<partial, owner, lease, op, seen>>

(* FileNotFoundError without O_CREAT: status yields False, expiry skips.    *)
OpenAbsent(p) ==
    /\ pc[p] = "open"
    /\ path = NoOne
    /\ ~Creates(p)
    /\ LockGoto(p, "return")
    /\ UNCHANGED <<path, partial, owner, lease, op, fd, seen>>

(* Mutant: LOCK_SH instead of LOCK_EX. *)
FlockShared(p) ==
    /\ pc[p] = "flock"
    /\ owner' = [owner EXCEPT ![fd[p]] = p]
    /\ LockGoto(p, "check")
    /\ UNCHANGED <<path, partial, lease, op, fd, seen>>

(* flock(LOCK_EX) on the open inode, which may have lost its name. *)
Flock(p) ==
    /\ pc[p] = "flock"
    /\ owner[fd[p]] = NoOne
    /\ owner' = [owner EXCEPT ![fd[p]] = p]
    /\ LockGoto(p, "check")
    /\ UNCHANGED <<path, partial, lease, op, fd, seen>>

(* LOCK_NB on a held inode: reclaim returns, expiry skips the file. *)
FlockBusy(p) ==
    /\ pc[p] = "flock"
    /\ op[p] = "reclaim" \/ Expiring(p)
    /\ owner[fd[p]] # NoOne
    /\ LockGoto(p, "close")
    /\ UNCHANGED <<path, partial, owner, lease, op, fd, seen>>

(* The held inode is still the named one: the section is entered. *)
CheckSame(p) ==
    /\ pc[p] = "check"
    /\ ~Expiring(p)
    /\ path = fd[p]
    /\ LockGoto(p, "held")
    /\ UNCHANGED <<path, partial, owner, lease, op, fd, seen>>

(* Mutant: the retry waits on the retired inode once more. *)
CheckRetiredSameFd(p) ==
    /\ pc[p] = "check" /\ ~Expiring(p)
    /\ path # fd[p]
    /\ LockGoto(p, "flock")
    /\ UNCHANGED <<path, partial, owner, lease, op, fd, seen>>

(* The inode was retired while this process waited: close and open again. *)
CheckRetired(p) ==
    /\ pc[p] = "check"
    /\ ~Expiring(p)
    /\ path # fd[p]
    /\ CloseFd(p)
    /\ LockGoto(p, "open")
    /\ UNCHANGED <<path, partial, lease, op, seen>>

(* The guarded section. An append creates, keeps, extends or (on completion) *)
(* removes the partial; a reclaim removes it or gives up; status only reads. *)
Body(p) ==
    /\ pc[p] = "held"
    /\ \/ UNCHANGED partial
       \/ op[p] = "append" /\ partial' = TRUE
       \/ Creates(p) /\ partial' = FALSE
    /\ LockGoto(p, "retire")
    /\ UNCHANGED <<path, owner, lease, op, fd, seen>>

(* Mutant: the lock is retired with every call. *)
RetireAlways(p) ==
    /\ pc[p] = "retire"
    /\ LockGoto(p, "unlink")
    /\ UNCHANGED <<path, partial, owner, lease, op, fd, seen>>

(* The finally clause keeps the lock of a resumable partial. *)
Retire(p) ==
    /\ pc[p] = "retire"
    /\ LockGoto(p, IF partial THEN "close" ELSE "unlink")
    /\ UNCHANGED <<path, partial, owner, lease, op, fd, seen>>

(* Expiry of a partial re-checks the partial, not the lock's inode. *)
RecheckPart(p) ==
    /\ pc[p] = "check"
    /\ op[p] = "expirePart"
    /\ LockGoto(p, IF partial THEN "unlinkPart" ELSE "close")
    /\ UNCHANGED <<path, partial, owner, lease, op, fd, seen>>

(* Expiry of an orphan compares the name with the inode the scan recorded. *)
RecheckLock(p) ==
    /\ pc[p] = "check"
    /\ op[p] = "expireLock"
    /\ LockGoto(p, IF path = seen[p] THEN "unlink" ELSE "close")
    /\ UNCHANGED <<path, partial, owner, lease, op, fd, seen>>

(* Expiry drops the partial first, its lock only afterwards. *)
UnlinkPart(p) ==
    /\ pc[p] = "unlinkPart"
    /\ partial' = FALSE
    /\ LockGoto(p, "unlink")
    /\ UNCHANGED <<path, owner, lease, op, fd, seen>>

(* unlink removes the name, whichever inode it refers to by now. *)
Unlink(p) ==
    /\ pc[p] = "unlink"
    /\ path' = NoOne
    /\ LockGoto(p, "close")
    /\ UNCHANGED <<partial, owner, lease, op, fd, seen>>

Close(p) ==
    /\ pc[p] = "close"
    /\ CloseFd(p)
    /\ LockGoto(p, "return")
    /\ UNCHANGED <<path, partial, lease, op, seen>>

(* The call is over: its lease is closed and it forgets what it saw. *)
EndCall(p) ==
    /\ lease' = [lease EXCEPT ![p] = "none"]
    /\ op' = [op EXCEPT ![p] = "status"]
    /\ seen' = [seen EXCEPT ![p] = NoOne]
    /\ LockGoto(p, "idle")

Return(p) ==
    /\ pc[p] = "return"
    /\ EndCall(p)
    /\ UNCHANGED <<path, partial, owner, fd>>

(* A killed process loses its descriptors and with them both locks. (One    *)
(* that is returning has only its lease left, which Return drops as well:   *)
(* that step is no death.)                                                  *)
Die(p) ==
    /\ pc[p] \notin {"idle", "return"}
    /\ CloseFd(p)
    /\ EndCall(p)
    /\ UNCHANGED <<path, partial>>

Work(p) ==
    \/ TakeSharedLease(p) \/ TakeExclusiveLease(p) \/ Scan(p)
    \/ OpenExisting(p) \/ OpenCreate(p) \/ OpenAbsent(p)
    \/ Flock(p) \/ FlockBusy(p) \/ CheckSame(p) \/ CheckRetired(p)
    \/ Body(p) \/ Retire(p) \/ RecheckPart(p) \/ RecheckLock(p)
    \/ UnlinkPart(p) \/ Unlink(p) \/ Close(p) \/ Return(p)

LockNext == \E p \in Proc : Work(p) \/ Die(p) \/ \E k \in Calls : Start(p, k)

LockSpec == LockInit /\ [][LockNext]_lockVars

(* Handler threads keep running once started; nobody has to call, or die. *)
FairLock == LockSpec /\ \A p \in Proc : WF_lockVars(Work(p))

-----------------------------------------------------------------------------
(* Processes that may read, write or remove the partial or retire the lock. *)
Inside(p) == pc[p] \in {"held", "retire", "unlinkPart", "unlink"}

(* One handler at a time is in the guarded section of a partial, although   *)
(* the file it locks is created and unlinked all the time.                  *)
MutualExclusion ==
    \A p, q \in Proc : Inside(p) /\ Inside(q) => p = q

(* transfers.py:19: nobody works through an unlinked lock. Whoever is in    *)
(* the section, expiry included (it never compares inodes for a partial),   *)
(* owns the flock of the inode the name refers to.                          *)
HeldLockIsNamed ==
    \A p \in Proc : Inside(p) => path \in Inode /\ fd[p] = path /\ owner[path] = p

(* transfers.py:43: a resumable partial keeps its lock file, through every  *)
(* death of a holder, so expiry always finds a file to lock.                *)
PartialKeepsLock == partial => path # NoOne

(* A name is only ever taken away by the process that holds the flock of    *)
(* the very inode it referred to; no retirement hits a successor's lock.    *)
NoForeignUnlink ==
    [][path # NoOne /\ path' # path =>
         path' = NoOne /\ \E p \in Proc : owner[path] = p /\ pc[p] = "unlink"]_lockVars

(* The retry loop of transfer_lock makes progress once holders stop dying:  *)
(* a call that goes on waiting for the lock sees some call get in, so nobody *)
(* waits at a file that no one will ever hold. (A single waiter may lose    *)
(* every race: that it gets in itself is not promised.)                     *)
Waiting(p) == pc[p] \in {"open", "flock", "check"}

NoLockout ==
    <>[][\A p \in Proc : ~Die(p)]_lockVars =>
      \A p \in Proc : Waiting(p) ~> ~Waiting(p) \/ \E q \in Proc : Inside(q)

(* The lock protocol implements the mutex its users rely on. *)
InsideSet == {p \in Proc : Inside(p)}

Abstract == INSTANCE Mutex WITH inside <- InsideSet

ImplementsMutex == Abstract!Spec
=============================================================================
