# Formal models of session-search

session-search collects the session files that coding agents leave on several
devices, uploads them to one primary server, indexes them there and distributes
read-only replicas and encrypted backups. This directory holds TLA+ models of
the parts whose correctness depends on order, failure and concurrency, the TLC
configurations that check them, and proofs checked by TLAPS. Paths below are
relative to `src/src/session_search/`.

## 1. Inventory

| Component | State | Operations | What is hard | Module |
|---|---|---|---|---|
| Transfer lock files (`storage/transfers.py` 16-50, `storage/transfer_maintenance.py`) | `<name>.lock` beside each partial, flocks, `.writers.lock` | `transfer_lock`, expiry of partials and orphan locks | the file that is locked is created and unlinked on the fly; threads, processes, deaths | `TransferLock` |
| Resumable raw transfers (`storage/transfers.py`, `transfer_capacity.py`, `chunks.py`, `interfaces/client.py`) | partials `.uploads/<sha>.<producer>.part`, objects, chunks, recipes | status, append, publish, reclaim | repeated, late and torn appends; several producers of one object; power loss; staging budget | `RawTransfers` |
| Expiry of uploads (`transfer_maintenance.py`) | the same files | dry run, apply | runs beside the server and beside other expiries | `TransferLock`, `RawTransfers` |
| Capture and upload queue (`capture/queue.py`, `capture/local.py`) | SQLite tables `pending`, `captured`, `acknowledged`; `.flush.lock`; staged objects | capture, flush, reconcile, bootstrap imports, compact, collect staged chunks | expectations fixed at capture time, lost answers, refusals, retries with back-off | `UploadQueue` |
| Revision ingestion (`interfaces/server.py` 250-330, `storage/catalog.py`) | tables `sessions`, `revisions`, `receipts`, evidence and FTS rows | `ingest`, heads | idempotency, compare-and-write, content that returns to an earlier revision | `UploadQueue` |
| Chunk and object store (`storage/chunks.py`, `objects.py`) | content-addressed files | stage, publish, read, verify | order of names and fsyncs; unlinking beside capture | `RawTransfers` |
| Write fencing (`storage/fencing.py`) | `.writers.lock`, `FENCED.json` | lease, fence | a writer that passed the check while a fence is set | `Handover` |
| Replica generations (`storage/generations.py`, `snapshots.py`) | `generations/*`, CURRENT and PREVIOUS pointers, reader pins | activate, open, prune | readers against pruning; crash between pointer writes | `ReplicaGenerations` |
| Replication outbox (`storage/replication.py`) | pending snapshot, receipts, incoming directories | prepare, send, receive, acknowledge, retire | crash between any two of them; receivers that outlive their callers | `Replication` |
| Backup cycle (`storage/backup_cycle.py`, `backups.py`, `recovery.py`) | pending snapshot, a receipt per repository, restored directories | cycle, retire, restore, prepare a new primary | partial success over several repositories | `BackupCycle`, `Handover` |
| Client offload (`capture/offload.py`, `storage/offload.py`) | native files, recovery receipts, proofs | plan, prove, remove | a file that changes, a proof that expires, between check and removal | `ClientOffload` |
| Verification jobs (`storage/verification_jobs.py`) | job records, scratch directories, admission lock inherited by the worker | admit, run, poll, expire | telling a dead job from a running one | `VerificationJobs` |
| Semantic index and coverage (`storage/semantic.py`) | event chunks, embeddings, failures, coverage | prepare, embed, publish | coverage counted in one transaction, published in another | `SemanticIndex` |
| Vector cache (`storage/vector_cache.py`) | segments, manifest, anchor in the catalog | build, clean, score | manifest and anchor written apart | `VectorCache` |
| Local inference worker (`core/local_worker.py`, `interfaces/mcp.py`) | child process, request in flight, slots | embed, dispatch | late answers after a timeout, a worker that hangs | `LocalInference` |
| Device credentials (`interfaces/credentials.py`) | a registry on each host, a receipt | enroll, revoke, sync, receive | late calls against later revocations; power loss between rename and sync | `Credentials` |
| Search pool (`interfaces/server.py`) | slots | search | slots of callers that have gone | - |
| Incremental parsing and checkpoints (`capture/incremental.py`, `checkpoints.py`) | cached parser state | resume, save | a cached state against a rewritten file | - |
| Remote capture over SSH (`capture/sync.py`) | - | pull, then capture | partial copies | - |
| Parsers and redaction (`capture/parsers/`, `legacy.py`) | - | functions of text | - | - |
| Lexical search, ranking, snippets (`storage/literal.py`, `metadata_index.py`, `ranking.py`, `snippets.py`) | - | read-only queries | - | - |
| Records and output (`core/records.py`, `output.py`, `protocol.py`) | - | value types, canonical JSON | - | - |
| Command line, status (`interfaces/cli.py`, `capture_status.py`) | - | dispatch | - | - |

How they interact: a client *captures* a file into its queue and stages the raw
bytes; *flush* first moves the raw bytes with *transfers* (status, appends until
"complete"), then posts the revision; *ingestion* compares the expected head,
stores the revision and answers with a receipt; only a receipt deletes the
queued row. Transfers, ingestion and maintenance share the *writer lease*, which
the *fence* takes exclusively. *Replication* and *backup* take snapshots of the
catalog and the object store; replicas *activate* generations and readers pin
them; *offload* removes native files whose content a *verification job* has
just restored from every repository. The *semantic index* follows what was
ingested and keeps the *vector cache*; searches embed their query in the
*inference worker*. A successor of the primary is prepared from a restored
backup after the fence, and accepts the devices whose *credentials* were
synchronized.

What makes each of them correct is the list of properties in section 3.
`PROJECT.json` lists, under `hazards`, the places where the code could go wrong
in a way a test hardly reaches, with the properties that cover each.

## 2. Modules

`Mutex`, `RevisionHistory` and `PinnedStore` are abstract specifications:
respectively at most one process inside; a store of revisions that only grows,
whose heads never rewind and which acknowledges only what it has; and a store of
snapshots where the pinned and the current one stay whole and what was confirmed
survives an outage. `TransferLock`, `UploadQueue` and
`ReplicaGenerations` implement them (checked by TLC and proved).
`RawTransfers` uses the mutex and `Replication` the store by instantiating or
assuming the abstraction, so that each protocol is checked on top of what the
protocol below it promises. `SemanticIndex` extends `VectorCache`. `MC_*` are the
instances for TLC, `*_proofs` the theorems. Some proof modules and instances are
about several components, whose names therefore do not overlap (`HandoverNext`,
`CredentialNext`, ...):

| Proofs | of |
|---|---|
| `RawTransfers_proofs` | `RawTransfers`, `TransferLock` |
| `UploadQueue_proofs` | `UploadQueue` |
| `ReplicaGenerations_proofs` | `ReplicaGenerations` |
| `Replication_proofs` | `Replication` |
| `BackupCycle_proofs` | `BackupCycle`, `Handover`, `Credentials` |
| `VerificationJobs_proofs` | `VerificationJobs` |
| `ClientOffload_proofs` | `ClientOffload` |
| `SemanticIndex_proofs` | `VectorCache`, `SemanticIndex`, `LocalInference` |

### TransferLock

One partial upload and its lock file. `path` is the inode its name refers to,
`fd[p]` the inode a process has open, `owner[i]` the holder of the exclusive
flock, `lease[p]` the flock on `.writers.lock`. Each step of
`transfer_lock` that another process can observe is an action: open (existing,
with O_CREAT, or absent), flock (blocking or LOCK_NB), the comparison of inodes,
the guarded section, the decision of the `finally` clause, unlink, close.
`expire_transfers` is modelled with its own sequence: it takes the lease exclusively,
scans, opens and locks the file on its own, and re-checks the partial or, for an
orphan, the recorded inode. A death at any step closes the descriptors. An
inode is reused as soon as nobody has it open, so that "same inode number"
is not taken for "same file". Age limits, the dry run and the scan limit are
left out: expiry may pick whatever exists.

### RawTransfers

`part` is what the kernel has of each producer's partial and `disk` what a power
loss leaves for sure; `file[i]` says whether file `i` of the object has a name
and whether its name and content are durable. With `Files = 1` the object is one
file; with `Files > 1` the last file is the recipe and the others are chunks.
Unit `i` of the object is the number `i`, so duplicated or shifted bytes are
visible. Server threads run the handlers (`status`, `append`) step by step:
lock, test for the published object, offset test, staging admission,
write, fsync, size and checksum test, per-file link and fsync, unlink, fsync.
Clients run the loop of `upload_raw_store`; a lost answer (`Lose`) leaves the
handler running without its client. `Crash` stops the handlers and keeps
what the kernel has; `PowerLoss` also takes back what was not synced (any
prefix between the synced and the cached length, an unsynced name, an unsynced
unlink). File systems that expose unwritten blocks inside a file's length after
a power loss are outside the model. So is the loss of a directory: a file that was
synced is taken to keep its name (section 3, limits).

The steps of `AppendLock` to `DropSync` hold the per-partial lock as an atomic
mutex; that is what `TransferLock` provides. The writer lease appears as the
guard of `Expire`: no handler is past `AppendLock`, and none is about to take it.

### UploadQueue

Content is the sequence of devices that appended a record, and the revision (a
digest) is the content. `version` is the file's fingerprint, `captured` the
one recorded at the last capture. `pending[c]` is the set of queued rows with
their idempotency key, expected head, state and whether back-off delays them.
`Capture` is one transaction: row and fingerprint. A flush holds `.flush.lock`, so
a client has one flush record `fl[c]` with the rows left in the pass and the row in
flight. `net` is the set of requests on the way: a request that was given up
may still be served later, or never. `Commit`, `Repeat`, `Conflict` and `Refuse` are the
outcomes of `ingest`; the answer reaches the flush only if it still waits for
that very request. `FetchHeads` and `Reconcile` are `flush
--reconcile-raw-prefixes`, which rebases a row on heads that may be stale by
then.

Simplifications: the rows of one session are ordered by the file's version (the
queue's `seq` says the same, since the queue appends); the order of sessions
within a pass is arbitrary; the `LIMIT` of a pass and the length of the back-off
are left out; two copies of one request are one element of `net` (serving the
second changes nothing: `Repeat`). Raw archival is on, so a revision is a function
of the raw file. Parser upgrades, legacy bootstrap, compaction and the
collection of staged chunks are not modelled yet.

A file that goes back to content it had before is allowed (`Reverts`): the server
then stores a receipt and keeps its head, which the repository's
`tests/test_catalog.py` states as intended ("never rewinds"). `HeadOnlyGrows`
is a statement about files that only grow, and its run says so (`Reverts =
FALSE`); `NoSelfConflict` excepts the sessions whose file did go back. `Brief`
names sessions whose file changes only once, which keeps instances small.

### ReplicaGenerations and Replication

A replica directory is `gen` (each generation absent, staged, whole or torn) and
the two pointer files; `genDisk` and `ptrDisk` are the sets of states a loss of
power may leave of an entry that was changed since its directory was synced.
Workers activate (`activate_replica`: stage, admit, rename, sync, PREVIOUS,
CURRENT) and prune (`prune_obsolete_generations`, one generation at a time, with a death
amid the removal); readers pin in three steps (read CURRENT, open the lock file,
flock) under the shared `.publication.lock`. `confirmed` is the highest epoch an
activation has reported.

`Replication` is the outbox of the primary against one standby: `sd` is the run that
holds the outbox's lock, `rx` the `receive-replica` calls, of which one may have
been given up and run on beside the retry. The standby's store is `PinnedStore`.

### BackupCycle and Handover

`BackupCycle` is `backup_cycle` with its outbox (`pending`, `.retired`,
`state.json`, the receipts) and the repositories behind configured names. A name
may come to mean another repository (`Repoint`), a repository may fail, a run may die. Each
call of restic finds whatever the name means by then: the identity is read
(`Identify`), the backup made (`Backup`), looked for and restored (`VerifyRestore`), and the
identity read again and compared (`SaveReceipt`), four steps with a `Repoint` possible
between any two. A backup is a record of its snapshot, the repository that holds it and a
number; snapshots differ by their time of creation and are numbered.

`Handover` is what follows the loss of a primary: writers take the shared lease
and look for the marker under it (`acquire_writer`), `fence_primary` takes it
exclusively, `restore_backup` and `prepare_primary` build a directory stage by
stage (copy, verify, sync, rename, sync of the parent). `commits` is the publication;
a directory is abstracted to the publication it holds, whether it is intact and
whether its contents and its name are durable.

### VerificationJobs and ClientOffload

`VerificationJobs` has the request handlers that admit, sweep and poll, the child
that restores each repository into a scratch directory and the restic it starts. The
admission lock is an flock on one open file description: `holders` is the set
of processes that have it open, and the lock is free when the set is empty. A
death of the server or of a child leaves the others running.

`ClientOffload` is plan and apply on a client and on the primary, with the
agent, capture, flush, backup, the clock and the primary's job interleaved
between any two steps. A file has versions; `proved` is the history of what each
repository gave back for the present apply, `overtaken` records an append in the
instant between the last fingerprint and the unlink. A client asks for one job
at a time, so the job is one variable here; its own protocol is `VerificationJobs`.

### VectorCache and SemanticIndex

A segment is the set of rows it holds, a manifest a set of segments with a watermark
and an epoch, the anchor the manifest the catalog vouches for. The builder reads
the manifest, plans, writes segments, publishes the manifest, anchors it and cleans, one
action each; a search has the snapshot of the catalog it opened and reads the
directory as it is. The server hashes a segment once per stat (`_verified` under
`lru_cache`) and opens it a second time to map it: `CheckSegment` and `MapSegment`, with
`verified` for the cache. Somebody who writes to a file changes its stat (`DamageSegment`),
decay of the medium does not (`DecaySegment`); a `Restart` empties the cache. `stale` is
history, not state of the program: the segments damaged after the server's last look. A
builder is a process of its own and starts with an empty cache (`sure`, filled while it
plans). `SemanticIndex` adds the background pass: preparing chunks,
embedding them with failures and delays, counting the coverage in one
transaction and recording it in another. Publications only grow, so "the
publication I counted at" is a flag.

### Credentials

Registries of the authority and the standby as files (`registry`) and as a loss of
power leaves them (`safe`); edits, the export that turns an unversioned registry
into revision 0 of an authority, the call over ssh, the receiver's checks and the
receipt. `wire` keeps calls that were given up: they may be served late or never. A
token is the number of the edit that issued it.

### LocalInference

The slots of `dispatch` in the MCP process, the threads it starts and
`IsolatedLocalEmbedder.embed`, step by step, against the worker process and its
pipe. A caller that goes leaves its thread; a call that times out leaves its
request with the worker, and `pending` is what the embedder believes about it.
Time is nondeterministic. The vector is the text it belongs to.

## 3. What the runs check

| Run | Instance | Properties | Question |
|---|---|---|---|
| `lock` | 3 processes, 3 inodes, fair | `HeldLockIsNamed`, `PartialKeepsLock`, `NoForeignUnlink`, `ImplementsMutex`, `NoLockout` | does the lock file exclude, although it is retired under waiters, and does the retry loop let somebody in? |
| `transfer` | 2 producers, one with a decayed copy, 2 threads, chunk + recipe of 2 units, budget 3, 1 crash, any number of lost answers, fair | `StagedIsSafe`, `PublishedIsSafe`, `DropsOnlyDurable`, `RotIsNotPublished`, `UploadCompletes` | is what was promised durable, rot kept out, and does an upload complete? |
| `queue_shared` | 2 devices, 1 session, 2 records, 2 versions, 2 requests | `CapturedIsKept`, `HeadOnlyGrows`, `ImplementsHistory` | two devices of one session: lost updates, lost content |
| `queue_single` | 1 device, 2 sessions, one refused, one that may shrink, 3 versions, fair | `NoSelfConflict`, `QueueDrains`, `ImplementsHistory` | expectations fixed at capture; does a blocked session hold up another? |
| `replica` | 2 workers, 1 reader, 3 snapshots of which two share an epoch, 1 fault, fair | `Wholeness`, `NeverBackward`, `ImplementsStore`, `NewestArrives` | is what may be opened complete, and does the newest snapshot arrive? |
| `replication` | 2 calls, 3 snapshots, 2 epochs, 1 death, 1 outage, fair | `OutboxInvariant`, `RemovedIsConfirmed`, `CatchesUpUnlessTorn` | do receipts tell the truth, and does the standby catch up? |
| `backup` | 2 repositories of 3 identities, 2 snapshots, 2 backups of one in a repository, 1 death, 1 repointing, fair | `ReceiptInvariant`, `PendingIsKept`, `PendingCompletes` | is a complete receipt true, and does a pending snapshot get one? |
| `jobs` | 2 handlers, 3 jobs, 2 repositories, 2 records, also scratch left from before, 1 fault, fair | `JobsInvariant`, `RestoreIsUndisturbed`, `JobsAreAnswered` | do restores run alone, is scratch always found, is every job answered? |
| `offload` | 2 files, one without an acknowledgement row, 2 repositories, 1 append, 1 fault, fair | `OffloadInvariant`, `RemovedIsRestorable`, `EverythingLeaves` | is only what was just restored removed, and is it removed in the end? |
| `index` | 2 events, 2 chunks, segments of 1 row, 2 faults, any number of restarts, fair | `ScoresAreExact`, `CoverageIsExact`, `IndexCatchesUp` | are scores and coverage exact, and does the index catch up? |
| `recovery` | 2 writers, 2 commits; 1 device, 4 tokens; 1 fault, fair | `HandoverInvariant`, `CredentialInvariant`, `StandbyConverges` | does a fence hold, is a replacement complete, does a revocation last? |
| `inference` | 3 threads, 2 slots, 2 texts, 2 deaths or hangs, fair | `InferenceInvariant`, `InferenceRecovers` | is every answer to the text that was asked, and do searches recover? |

All of them pass: what the models say about the code holds on these instances.
`recovery` explores two protocols that share nothing, one per behaviour (`part`
in `MC_Recovery`), with a bound on the faults of each (`MaxFaults`,
`MaxCredentialFaults`). An invariant named after a module contains its type invariant
and the parts defined before it. Every property has, in `PROJECT.json`, a mutant:
a plausible bug in one mapped definition under which TLC finds it violated. The
mutants' definitions stand beside the originals, marked `Mutant:`.

### Why the bounds are enough

* `lock`: the known failures of unlinked lock files need an old holder, a waiter on
  the old inode and a newcomer on the new one: three processes and inodes.
* `transfer`: two threads let a zombie handler run beside a retry or another
  producer. Two units in pieces of one or two give short, full, stale, repeated and torn
  appends; two files distinguish chunk and recipe; budget 3 is less than two objects.
  One crash can come at every step; recovery starts from states that a
  second one would reach again.
* Queues: conflicts need two devices, and a stale reconciliation two requests on
  the way. Two versions per device give, with one row stopped, a younger row
  behind it; three records and versions give two queued rows and a change after them.
* `replica`: a sender that gave up and its retry are two workers; equal epochs occur.
  With two readers whose shared flocks overlap for ever the activation never gets
  `.publication.lock`: liveness is stated for one reader.
* `replication`, `backup`: an abandoned call and its retry; a snapshot behind
  the one that is pending; two repositories for partial success and a third identity for a
  name that changes its meaning. One move may fall between any two calls of restic; two
  moves during one backup break the property (see the limits below).
* `jobs`: an orphan, its successor and one that waits; two records reach the limit.
* `offload`: a file with and one without a row, so that plan, recovery and apply
  overlap. `MaxFailures` is the code's 3.
* `index`: two faults, because the builder's death and a damaged segment together
  are what the fall-back to SQLite is for; they also suffice for a segment that decays after
  it was verified and another that is damaged before.
* `recovery`: the fence needs one writer that passed and one that waits; a token
  that is revoked, issued again and revoked again fits into four edits.
* `inference`: a caller, a waiter behind the lock and one without slot; two
  texts distinguish answers; a hang after a death needs two faults.

`CHECK_DEADLOCK FALSE` is set in `transfer`, where an upload that has completed on
every producer is the end of the behaviour, and in `inference`, where every thread may
be left idle. Counters of faults, losses, edits, commits and versions exist for the
bounds alone.

### Fairness

Nobody has to call, and nothing has to fail. What was started runs on (weak
fairness of the steps of a handler, worker, pass or run), and timers start the
next run, as the service files in `deploy/` do. Further:

* `lock` assumes that deaths end (a death is a step of a call that has not yet returned, so
  a normal return is none), and promises that some waiter gets in, not each
  of them: flock is not fair, and the loop may lose every race.
* `UploadCompletes` assumes that answers stop being lost and that the disk stops being
  full, and excepts the uploads for whose next chunk the staged partials of others leave no
  room until they expire. Several such partials can refuse each other for ever; the code
  leaves that to expiry, and no property is about it. `QueueDrains` assumes that outages
  end. A failure that belongs to one row (a
  full staging budget for one object) is not an outage that ends; see
  `capture/queue.py:360`.
* `NewestArrives` uses strong fairness of each worker: the flock it needs is
  free again and again, and Linux wakes waiters.
* `CatchesUpUnlessTorn`, `PendingCompletes` and `StandbyConverges` assume that
  time-outs, failing repositories and edits end, respectively.
* `JobsAreAnswered` assumes that restic ends: an orphaned restic has no time-out in
  the code.
* `EverythingLeaves` assumes that the agent stays away and that the operator repeats
  recovery, plan and apply.
* `IndexCatchesUp` needs delays to pass and only finitely many failures. In the
  code, chunks that fail for ever and keep coming due can end pass after pass
  early (`storage/semantic.py:138`); the bound on faults excludes that.
* `InferenceRecovers` assumes that a worker that neither died nor hangs is given the
  time it needs. A hung worker is ended only by the calls that find it.

### Limits of the code that the models show

The properties hold under the faults of the instances. These are the cases they
exclude, each by name or by a bound:

* A death in the middle of removing an acknowledged `outbox/pending` leaves a torn
  snapshot that every later run tries to verify (`storage/replication.py:132`,
  167). `CatchesUpUnlessTorn` names it.
* With two faults, a loss of power can take back a generation that a retry reused
  without syncing the directory (`storage/snapshots.py:188`), and a generation that lost
  its `.readers.lock` is refused for ever (`generations.py:82`, `snapshots.py:182`).
* A receipt may name a repository that does not have the backup, if its name leads to another
  repository when restic makes and restores the backup and back again before the identity is
  compared (`backup_cycle.py:121`, `backups.py:45-53`). That takes two moves during
  one backup; `NoNameReturns` excludes it in the proof, `MaxRepoints = 1` in the run.
* A server believes a segment it verified for as long as its stat stays the same, and maps
  it after the check (`vector_cache.py:146-151`, 186-190). Damage that changes no stat, or
  falls between the two, is scored if the ids keep their order and the numbers are finite.
  `ScoresAreExact` excepts the rows of these segments and no others.
* With two faults, a fence that died after replacing `FENCED.json` and is repeated returns
  the marker without syncing it (`storage/fencing.py:56-61`); a loss of power then
  unfences the primary after a receipt was returned.
* With two faults, an authority that dies between replacing and syncing its registry,
  exports it and then loses power forks its revisions; a standby refuses a
  re-minted authority until the operator intervenes.
* `poll` reads a job's record before it tests the lock (`verification_jobs.py:161-170`), so
  a job that ends between the two is reported "interrupted", once. A duplicate submission
  that passed `path.exists()` before it got the lock may overwrite the record of a verified
  job (line 108); the client then asks again.
* fsync of a file is taken to keep its name. The code does not sync a bucket directory that
  another, or a dead, producer made (`storage/chunks.py:24-30`, 47-72), nor the parent of a
  new `objects/raw` (`storage/transfers.py:187-193`). On a file system that does not order
  those entries by itself, `StagedIsSafe` and `PublishedIsSafe` would not hold across a loss
  of power.
* Between the last fingerprint and the unlink of a native file an append can be lost;
  a backup may also decay after it was restored. No check can exclude either.
* Maintenance of the vectors by hand between the count of the coverage and its
  recording leaves a coverage that claims to be current (`touched`).

## 4. What is proved

The theorems hold for every value of the constants that the named assumptions
allow: any number of devices, threads, snapshots or tokens, and any number of
faults, except where a theorem says otherwise. Three protocols promise less after a
second fault (section 3). There the theorem has a hypothesis that excludes the losses of power that can do the
damage, those after a death that left something unsynced, and a second theorem shows that
a single fault is never one of them, so that the specification alone suffices. Each
hypothesis is an action property, `[][...]_vars`, about the step that loses the power:
other faults remain free in number and order.

### Locks and transfers

`RawTransfers_proofs` proves of `TransferLock`, for any sets `Proc` and `Inode`, from the only
assumption that `None` is neither a process nor an inode:

* `LockTypeCorrect`, `Exclusion`, `HeldLockNamed`, `PartialLocked`: the invariants of run `lock`
  and mutual exclusion itself;
* `OwnUnlink`: the action property `NoForeignUnlink`;
* `LockIsMutex`: `TransferLock` implements `Mutex`.

None of the properties is inductive. The inductive invariant `LockIInv` adds

* who owns what: an owner has the inode open (`OwnersOpen`), and whoever is past
  flock owns the inode it has open (`LockedOwn`); in the section that inode is the
  named one (`InsideNamed`);
* what the lease excludes: an exclusive holder is alone (`LeaseExclusive`), calls
  that may create a lock file hold it shared (`CreatorsLeased`), and
  expiry works under the exclusive lease (`ExpiryLeased`). This is needed because
  expiry never compares inodes for a partial: from its scan on the partial
  exists and its name cannot move (`PartExpiry`), and no lock file can be created
  between the scan of an orphan and its unlink (`LockExpiry`);
* `UnlinkAfterPart`: whoever is about to unlink the lock has no partial to protect.

`TypeStep`, `LeaseStep` and `OwnershipStep` show, one step per action, that it is
preserved; types come first because the other two rely on `fd` being `None`
exactly when nothing is open.

Of `RawTransfers` itself it proves the invariants `StagedIsSafe` (`StagingIsSafe`) and
`PublishedIsSafe` (`PublicationIsSafe`) and the action properties `RotIsNotPublished`
(`OnlyIntactIsPublished`) and `DropsOnlyDurable` (`DropsAreSafe`), for any object
size, chunk size, number of files and budget (also none), any threads and any
finite set of producers, from `SizeAssumption` (an object is not empty, a chunk not
larger than it) and `DeviceAssumption` (`None` is neither a producer nor a thread;
the devices are finite in number, or the budget could not be a number). `IInv` adds

* `Sections`, `Compared`: what a handler compared under the lock (its offset with the
  length of the partial, the content with the checksum) stays so until it leaves;
* `Durable`: the files become durable one after the other, so "file `i` is being
  published" says that all before it are, and only the last step answers "complete";
* `Promised`: a promised offset is in what a loss of power leaves of the partial,
  or else the whole object is durable. `Len(disk) <= Len(part)` alone is not inductive: the
  unsynced unlink of a published partial breaks it, and only the durable object excuses that;
* `Metered`: the budget bounds what is cached and what is durable *together* (after a
  power loss a partial that was removed may be back), and what the one admitted
  append is about to add. The footprint is the number of units (producer, offset) that
  exist in either, so that the library's theorems about cardinality apply.

### Upload queue

`UploadQueue_proofs` proves, for any devices and sessions and any values of the
bounds, from `BoundAssumption` (the bounds are natural numbers) and
`NoneAssumption` (`None` is not a row):

* `TypeCorrect` and `CapturedKept`: the invariants `TypeOK` and `CapturedIsKept`;
* `Refinement`: `UploadQueue` implements `RevisionHistory`;
* `HeadsGrow`: the action property `HeadOnlyGrows`, for `Reverts = FALSE` (files only
  grow). With `Reverts` it is false, and intended to be: see the module above;
* `NeverAgainstItself`: `NoSelfConflict`, for one device (`\A c, d \in Producer : c = d`)
  and any number of sessions, versions and requests, also with `Reverts`.

Its invariant `IInv` has a client's and a server's half.

* `QueueInv` speaks of every row a client *holds*, in the table or in its flush:
  the row belongs to the client (`OwnRows`), its key names a version of the
  file no later than the present one, and at the present version the row carries
  the present content (`RowContent`); rows with one key carry one content
  (`SameContent`). The flush works on rows it read earlier, so a statement about
  the table alone would not be preserved. `HeldStep` is the core: every step but a capture
  only passes rows on.
* `StoreInv`: every receipt, and every durable answer that a flush has received
  but not yet written down, is about a stored revision.

`CapturedIsKept` then survives an acknowledgement because the row that is deleted has the
content of the row that was answered, and that content is stored. `HighestExists` shows that
the row chosen by `Expected` exists; it rests on the well-foundedness of the natural
numbers, not on induction.

`HeadsGrow` needs a second invariant, `Grown`. A head is replaced by a revision whose row
expected that head, so it is enough that every row and every request on the way
*extends the head it expects*. That head comes from an older row of the same session
(whose content is a beginning of the file, since files grow), from the last acknowledged
revision (of the same file), or from a reconciliation (which compares the staged file with
the head). A stale request can still commit later; by then either its expectation
no longer fits, or its revision is stored already and the head stays. The lemmas about
prefixes state that `IsPrefix` is an order that appending respects.

`NeverAgainstItself` rests on a third invariant, `Alone`, which follows a single
session through the queue. Every row but the first expects what its predecessor carries
(`Chained`); what a flush or a request on the way holds is a first row or was answered
already (`FlushHolds`, `NetHolds`); receipts are about what precedes the queue, or about
its first row whose acknowledgement was lost (`ReceiptsPast`). So as long as the
revisions of the session grow (`Steady`), the head is the last one that was answered,
and the first row, if it was not answered, expects it (`HeadHolds`). The head that a
reconciliation fetched may be stale only if the first row was answered since. With a
second device none of this holds, and conflicts are intended.

### Replicas

`ReplicaGenerations_proofs` proves, for any snapshots and epochs, any workers and readers
and any number of faults, from `EpochAssumption`:

* `ReadersNeverGoBack`: the action property `NeverBackward` (while the power stays on, CURRENT
  never goes back to an earlier epoch), whatever dies or was lost before;
* `GenerationsAreWhole`: the invariant `Wholeness`, and `StoreIsImplemented`: the refinement
  of `PinnedStore` (`ImplementsStore`), both under `NoLossAfterDeath`;
* `OneFaultIsHarmless`: with at most one fault both hold without that hypothesis.

The invariant has three layers. `Always` is what no fault breaks: flock excludes
(`OneHolder`), what was compared at admission stays so until the lock is
released (`StaysAcceptable`), and what an activation reports is no older than anything
CURRENT may fall back to (`Published`). `InMemory` is what the living see: the pruner
works on what nothing protects (`PrunesOthers`), and a reader that has read CURRENT but has no
flock yet relies on CURRENT not moving before it has one (`ReadsCurrent`). `OnDisk`
speaks of what a loss of power would leave: only a generation just placed is
unsynced (`PlacedUnsafe`), only a pointer just replaced can fall back
(`ReplacedUnsafe`), and it falls back to something durable (`FallsBackWell`). It needs
the worker between the two fsyncs to be alive; a dead one leaves a
generation that a retry takes for durable. So `OnDisk` is required only while no worker
has died, and `NoLossAfterDeath` (a loss of power comes before any death) is what
makes that enough.

`Replication_proofs` proves `OutboxInvariant` (`ReplicatedIsServed`) and `RemovedIsConfirmed`
(`ConfirmedBeforeRemoved`), for any receivers and bounds, from `BoundAssumption` and
`NoneAssumption`. The chain is: what is acknowledged, or being removed, is confirmed
(`Receipted`); the sender hears only the answer of the call it made for the
pending snapshot (`Sending`), and a call answers success only of what is confirmed
(`Reported`); the standby serves at least what is confirmed (`Served`). An outage
takes back what is current, never what is confirmed. A call that was given up
goes on; `OneHolder`, the standby's lock, keeps it from undoing a later one.

### Backups, handover and credentials

`BackupCycle_proofs` proves of `BackupCycle`, for two or more repositories, from
`RepositoryAssumption` (at least two repositories, as `backup_cycle` demands; the bounds are
numbers, `MaxCopies` at least 1) and `NoneAssumption`:

* `PendingSnapshotIsKept`: the action property `PendingIsKept`;
* `ReceiptsAreTrue`: the invariant `ReceiptInvariant`, for any number of moved names, under
  `NoNameReturns`: while a backup waits for its receipt, its name does not come back to
  the repository that was identified;
* `OneMoveIsSafe`: `ReceiptInvariant` without that hypothesis if names are moved at most once.
  With two moves it is false (section 3), and TLC finds the behaviour when the run's
  `MaxRepoints` is 2.

A run works on three copies of the truth,
its memory, its saved state and the repositories, and may die between any two writes.
So `IInv` says how far they may differ: memory equals the saved state, except
before `verify`, where it may be a fresh state for the pending snapshot (`InMemory`); each
saved receipt is of the saved snapshot and its backup exists (`Truthful`); a run without a
failure has receipts of distinct backups from all repositories it is done with
(`DoneHaveReceipts`), and the one it is at is new (`OneAtATime`). That two repository names
resolve to one identity is what `OneAtATime` has to exclude.

`IInv` holds whatever is moved, and gives everything but the place of a backup. That is `Homes`:
a receipt's backup is in the repository it names, and a backup that waits for the comparison
is there *if the name leads there now*. A move away keeps this, and makes the comparison
fail; only a return breaks it. `Settled` (before the first move a name means what it meant
when it was identified) shows that a single move is never a return.

Of `Handover`, for any writers, commits and faults, from `HandoverAssumption` (the bounds are
numbers) and `AbsentAssumption` (`Absent` is no publication and no directory):

* `PreparedIsWhole`: what bears the name of the new primary is complete
  (`ReplacementIsWhole`), whatever fails;
* `HandoverIsSafe`: `HandoverInvariant`, which contains that a fence that returned a receipt
  holds and that the replacement loses nothing of the fenced publication, under
  `NoLossAfterLostFence`;
* `OneFaultKeepsTheFence`: with at most one fault, without hypothesis.

`HandoverAlways` holds whatever fails: the fence is alone while it reads and marks
(`FencesAlone`); from the moment the marker has its name nobody commits, since whoever
gets the lease afterwards finds it (`MarkerEnds`); names are given to what was
verified and synced (`Verified`). `FencedIsMarked` says that a receipt stands for a marker. Only a loss of
power can take the marker back, if it was not synced: by the fence in progress,
which has not answered, or by one that died, whose repetition answers at once.
`NoLossAfterLostFence` excludes the second.

Of `Credentials`, for any devices, tokens and faults, from `CredentialAssumption` (at least
one edit; the bound on faults is a number) and `UnsetAssumption` (`Unset` is no
registry, call or receipt):

* `RevokedForGood`: `CredentialInvariant`, under `NoLossAfterDeadEdit`: the standby holds what
  the receipt names, and accepts no token again that was reported revoked;
* `OneFaultRevokesForGood`: with at most one fault, without hypothesis.

That a revoked token stays revoked relates what was printed at one time to
revisions that arrive at another, from calls long given up. `CredentialIInv` therefore speaks of
everything that ever left the authority (`Abroad`: calls, the run, receipts, the standby's
file and what a loss of power leaves of it):

* `OnePast`: each of these is in the authority's past, so two of them with one epoch are
  one revision;
* `PromisesHeld`, `ReceiptsForward`: the standby's file, also after a loss of power, is no older
  than the revision it acknowledged, and receipts and runs do not go back;
* `RevokedAreGone`: no revision from the acknowledged one on has a token that was
  reported revoked. A late call is harmless because the receiver refuses what is older.

`Recoverable` is what `OnePast` needs of the authority's file: a loss of power takes
back at most the edit in progress, or the step to a versioned registry, which nobody has
seen. It fails when a process died
between replacing and syncing the file, the revision was sent, and then the
power goes: the next edit gives the same epoch to another revision.
`NoLossAfterDeadEdit` excludes that one loss of power.

### Offload and verification

`ClientOffload_proofs` proves `OffloadInvariant` (`OffloadIsSafe`) and `RemovedIsRestorable`
(`RemovedFilesAreRestorable`), for any files, repositories, appends and faults, from
`LegacyAssumption` and `BoundAssumption`. `IInv` follows one apply: the job it polls is its
own and restores exactly what is still to be removed (`JobProves`); a proof that has
not expired covers that from every repository (`StillProved`); and since the last
comparison the file is what the plan wants or was appended to (`Compared`). `overtaken`
marks the append in the instant between the last look and the unlink, which the code cannot
exclude; without that disjunct `Compared` is false.

`VerificationJobs_proofs` proves `JobsInvariant` (`JobsAreSafe`) and `RestoreIsUndisturbed`
(`RestoresAreUndisturbed`), for any handlers, jobs and repositories, from `BoundAssumption`.
The lock is one open description that server, child and restic share by
inheritance. `Held` says who has it open, `Exclusive` that those who have it belong to one
handler or one job; a restic whose parents died still counts. `SweptIsClean` and
`IntentFirst` carry `ScratchIsNamed`: a child records the directories it is about to make before
it makes them, and a handler prunes or writes records only when its sweep left no scratch.
`RestoreIsUndisturbed` denies a handler's sweep by name (`~SweepScratch`) for every job of
which a child *or* a restic is at work: `RestoresAlone` says that no handler is at a sweep then.

### Semantic search

`SemanticIndex_proofs` proves `ScoresMatchTheSnapshot` (`ScoresAreExact`) and
`CoverageCountsTheIndexed` (`CoverageIsExact`), for any finite set of events, any chunks, rows,
segment size and faults (deaths of the builder, segments written to or decayed, edited
manifests, maintenance by hand), from `IndexAssumption` and `SegmentAssumption` (a segment holds at
least one row, bounds are numbers).

* `Lists` is the statement about a manifest: as long as the epoch has not moved, its
  segments hold exactly the rows of the table up to its watermark. `AnchorIsTrue` and
  `BuildIsTrue` say it of the anchored manifest and of the one being built (with the
  segments still to be written). It is stable because the table grows above the
  watermark only, and everything else moves the epoch.
* `SearchIsTrue` says it of the snapshot a search has opened: what it has read, what is left
  to read and what it read of damaged segments are the snapshot's rows. That the
  directory changes meanwhile does not matter: a segment is named by its content.
* `Noticed`: what the server vouches for, and the segment it is about to map, is whole or was
  damaged after its last look. This is the price of verifying once per stat, and the
  reason why `ScoresAreExact` has an exception.
* `CountIsTrue`: a count stays the number of indexed events until a publication or
  maintenance intervenes, and those leave a trace that the recording reads.

`MaxRowIsLast` (a bounded set of row numbers has a largest) rests on the well-foundedness of
the natural numbers, `PlanLists` on it: planning appends rows above the old watermark.

`InferenceIsSafe` is the invariant of run `inference`, for any finite set of threads
and any slots, texts and faults, from `InferenceAssumption` (the set of threads is
finite, `Nothing` is neither a thread nor a text, the bounds are numbers).
`InferenceIInv` adds

* `SpeakersLock`: between the lock and its release only the holder speaks to the
  worker (`local_worker.py` 78-121);
* `WaitsForOwn` and `SendsAlone`: whoever waits, waits for the text in `pending`, and
  whoever is about to send finds nothing outstanding. This is what a late answer would
  break: the next holder has to collect it first (lines 89-102);
* `HasWorker` and `NoPipe`: stopping the worker empties the pipe together with what the
  embedder believes of it, and nobody else is past its check then;
* `Slotted`: the number of busy threads, by `FiniteSetTheorems`, changes with
  `Admit` and `Complete` alone.

## 5. What is only model-checked, and what is not modelled

Every safety property of the runs, invariant or action property, is stated by a theorem
of section 4, as are the three refinements. Liveness under fairness is out of the
prover's reach and is checked on the instances above:
`NoLockout`, `UploadCompletes`, `QueueDrains`, `NewestArrives`, `CatchesUpUnlessTorn`,
`PendingCompletes`, `JobsAreAnswered`, `EverythingLeaves`, `IndexCatchesUp`,
`StandbyConverges` and `InferenceRecovers`.

`ReceiptInvariant` with more than one moved name is proved under `NoNameReturns` alone. Under
more than one fault, `Wholeness` and `ImplementsStore`, `HandoverInvariant` and
`CredentialInvariant` are proved under the hypotheses that section 4 explains and are
false without them; the runs check them with one fault.

Left out of modelled components: age limits, dry run and scan limit of the
expiry; legacy bootstrap, compaction and the collection of staged chunks of the
queue; evidence rows of ingestion; `backup_all`; several embedding identities,
the eviction of verified segments from the `lru_cache` beyond 2048 entries (one looks again
then) and the ranking of hybrid searches; writers of
older versions, which ignore the fence; token files and JSON shapes of the
registries; the shutdown of the inference worker.

Not modelled, on purpose: parsers, redaction, ranking, snippets, output formatting
and argument handling (functions of text or read-only queries); embedding
vectors (numeric); SQLite itself (a transaction is one action); TLS, HTTP
framing and authentication of requests. The search pool, incremental parsing and remote
capture are planned.

## 6. Plan

1. `ClientStaging`: staging of raw objects against their removal after an
   acknowledgement and the pruning of chunks (`capture/queue.py` 160-222, 337). Property: a
   queued row can always be sent.
2. `Checkpoints` (`capture/incremental.py`): a resumed parser equals one that started
   over, whatever was appended or rewritten.
3. `SearchPool`: the slots of `interfaces/server.py`, in the way of `LocalInference`.
