# A TLA+ model of WiredTiger 11.1.0

This directory holds TLA+ specifications of the concurrent core of the WiredTiger storage
engine (`wiredtiger-11.1.0/wiredtiger-11.1.0/src`), the TLC configurations that
model-check them, and proofs checked by TLAPS. Paths below are relative to that `src`
directory. `PROJECT.json` lists components, runs, mutants, the source line of every
definition, findings, hazards and theorems.

## 1. The system

WiredTiger is an embedded, multi-version storage engine. Many application threads, each
with a session, work on shared in-memory structures, mostly without locks; internal
threads evict pages, write checkpoints and move the log forward.

| component | state | operations | what is hard |
|---|---|---|---|
| read/write lock (`support/mtx_rw.c`) | one 64-bit word: current, next, reader, readers_queued, readers_active | lock, try, unlock for readers and writers | byte-sized tickets that wrap; whole queues activated in one swap; fairness |
| global transaction table (`txn/txn.c`, `include/txn_inline.h`) | current, oldest_id, last_running, metadata_pinned; per session id, pinned_id, metadata_pinned, is_allocating; the checkpoint's own entry | take and release snapshots, allocate ids, begin, commit, prepare, roll back, update the oldest id | the table is written without the lock that readers of the table hold |
| timestamps (`txn/txn_timestamp.c`) | oldest, stable, pinned, durable; per session read and durable timestamps | set, query, publish, clear | the order in which a commit leaves the table and its timestamps |
| update chains and visibility (`include/txn_inline.h`, `btree/*_modify.c`, `history`) | a list of versions per key, prepared states, the history store | read, modify, resolve prepared updates | readers see a chain change under them |
| checkpoint (`txn/txn_ckpt.c`) | the checkpoint's transaction, dirty trees, metadata, checkpoint timestamp | prepare, write trees, release, sync, commit, fail | runs beside everything else; any step may fail |
| recovery and rollback to stable (`txn/txn_recover.c`, `txn/txn_rollback_to_stable.c`) | log, checkpoints, metadata | replay, roll back | a crash at any point |
| log (`log/log_slot.c`, `log/log.c`, `conn/conn_log.c`) | slot pool, slot states, LSNs | join, copy, release, close, switch, write, sync | consolidation: many sessions fill one buffer; slots are written out of order |
| hazard pointers and eviction (`support/hazard.c`, `evict`, `btree/bt_read.c`) | per-session hazard arrays, page reference states | pin, release, lock, check, discard | lock-free handshake between readers and the evicting thread |
| generations (`support/generation.c`) | global and per-session generations, stashed memory | enter, leave, advance, drain | a session that enters while another drains |
| block manager (`block/block_ext.c`, `block/block_ckpt.c`) | extent lists: alloc, avail, discard, for live and stored checkpoints | allocate, free, checkpoint, delete, resolve | space is reused only when no durable checkpoint refers to it |

They interact through calls and shared memory: every transactional operation uses the
transaction table, which relies on the read/write lock; eviction and reconciliation ask
the table which versions everybody sees; a checkpoint is a transaction whose entry leaves
the table; commits use the log; recovery uses log, metadata and checkpoints.

What makes each part correct:
* lock: a writer is alone; nobody who has a ticket waits forever;
* table: a snapshot never shows a running transaction; whatever is older than the oldest
  id is visible to everybody, so older versions may be discarded; the checkpoint's
  versions are kept although it is not in the table; operations end;
* timestamps: oldest is never after stable; all_durable never passes a transaction that may
  still fail; history a reader or a checkpoint needs is not given up; a checkpoint holds
  what committed up to its timestamp;
* chains: a read returns the version its snapshot and timestamp call for, no committed update is
  overwritten unseen, and what somebody may still read is not freed;
* log: `write_lsn` only covers written slots, and covers them all eventually; a record
  that was reported durable is recovered;
* hazard pointers: no page is discarded while somebody uses it;
* generations: memory is freed only when nobody can still refer to it;
* blocks: the lists partition the file; no block of a durable checkpoint is overwritten; whenever the
  machine stops, the turtle file leads to a complete checkpoint.

## 2. Modules

| module | models | built on |
|---|---|---|
| `RwlockSpec` | what the lock promises: readers share, a writer is alone | |
| `Rwlock` | `support/mtx_rw.c`, one action per atomic access to the lock word | refines `RwlockSpec` |
| `RwlockProofs` | proofs about `Rwlock` | `Rwlock` |
| `TxnGlobal` | the transaction table (`txn/txn.c`, `include/txn_inline.h`), the checkpoint's transaction (`txn/txn_ckpt.c`), eviction's snapshots and questions | takes its lock from `RwlockSpec` |
| `TxnGlobalProofs` | proofs about `TxnGlobal` | `TxnGlobal` |
| `MCTxnGlobal` | isolation levels and sweep flags of the instances | `TxnGlobal` |
| `Timestamp` | `txn/txn_timestamp.c`, and what commit, release and a checkpoint's start do to timestamps | |
| `TimestampProofs` | proofs about `Timestamp` | `Timestamp` |
| `Mvcc` | update chains: visibility and conflicts (`include/txn_inline.h`), writing and truncating (`btree/row_modify.c`, `include/serial_inline.h`), commit, prepare, rollback | |
| `MvccProofs` | proofs about `Mvcc` | `Mvcc` |
| `Generation` | `support/generation.c` for one resource: enter, leave, advance, drain, oldest, and the store buffer | |
| `GenStash` | memory retired with a generation, and its users: hazard arrays (`hazard_grow`) and page indexes (`__split_root`, `__split_parent`, `__split_internal`) | `Generation` |
| `GenStashProofs` | proofs about `GenStash` | `GenStash` |
| `GenDrain` | a tree's checkpoint (`__wt_sync_file`) against eviction of its dirty pages | `Generation` |
| `GenDrainProofs` | proofs about `GenDrain` | `GenDrain` |
| `Hazard` | hazard pointers (`support/hazard.c`) against eviction (`evict/evict_page.c`) and page reads (`__page_read`) | |
| `HazardProofs` | proofs about `Hazard` | `Hazard` |
| `LogSlot` | the log's slots, files, LSNs and server threads (`log/log_slot.c`, `log/log.c`, `conn/conn_log.c`) | |
| `MCLogSlot` | which writers use which sync modes | `LogSlot` |
| `Block` | the block manager (`block/block_ext.c`, `block/block_ckpt.c`), the pages that use it, the turtle file and crashes | |
| `BlockProofs` | proofs about `Block` | `Block` |

A mutant of a definition stands just before it, under a comment "Mutant"; no specification
uses it. `PROJECT.json` says which property each one breaks.

### Rwlock
The five fields of the lock word are five variables; `pc` and `ticket` are each thread's place
and the ticket it holds. An action reads the word and swaps in a new one, because the
code's compare-and-swap fails and retries if the word changed in between. `Tickets` stands
for 256, the range of a byte; `ActiveMax` for the limit of the 32-bit count of readers.
`WritersActive` keeps the code's arithmetic: the difference of two bytes without a cast back
to a byte, negative once `next` has wrapped and `current` has not, so that new readers then
wait outside an empty queue. Such a reader has no place in the queue and nothing is promised
to it. One more reader than there are writers may queue, since the code tests `>`
(`mtx_rw.c:212`) where its comment (`mtx_rw.c:77`) excludes that.

### TxnGlobal
`current`, `oldest_id`, `last_running`, `metadata_pinned`, `ckpt` and `shared` are the fields of
`WT_TXN_GLOBAL`; `txn` is each session's `WT_TXN`; `readers`/`writers` the owners of the table's
lock; `scan` and `prev` are the locals of the walks and of `__wt_txn_update_oldest`; `claimed` is
history: the largest value `__wt_txn_oldest_id` has returned. A read-uncommitted operation pins the oldest id without
the lock, so a sweep that is already walking may not see the pin; `ceiling` is history, how far such a
sweep could still move the oldest id when the pin was published (`Reach`), and the pin holds beyond that. A session's operation is a
sequence of steps, one for each access to a shared word that another session can tell apart:
* `GetSnapshot`, `SnapLock`, `SnapCheckpoint`, then per slot `SnapReadId` and `SnapReread`, then
  `SnapPublish`: `__txn_get_snapshot_int`, with the fast path by commit generation;
* `Allocate`, `AllocPublish`, `AllocAdd`, `AllocPublishId`, `AllocEnd`: `__wt_txn_id_alloc`;
* `Commit`, `CommitRelease`/`CommitFail`, `Rollback`, `ReleaseSnapshot`, `GenNext`, `Prepare`,
  `PrepareRemoveId`: the end of a transaction;
* `UpdateOldest`, `SweepReadLock`, per slot `ScanReadId`, `ScanReread`, `ScanPinned`, then
  `SweepDecide`, `SweepWriteLock`, the walk again, `SweepUpdate`; or `SweepBusy`;
* `OldestIdRead`, `OldestIdCheckpoint`: `__wt_txn_oldest_id`; `EvictSnapshot`, `EvictReleaseSnapshot`:
  the snapshot an eviction thread takes for reconciliation and gives up after it;
* `CkptBegin`, `CkptAllocate`, `CkptShare`, `CkptBump`, `CkptReleaseSnapshot`, `CkptFail`.

Merged into one step, because nobody can see the state in between: the allocating flag and the
id read after it when the flag is clear; publishing a pinned id and giving the shared lock up
(a sweep needs the lock exclusively); clearing the two pins of a released snapshot (either
order only delays the sweep); setting the allocating flag and reading `current`.

A snapshot's walk is not atomic: commits clear their slots while it passes. A snapshot may
thus show a transaction and not another that committed before it. It is no state of one
moment, as `docs/arch-snapshot.dox:27` has it; what holds is `SnapshotExcludesRunning`.

### Timestamp
`oldest`, `stable`, `durable`, `pinned`, `oldest_is_pinned` and `ckpt_ts` are the global timestamps (0 is
`WT_TS_NONE` and stands for the `has_...` flags), `read_ts`, `pinned_durable` and `table` the sessions' shared
entries. A commit is `SetCommitTimestamp`, `PublishTimestamp`, `Commit`, `ClearDurable`, `GenNext`, `MoveDurable`;
a prepared one goes through `Prepare`, `CommitPrepared`, `Resolve` and ends with `VerifyStable`. The walks of
`__txn_global_query_timestamp` (`QueryWalk`) and of the pinned timestamp (`ScanReader`) visit one session per
step, with the lock held for reading; a thread that wants it for writing waits (`Unlocked`). Setting the global
timestamps is a check under the lock for reading (`SetGlobal`), the store under the lock for writing (`StoreGlobal`)
and the update of the pinned timestamp (`UpdatePinned` to `Pin`). The second walk of `Pin` only keeps the pinned
timestamp as far forward as it can be: the first walk's result would be safe too, since whoever starts to read
later does so at or after `oldest`. A snapshot is one step here and the set of ids it shows; its steps are
those of `TxnGlobal`.

The application's side is what the documentation asks of it: commit timestamps are given in increasing
order, each published before the next is given, and stable is only moved to where all_durable was
answered to be. `given`, `over`, `answer` and `claimed` are history for the properties. The loop that moves the durable
timestamp is a maximum. Left out: force, the durable timestamp as an argument, rounding of prepared
timestamps, several commit timestamps in a transaction, commits without one, version cursors, the
other queries.

### Mvcc
`upd` holds all updates ever linked (the index is the address), `chain` the lists of the keys, newest first. A
walk of a chain (`PrepareState`, `CheckVisible`, `Recheck`) reads the prepare state, the transaction and timestamp, and
the prepare state again, in steps of their own, as `__wt_txn_upd_visible_type` does; `ReadNext` is what a read does
with the answer, `ModifyNext` what the conflict check of a write does. `Serial` is the compare-and-swap of the
chain's head, `Scan` and `Truncate` the search for updates nobody needs and their unlinking; a session that
does not get the page's lock skips these. `ResolveLock`, `ResolveStamp` and `ResolveEnd` are the three stores with which
a prepared update becomes a committed one. Every key has a value on the page below its chain.

A snapshot is one step; the oldest id is taken as far forward as the sessions allow at every moment, and the
pinned timestamp may move anywhere it is allowed to be: both are at least as bad for readers as what `TxnGlobal`
and `Timestamp` do. Stamping all updates of a commit or a prepare is one step, because the transaction's id
is in the table until afterwards and nobody can see them. Each key's commit timestamps are in order, which the code asks of applications (`txn.c:1143`). Left out:
tombstones, inserts of new keys, the history store, eviction and reconciliation, fast truncation, column stores,
logged tables, `ignore_prepare`, other isolation levels, durable timestamps other than the commit's, commits
without timestamps, and the throttling of searches in long chains (`obsolete_check_txn`).

### Generation, GenStash, GenDrain
`gen` is `conn->generations[which]`, `sgen[s]` session s's entry as the others see it, `buf[s]` a store
of it that the processor still delays. With `StoreBuffers`, the store of an entering session
waits in the buffer for a while: `WT_WRITE_BARRIER` (`sfence`, `dmb ishst`) does not order it
before later loads. Atomic increments and full barriers wait for an empty buffer. At most one
store waits at a time; the entry a session re-stores when the generation moved finds the
buffer empty. All sessions are active: opening and closing sessions is left out.

In `GenStash`, objects are numbered as they are allocated; `ptr` says which one each cell
(a session's array, or the index of one page) refers to, `held` which one a reader uses, `old` which
one is unlinked but not yet stashed, `stash` the lists of retired objects. The stash's list
keeps freed entries for a while, with a null pointer (`generation.c:397`, `421`); the model
drops them at once. `style`, which is chosen at the start of a behaviour, is the order of the two users: `hazard_grow` advances the
generation and stashes with the new value; a split reads the generation, stashes with it and
advances afterwards, being itself inside the generation. `exposed` is history: the sessions that
read the object they are using while their own store was still delayed. The write barrier allows that, and nothing
protects what they read (section 5); `ProtectedKept` speaks of all other sessions and of what the cells refer to. A failed `__wt_stash_add` leaks the
object, on purpose, and is left out.

In `GenDrain`, `syncing` and `syncer` are `btree->syncing` and `btree->sync_session`; `evicting[s]` the trees
of which session s evicts a dirty page. Eviction can call itself for a page of another
tree (the history store) without entering the generation again, so this is a set. `flush_lock` is the
guard `syncer[b] = 0`.

### Hazard
`state` and `inMemory` are a page's `WT_REF` state and whether `ref->page` is valid; `arrays[s]` all arrays
session s has had, the last one current; `inuse`, `nhazard` the session's counts; `uses` how often
the session relies on each page; `walk` where an evicting session is in the others' arrays. The
test and the compare-and-swap of a page's state are one step. Old arrays stay readable:
`GenStash` says when (`ProtectedKept`; section 5 says when not). `stranded` is history: the pages that a failure of
`__wt_curhs_cache` left locked (`CursorFailed`, section 5). A page that an in-memory split replaces, deleted pages and
the closing of a tree are left out.

### LogSlot
A slot's state word is kept as its parts: the state, the bytes joined and the bytes released, with the
flag for an unbuffered record as a number above all sizes (`Unbuffered`, 4 times the buffer's size). LSNs are file and
offset. A write is `Write`, `Join`, `LoadFlags`, `StoreFlags`, `SetUnbuffered`, `Copy`, then `Release` to `Sync` by the last one to
release a closed slot, and `Wait` if it must see its record written or synced; a switch is `Close`, `CloseEnd`, `NewSlot`
with `NewWait`, `NewWork`, `NewFile`, `NewFileReady`. Setting flags is a load and a store. The server threads are
`ForceServer` (`__log_server`), `WrStart` to `WrEnd` (`__wt_log_wrlsn`) and `FileClose`, `FileSync` (`__log_file_server`). `recs`, `done`,
`written` and `disk` are history: the records, those whose write returned, and the bytes in files and on disk.

A thread that waits for `log_close_fh` with the slot lock does the work of the server that moves `write_lsn`
and then gives the lock up and takes it again. In the code this happens by an error return after some 5000
rounds, because the test `++yield_cnt % WT_THOUSAND == 0` of `log.c:1204-1208` increments twice per round
and is never true at the other place. Left out: `log_dirty_max`, the sync of the directory, errors (they panic),
opening and closing, older log versions, removing and preallocating files, timeouts of condition waits.

### Block
All blocks have one size, so that an extent list is a set of block numbers. `live` is the live checkpoint with its
alloc, avail, discard and ckpt_avail lists; `list` the checkpoints of the file, each with its root, the pages below it, its
lists and where they are written; `unsynced` the blocks written since the last flush. Pages are modified, evicted (`EvictReview`,
`EvictWrite`, `EvictFree`) and written by a checkpoint: `Start`, `Drained`, `WalkPage`, `WalkRoot`, `Process` with `WriteLists`, `Sync`,
`TurtleSet`, `TurtleSync`, `TurtleRename`, `DirectorySync`, `Resolve`, or `Fail`. A checkpoint may delete any subset of the earlier
ones. `turtles` are the turtle files a crash may leave, `setfile` the state of the file it is written to first. `Crash` is one of
the machine: writes that were not flushed are lost, and the next start loads the last checkpoint (`Load`).

In the code the turtle file holds the metadata file's checkpoints and the metadata file those of all others,
in the same order of writes (`txn_ckpt.c:1285`, `1336`, `1408`); here the turtle file holds the list. A failure after
`__ckpt_process` has begun panics and is a crash. Left out: extents of several blocks, out of memory, fake
checkpoints, salvage, compaction, incremental backup, tiered objects. `meta_turtle.c:491` says a left-over setup file
does no harm, while line 707 creates it exclusively; that none is left over is part of `TurtleUsable`.

## 3. Runs

| run | instance | states | shows |
|---|---|---|---|
| `rwlock` | 5 threads, 4 tickets | 166 thousand | the proof's invariant `IInv`; the refinement of `RwlockSpec`; queued readers and ticketed writers are served |
| `txn_checkpoint` | a user that sweeps, a checkpoint, a session that asks; forced and unforced sweeps; ids up to 3 | 3.4 million | snapshots show nobody running; the oldest id passes neither a published snapshot nor a running transaction, and the metadata's own pin holds; what anybody was told is visible to all is visible to the checkpoint |
| `txn_live` | a session that reads uncommitted; one that runs and prepares snapshot transactions, sweeps, reconciles and checkpoints | 129 thousand | the pin of a read-uncommitted operation holds, although it is published without the lock, against all but the one sweep that may be walking at that time; every operation ends |
| `timestamp` | two writers, one preparing, a reader, a checkpoint, two threads that set the global timestamps, up to timestamp 3 | 1.9 million | oldest stays at or before stable; no history is given up that a reader or a checkpoint needs; all_durable includes only transactions that have ended |
| `ckpt_stable` | two writers, a thread that sets stable, a checkpoint | violation | a checkpoint misses an update at or before its timestamp |
| `mvcc` | one session writes and prepares full values; one reads, modifies and reserves; 3 updates of a key, 3 ids | 2.8 million | reads return the right version, built on the right base; nothing needed is freed; no update is lost |
| `gen_stash` | 3 readers, 2 of them replace; hazard arrays and page indexes; delayed stores | 3.9 million | nothing that was read with the reader's generation visible is freed while it is used, nor anything still linked; every object is in exactly one place: none lost, none freed twice |
| `gen_drain` | 2 evicting, 2 checkpointing sessions, 2 trees, delayed stores | 276 thousand | mutual exclusion; the drain ends |
| `hazard` | 2 sessions, 2 pages, arrays that grow from 1 slot | 399 thousand | no page is discarded in use; counts agree and walks stay in the array; every locked page is unlocked, whatever fails, but for the one failure of section 5 |
| `log_slot` | a writer that syncs, one that does not or writes a checkpoint's record, flushes and a backup; records smaller and larger than a buffer; 3 slots | 3.6 million | `write_lsn` covers only written records; positions neither overlap nor leave gaps; closed files are on disk; a flush writes what was written before it; no LSN goes back |
| `log_live` | a writer that flushes, one that does not; files of 3 records, 4 slots | 141 thousand | every record is written in the end; every write returns, as long as one writer sets flags (section 5, `log_slot.c:689-694`) |
| `block` | a page, 11 blocks, 2 checkpoints kept, 4 made | 929 thousand | after a crash at any step all that the turtle file leads to is whole and on disk; no block of a checkpoint is reused; every block is in one place; sizes are exact |

Bounds. `MaxId`, `MaxGen`, `MaxObjects`, `MaxHazards`, `MaxTs`, `MaxUpd`, `MaxRead`, `MaxRecords`, `MaxFiles`, `MaxBlock`, `MaxKept` and
`MaxMade` stop unbounded counters in the guards of the steps that increase them. They are enough for the cases
that matter: tickets wrap several times and all are taken at once; three ids let one transaction finish, a
second run and a third start during one walk or sweep; three or four generations let an object be
stashed, the generation advance, and a session enter before and after; with one index, three arrays and `MaxObjects` 6 two objects are replaced,
by one session, so that a stash is freed in part, or by two; two references and one initial
slot make arrays grow, be reset and be searched for a hole; with timestamps 1 to 3 and all global ones at 1 there is
one running and one committed transaction above stable and a reader below; three updates make a chain
with a full value, a modification of it and one more in any state; with records of 1 and 3 bytes and buffers of 2, slots are
filled, overtaken by unbuffered records and switched with others joining; two files are enough for a
switch, a close and a sync behind it; four checkpoints of which two are kept are made, deleted from the middle and
the end, merged and reused, with eleven blocks so that the file is extended and truncated. `Mvcc` was also run with two keys and with
both sessions writing full values, at other bounds. The names of sessions matter (walks visit them in order), so
no symmetry is used for them.

Deadlock is checked except where the bounds stop the model or the system really may stop: `hazard` (when all pages
are `stranded`, section 5), `log_slot` and `log_live` (all records written), `block` (no blocks or
checkpoints left), `timestamp`, `ckpt_stable` and `mvcc` (no ids, timestamps or updates left, or a session that panicked).

Fairness. Threads are scheduled: a session that is in the middle of an operation and can go on
does so (weak fairness of the steps that continue an operation). Nothing makes a session begin
anything. These have more. A session waiting for the table's lock exclusively
(`SweepWriteLock`, `CkptShare`) holds a ticket, behind which no new reader gets in: `rwlock` checks
that with a ticket the lock is obtained under weak fairness alone. An eviction ends
(`LeaveEvict`): the model lets a session review page after page, while in the code one call
evicts one page and the pages it needs for that. In `LogSlot` a thread that wants the slot lock gets it at
some time when it is free again and again (strong fairness of each thread's `Continue`): a spin lock's
waiters are not starved for ever. The server threads run periodically, hence weak fairness of `ForceServer`, `FileClose` and
`FileSync`.

## 4. Proofs

TLAPS checks these for every value of the constants that satisfies the named assumptions.

`RwlockProofs`. `LockInvariant`: `Spec => []IInv`, for any finite set of threads, any number of tickets.
`IInv` says that the counters are the numbers of threads that believe to be queued or active
(`CountsExact`), that a queued reader's ticket is the common one and not yet served (`QueueTicket`), that
tickets given to writers are distinct and lie between the served and the next one
(`TicketsDistinct`), and that a thread that owns the lock for writing has the served ticket with no
reader active (`WriterServed`). Mutual exclusion alone is not inductive: whether a writer is
alone after the next unlock depends on tickets in the queue, and whether these are distinct on
how far the counters have wrapped, which is why tickets are compared by their distance
from `current`. `LockImplements`: every step is a step of `RwlockSpec` or leaves the owners alone.

`TxnGlobalProofs`. For any number of sessions in any roles, any isolation levels, any bound on the ids:
`TableTypes`, `SnapshotsExcludeRunning`, `RunningNeverPassed`, `OldestVisibleToAll` (`GloballyVisible`),
`CheckpointsKeepVersions`, `UncommittedPinsHold`. They all follow from one invariant, `TableInv`. None is inductive by
itself: a walk reads one slot at a time while sessions allocate and give up ids, so what it will
conclude depends on what it has read and what it has still to read. The argument:
* `SlotInv`: an id that a transaction owns and has not given up is in its slot, or the slot is flagged as
  allocating and holds an id that is not larger. This is what the order of the stores in
  `__wt_txn_id_alloc` is for;
* `SnapInv`: a snapshot's walk that has passed a slot has the slot's id in its list, or the id was handed out
  after the walk read the current id and is not visible for that reason;
* `WriteInv`: a sweep that is going to store its result has values not larger than the ids and pins of the slots
  it has passed;
* the lock (`LockInv`): while a snapshot is built neither the oldest id nor the checkpoint's entry changes,
  and while a sweep walks to store its result no snapshot is published;
* `PubInv`: the oldest id is at or below what a published snapshot pins, and the ids that the snapshot hides are at or above
  it, but for a checkpoint's id, which the session's metadata pin holds. `CkptOf` says the same of the
  checkpoint's entry, which replaces its owner's slot, `PinInv` of read-uncommitted operations;
* `RunInv`, `ExclInv`: no id of an active transaction is below the oldest or the last running id, shown by
  somebody's snapshot, or shared by two sessions.

`TimestampProofs`. `TimestampTypes`; and if the global timestamps have been set once (`Start # NONE`),
`OldestStaysBeforeStable`, `HistoryAlwaysKept`, `AllDurableOnlyEnded`, for any sessions, timestamps and ids. The
hypothesis is needed: the first time, oldest and stable can be set out of order (section 5,
`txn_timestamp.c:410`). For the order, `SetInOrder` says that what a setter has found in order, and not
stored yet, stays in order with what the others store meanwhile, as the global timestamps only grow, and `ClaimsPinned` that
what somebody was told is pinned is at or before the pinned timestamp. For all_durable, `Published` says that a
transaction that may still fail shows its timestamp, or is about to with no later one given, and
`QueryBelow` that a query in progress is below the timestamps of those that it has passed.

`HazardProofs`. `HazardTypes`, `NoPageEverLost`, `CountsAlwaysAgree`, for any number of sessions, pages and
slots. `WalkInv` is the handshake: the sessions that the evicting session has passed have no confirmed
pointer to the page, and those of the session it looks at are in the part of the array still ahead. A
pointer that is set later is confirmed only if the page is not locked, which it is. `SlotInv` says that a
session's pointers are in the part of the array in use, that they are as many as it has counted, and that
the slot it is about to fill is empty; `LockInv` that one session at a time has a page locked. Arrays that
were replaced are covered because a walk keeps the array it has read and the pointers are copied.

`GenStashProofs`. `StashSafe`: `Spec => []ProtectedKept`, for both users of the stash, with or without delayed stores. The
invariant's core is `Covered`: a session that holds an object someone has retired, and read it with its
generation visible, entered in a generation no younger than the object's, and a scan that has passed that session has
recorded it. It needs `LinkedApart` (what a cell refers to was never retired) and `HeldInside` (whoever holds
an object has stored a generation that the connection has reached, and has none delayed unless it is
exposed). A store is delayed only while a session enters, is inside or has just unlinked an object: the atomic increment or
full barrier before the stash drains it. `ObjectsInOnePlace`: `Spec => []InOnePlace`.
`PlaceInv` says that objects are in at most one place (`Unique`) and at least one (`Kept`), and that a session has
an unlinked object exactly while it is about to stash it, so that no replacer loses one by beginning again.

`GenDrainProofs`. `DrainSafe`: `Spec => []SyncExcludesEviction`, with or without delayed stores. The core is
`NotPassed`: a session that was evicting when the checkpoint was announced is in an older
generation than the one being drained, and the drain has not passed it; it needs that an evicting
session's generation is visible (`Published`), which the full barrier at the end of the hazard
pointer check gives.

`BlockProofs`. For any pages and any bounds. `TurtleAlwaysUsable`: whenever the machine stops, every
turtle file it may find is complete, and the next update can create its setup file. The invariant
`TurtleInv` adds `SetfileFollows`: what the setup file is follows from how far the checkpoint is, so
that only a whole one is ever renamed. `CheckpointsRecoverable`, `CheckpointsNotReused` and `BlocksAccounted`
(`Recoverable`, `NotReusable`, `Accounted`) follow from `BlockInv`. None is inductive: a deletion merges the
extent lists of two checkpoints and frees what is on an alloc list and a discard list of the two, which is right only if those
lists say exactly what each checkpoint reaches. So the invariant looks at a list of checkpoints, with the live system after
them, as a sequence of epochs:
* `Chain`: each block is allocated in one epoch and discarded in at most one, a later one; `ImageExact`: what a checkpoint
  reaches is what was allocated up to its epoch and not discarded, which merging two epochs keeps;
* `Space`: the epochs' blocks, the blocks of the extent lists, the available ones and those about to become so fill the file and are apart;
* `Consistent`: all this holds of the list in every turtle file that a crash may leave, with the live system that `Load` would build from it, not
  only of the list in memory; `Guarded` and `Flushed`: the blocks of those lists are neither available nor allocated anew, and on disk.

`SizesExact` follows from `BytesInv`, which says that the live size is that of the blocks the live tree reaches, and
`BlockTypes` from all three.

`MvccProofs`. For any number of sessions, keys, ids and timestamps: `MvccTypes`, `ReadsAlwaysRight`, `VersionsAlwaysKept`, and of
the steps `NoUpdateLost`. All follow from one invariant, `MvccInv` (`MvccInvariant`). The properties are not inductive because they
are about the end of walks that others work beside. The argument:
* `Ordered`: of two live updates of a key either one transaction wrote both, or the older one is settled (its
  transaction has given up its id and it is not prepared); it has the smaller timestamp, and who sees the newer one sees it. This is first writer wins, and what
  lets a write stop its check at the first update it sees (`CheckedInv`);
* `UpdateInv` with `OwnInv`: what an update looks like follows from how far its transaction is: unstamped while it runs, stamped in one
  step of its own when it commits, locked only while its resolver is between its stores. Without an owner it is settled and has its timestamp;
* `ChainInv`: what is no longer linked is aborted and older than a full value, still linked, that all snapshots show (`Cutter`);
  snapshots taken later show it too (`CutterKept`), so nothing older is asked for again. Hence nobody is below where a chain is cut (`WalkersAbove`);
* `Walk`, `Found`, `BaseInv`, `DoneInv`, `ScanInv`: what a walk has found out: what it has passed it need not see (`Passed`), and what it
  read of an update before the prepare state was read again holds if the state is the same. `OtherStep` says what the others' steps
  have in common: they change only updates the walker does not see or cannot read yet, add updates it does not see, and cut where it sees
  all, so that each of these facts outlives them (`WalkInvOther`).

The invariants of these proofs were checked with TLC on small instances before they were proved. That found one
property false as it had been stated: with three sessions the pin of a read-uncommitted operation can be
passed by a sweep that was walking when the pin was published, hence `ceiling`.

Only model-checked: everything about `LogSlot` (its invariants `TypeOK`, `NoHoles`, `RecordsFill`, `ClosedDurable` and `FlushWritten`,
the action property `LsnsForward`), because their inductive invariant, over slots that are reused while they are being
joined and coalesced, has not been worked out; and all liveness properties (`QueuedServed`, `OperationsEnd`, `DrainEnds`, `LockEnds`, `EverythingWritten`, `WritesReturn`),
which need fairness and are out of the prover's reach.

## 5. Where code and text disagree

`ckpt_stable` shows this one. A commit clears its id (`txn.c:934`) and its durable timestamp (`txn.c:941`) before it
advances the commit generation (`txn.c:2072`). In between all_durable includes it, so that stable may be moved
there and a checkpoint may take that timestamp; the refresh of the checkpoint's snapshot, which the comment of
`txn_ckpt.c:821` says prevents this, is skipped because the generation is still the old one (`txn.c:228-230`),
and the update is not in the checkpoint.

Observed while modelling, without a run of their own:
* `txn/txn.c:927`: `__wt_txn_release` clears the checkpoint's id before it releases the snapshot, and the release
  (`txn.c:148`, called at 953) then does not recognise the checkpoint: after a failed checkpoint its pin holds
  back `__wt_txn_oldest_id` until the next one ends. The comment at 924 promises a cleanup.
* `evict/evict_page.c:93`: if `__wt_curhs_cache` fails, the function returns with the page
  locked (`CursorFailed` in `Hazard`); `include/btmem.h:1051` says the state is reset in all cases. `LockEnds` excepts
  these pages by name (`stranded`): without the disjunct `p \in stranded`, run `hazard` finds it violated. Readers of such
  a page wait for ever and eviction passes it by.
* `support/generation.c:346`: the comment at 341 relies on the published generation not being
  missed by a scan; the barrier is one for stores only (`include/gcc.h:197-200`, `279-282`). Hazard pointers,
  which need the same order, use a full barrier (`support/hazard.c:161`). `ProtectedKept` leaves out the sessions that this exposes.
  Checked on the instance of `gen_stash`, `\A s \in Sessions : held[s] \notin freed` is violated, for both users:
  a session enters, its store waits in the buffer, it loads the pointer; another one replaces the object, advances the generation,
  stashes the object, and a second stash or release scans the table, sees the first session outside and frees what it is
  reading (16 states with hazard arrays). With `StoreBuffers = FALSE` the formula holds.
* `log/log.c:2141`: a synced write that fills a file switches to the next file first and then syncs
  `log->log_fh`, by then the next one's handle, and moves `sync_lsn` to its record's end; compare the comments at
  2948 ("Wait for our writes to reach disk") and 343. `ClosedDurable` does not see this: the bytes claimed are in the
  file that `sync_lsn` is in, and it looks at the files before that one.
* `txn/txn_log.c:701`: a checkpoint's record is written without sync and then forced by
  `__wt_log_force_sync`, which moves `sync_lsn` past records that are still in slot buffers.
* `conn/conn_log.c:773`, `810-812`: slots are coalesced across a change of file by their LSNs alone.
* `log/log_slot.c:689-694`: two joins that set flags at once can lose one, and a writer then waits for a sync nobody does.
  The lost flag is in the model (setting flags is a load and a store) and harmless to the invariants of `log_slot`; the liveness run `log_live`
  has one writer that sets flags and none that syncs, so that `WritesReturn` is claimed for that case only.
* `log/log.c:1291`: `__wt_log_flush` can read `alloc_lsn` between the change of file and the position of its first record (1299).
* `txn/txn_timestamp.c:198`: when no durable timestamp was ever set, `--tmpts` is not evaluated, and all_durable
  is an uncommitted transaction's own timestamp; compare `include/wiredtiger.in:2577`.
* `txn/txn_timestamp.c:410`: while neither is set, two threads that set oldest and stable for the first time both
  pass the check, and oldest may end up after stable; the runs start with both set.
* `txn/txn.c:2104`: a prepared commit panics if stable has been moved past its timestamp after it left the
  table, which an application may do once all_durable says so.
* `txn/txn_timestamp.c:894`: the snapshot taken after a read timestamp is set may be the old one, for
  the reason of `ckpt_stable`.
* `include/txn_inline.h:684`: `__wt_txn_upd_visible_all` reads the prepare state only once. This is harmless: its
  caller that frees looks only below an update it has just linked, where everything is resolved.
* `btree/row_modify.c:446-488`: the updates to free are returned even if the compare-and-swap that unlinks them fails;
  under the page's lock it does not.

## 6. What is not modelled, and the plan

Next, in this order:
1. Theorems about `LogSlot`: `NoHoles`, `ClosedDurable`, `FlushWritten` and `LsnsForward`. Their invariant has to order all slots in use by
   their positions, from `write_lsn` to `alloc_lsn`, whatever slots were coalesced, and say which records each still holds.
2. The history store, reconciliation's choice of versions, rollback to stable and recovery: what a checkpoint writes of
   the chains of `Mvcc` at the timestamp of `Timestamp`, and what is left of it after `Block`'s crash.
3. The lock that keeps a commit's log record and its visibility together (`txn.c:1938`, `txn_log.c:694`), over
   `LogSlot` and `TxnGlobal`.
4. `__wt_gen_active` and the eviction of internal pages during splits; sessions that open and close in
   `Generation` and `Hazard`; the packed integers of `include/intpack_inline.h`.

Not modelled: B-tree pages and their splits as data structures, the eviction server's choice of pages, LSM trees, tiered
storage, schema operations, cursors, configuration, most of the operating system layer, utilities and
checksums. They are data layout, input and output, policy, or clients of the parts above.
