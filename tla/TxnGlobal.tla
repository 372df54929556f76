------------------------------ MODULE TxnGlobal ------------------------------
(***************************************************************************)
(* The global transaction table: how sessions allocate transaction ids,    *)
(* build and publish snapshots, finish, and how the oldest id moves        *)
(* forward (txn/txn.c and include/txn_inline.h), with the part of          *)
(* txn/txn_ckpt.c that moves the checkpoint's entry out of the table.      *)
(*                                                                         *)
(* The table is written without a lock: allocation, commit, prepare and    *)
(* rollback only publish single words.  Scans hold the table's rwlock      *)
(* (module RwlockSpec, which module Rwlock implements) shared, updates of  *)
(* the oldest id hold it exclusively.  Each unlocked read or write of a    *)
(* shared word that another session can tell apart is a step of its own.   *)
(***************************************************************************)
EXTENDS Integers, FiniteSets

CONSTANTS
    N,              \* slots of the table, conn->session_cnt
    MaxId,          \* no allocation starts once txn_global->current is here
    Gap,            \* how far an unforced update of the oldest id lags: 100
    Isolations,     \* isolation levels each session calls begin_transaction with
    Users,          \* sessions that run transactions
    Reading,        \* sessions that also read outside of transactions
    Preparing,      \* sessions that also prepare them
    Sweeping,       \* sessions that update the oldest id
    SweepModes,     \* pairs <<strict, wait>> they do it with
    Evicting,       \* sessions that ask what everybody sees
    Reconciling,    \* eviction threads, which reconcile pages
    Checkpointers   \* the session that takes checkpoints, one at a time

Sessions == 1..N

ASSUME SessionsAssumption == N \in Nat
ASSUME BoundsAssumption == MaxId \in Nat /\ Gap \in Nat
ASSUME RolesAssumption ==
    /\ Users \cup Reading \cup Preparing \cup Sweeping \cup Evicting \cup Reconciling
         \cup Checkpointers \subseteq Sessions
    /\ SweepModes \subseteq BOOLEAN \X BOOLEAN
    /\ \A s, t \in Checkpointers : s = t
ASSUME IsolationsAssumption ==
    Isolations \in [Sessions -> SUBSET {"snapshot", "read-committed", "read-uncommitted"}]

VARIABLES
    current,          \* next transaction id to hand out
    oldest_id,        \* every id below it is visible to everybody
    last_running,     \* oldest id that was running at the last sweep
    metadata_pinned,  \* oldest_id for the metadata
    ckpt,             \* checkpoint_id and checkpoint_txn_shared
    shared,           \* txn_shared_list, by session
    readers,          \* txn_global->rwlock: shared owners
    writers,          \* txn_global->rwlock: exclusive owner
    txn,              \* session->txn
    pc,               \* where each session is
    ret,              \* where it continues after a shared procedure
    scan,             \* locals of a walk over the table
    prev,             \* locals of __wt_txn_update_oldest
    claimed           \* history: largest result of __wt_txn_oldest_id so far

globals == <<current, oldest_id, last_running, metadata_pinned>>
lock == <<readers, writers>>
locals == <<ret, scan, prev>>
vars == <<globals, ckpt, shared, lock, txn, pc, locals, claimed>>

rwlock == INSTANCE RwlockSpec WITH Threads <- Sessions

NONE == 0    \* WT_TXN_NONE
FIRST == 1   \* WT_TXN_FIRST

Least(a, b) == IF a < b THEN a ELSE b
Greatest(a, b) == IF a < b THEN b ELSE a

\* A session without a transaction.  Three fields are not in WT_TXN: fresh says
\* that the session's commit generation is the current one; published, whether
\* get_snapshot published the snapshot's pinned id; ceiling is history, how far
\* the oldest id could still move when a read-uncommitted operation published
\* its pin.
NoTxn ==
    [state |-> "none", isolation |-> "snapshot", id |-> NONE, fresh |-> FALSE,
     has_snapshot |-> FALSE, published |-> FALSE, snapshot |-> {}, snap_max |-> NONE,
     ceiling |-> NONE]

NoScan ==
    [slot |-> 1, id |-> NONE, current |-> NONE, oldest |-> NONE, pinned |-> NONE,
     running |-> NONE, metadata |-> NONE, snapshot |-> {}, publish |-> FALSE]

NoPrev ==
    [strict |-> FALSE, wait |-> FALSE, oldest |-> NONE, running |-> NONE,
     metadata |-> NONE]

\* __wt_txn_global_init
Init ==
    /\ current = FIRST
    /\ oldest_id = FIRST
    /\ last_running = FIRST
    /\ metadata_pinned = FIRST
    /\ ckpt = [session |-> 0, id |-> NONE, pinned_id |-> NONE]
    /\ shared = [s \in Sessions |->
         [id |-> NONE, pinned_id |-> NONE, metadata_pinned |-> NONE,
          is_allocating |-> FALSE]]
    /\ rwlock!Init
    /\ txn = [s \in Sessions |-> NoTxn]
    /\ pc = [s \in Sessions |-> "idle"]
    /\ ret = [s \in Sessions |-> "idle"]
    /\ scan = [s \in Sessions |-> NoScan]
    /\ prev = [s \in Sessions |-> NoPrev]
    /\ claimed = NONE

Goto(s, label) == pc' = [pc EXCEPT ![s] = label]

-----------------------------------------------------------------------------
(* Visibility. *)

\* txn->snap_min, as __txn_sort_snapshot sets it.
SnapMin(s) ==
    LET below == {id \in txn[s].snapshot : id <= txn[s].snap_max}
    IN  IF below = {} THEN txn[s].snap_max
        ELSE CHOOSE id \in below : \A other \in below : id <= other

\* __wt_txn_visible_id_snapshot
VisibleInSnapshot(s, id) == id < txn[s].snap_max /\ id \notin txn[s].snapshot

\* What a finished walk of __txn_oldest_scan reports.
ScannedOldest(s) == Least(scan[s].pinned, scan[s].running)
ScannedMetadata(s) == Least(scan[s].metadata, ScannedOldest(s))

-----------------------------------------------------------------------------
(* Taking a snapshot: __txn_get_snapshot_int. *)

\* The fast path returns when the session has a snapshot of the current commit
\* generation; otherwise the session enters the current generation and goes for
\* the lock.  t is the session's transaction as the caller leaves it.
GetSnapshot(s, t, publish, label) ==
    IF t.has_snapshot /\ t.fresh
      THEN /\ Goto(s, label)
           /\ txn' = [txn EXCEPT ![s] = t]
           /\ UNCHANGED <<ret, scan>>
      ELSE /\ Goto(s, "snap_lock")
           /\ txn' = [txn EXCEPT ![s] =
                  [t EXCEPT !.fresh = TRUE, !.published = FALSE]]
           /\ ret' = [ret EXCEPT ![s] = label]
           /\ scan' = [scan EXCEPT ![s].publish = publish]

\* Take the table's lock shared and read the current and the oldest id.
SnapLock(s) ==
    /\ pc[s] = "snap_lock"
    /\ rwlock!AcquireRead(s)
    /\ scan' = [scan EXCEPT ![s].current = current,
                            ![s].pinned = current,
                            ![s].oldest = oldest_id]
    /\ Goto(s, "snap_ckpt")
    /\ UNCHANGED <<globals, ckpt, shared, txn, ret, prev, claimed>>

\* Include a running checkpoint; skip the walk when nothing is running.
SnapCheckpoint(s) ==
    /\ pc[s] = "snap_ckpt"
    /\ scan' = [scan EXCEPT ![s].snapshot =
                  IF ckpt.id = NONE \/ ckpt.id = txn[s].id THEN {} ELSE {ckpt.id}]
    /\ shared' = IF ckpt.id # NONE /\ scan[s].publish
                   THEN [shared EXCEPT ![s].metadata_pinned = ckpt.id]
                   ELSE shared
    /\ Goto(s, IF scan[s].oldest = scan[s].current THEN "snap_publish" ELSE "snap_id")
    /\ UNCHANGED <<globals, ckpt, lock, txn, ret, prev, claimed>>

\* Read the id in the next slot: skip it, or look at it again.
SnapReadId(s) ==
    LET slot == scan[s].slot
        id == shared[slot].id
    IN  /\ pc[s] = "snap_id"
        /\ slot <= N
        /\ IF slot = s \/ id = NONE \/ id < scan[s].oldest \/ id >= scan[s].current
             THEN scan' = [scan EXCEPT ![s].slot = slot + 1] /\ UNCHANGED pc
             ELSE scan' = [scan EXCEPT ![s].id = id] /\ Goto(s, "snap_reread")
        /\ UNCHANGED <<globals, ckpt, shared, lock, txn, ret, prev, claimed>>

SnapRereadWhileAllocating(s) ==
    LET slot == scan[s].slot
        id == scan[s].id
    IN  /\ pc[s] = "snap_reread"
        /\ IF shared[slot].id = id
             THEN scan' = [scan EXCEPT ![s].slot = slot + 1,
                                       ![s].id = NONE,
                                       ![s].snapshot = @ \cup {id},
                                       ![s].pinned = Least(@, id)]
             ELSE scan' = [scan EXCEPT ![s].id = NONE]
        /\ Goto(s, "snap_id")
        /\ UNCHANGED <<globals, ckpt, shared, lock, txn, ret, prev, claimed>>

\* The id is a running transaction's if its owner is not allocating and it did
\* not change meanwhile; otherwise look at the slot again.  The flag and the id
\* are read one after the other, but a session never publishes an id it
\* published before, so reading them together gives the same answers.
SnapReread(s) ==
    LET slot == scan[s].slot
        id == scan[s].id
    IN  /\ pc[s] = "snap_reread"
        /\ IF ~shared[slot].is_allocating /\ shared[slot].id = id
             THEN scan' = [scan EXCEPT ![s].slot = slot + 1,
                                       ![s].id = NONE,
                                       ![s].snapshot = @ \cup {id},
                                       ![s].pinned = Least(@, id)]
             ELSE scan' = [scan EXCEPT ![s].id = NONE]
        /\ Goto(s, "snap_id")
        /\ UNCHANGED <<globals, ckpt, shared, lock, txn, ret, prev, claimed>>

\* Publish the smallest id the snapshot depends on, release the lock and
\* __txn_sort_snapshot.
SnapPublish(s) ==
    /\ \/ pc[s] = "snap_publish"
       \/ pc[s] = "snap_id" /\ scan[s].slot = N + 1
    /\ shared' = IF scan[s].publish
                   THEN [shared EXCEPT ![s].pinned_id = scan[s].pinned]
                   ELSE shared
    /\ rwlock!ReleaseRead(s)
    /\ txn' = [txn EXCEPT ![s].has_snapshot = TRUE,
                          ![s].published = scan[s].publish,
                          ![s].snapshot = scan[s].snapshot,
                          ![s].snap_max = scan[s].current]
    /\ scan' = [scan EXCEPT ![s] = NoScan]
    /\ ret' = [ret EXCEPT ![s] = "idle"]
    /\ Goto(s, ret[s])
    /\ UNCHANGED <<globals, ckpt, prev, claimed>>

-----------------------------------------------------------------------------
(* Transactions: begin, cursor operations, modification. *)

\* __wt_txn_release_snapshot: the session's part.
Unpinned(s) ==
    [shared EXCEPT ![s].pinned_id = NONE, ![s].metadata_pinned = NONE]

WithoutSnapshot(t) ==
    [t EXCEPT !.has_snapshot = FALSE, !.fresh = FALSE, !.published = FALSE,
              !.snapshot = {}, !.snap_max = NONE, !.ceiling = NONE]

\* __wt_txn_release_snapshot: the checkpoint's part.
CkptUnpinned(s) ==
    IF ckpt.session = s THEN [ckpt EXCEPT !.pinned_id = NONE] ELSE ckpt

\* __wt_txn_begin
Begin(s, isolation) ==
    /\ s \in Users
    /\ pc[s] = "idle"
    /\ txn[s].state = "none"
    /\ LET t == [txn[s] EXCEPT !.state = "running", !.isolation = isolation]
       IN  IF isolation = "snapshot"
             THEN GetSnapshot(s, t, TRUE, "idle")
             ELSE /\ txn' = [txn EXCEPT ![s] = t]
                  /\ UNCHANGED <<pc, ret, scan>>
    /\ UNCHANGED <<globals, ckpt, shared, lock, prev, claimed>>

\* __wt_txn_cursor_op, with a snapshot.
CursorOp(s) ==
    /\ pc[s] = "idle"
    /\ \/ txn[s].state = "running"
       \/ txn[s].state = "none" /\ s \in Reading
    /\ txn[s].isolation # "read-uncommitted"
    /\ ~txn[s].has_snapshot
    /\ GetSnapshot(s, txn[s], TRUE, "idle")
    /\ UNCHANGED <<globals, ckpt, shared, lock, prev, claimed>>

\* __wt_txn_cursor_op, read-uncommitted: last_running is read ...
CursorOpUncommitted(s) ==
    /\ pc[s] = "idle"
    /\ txn[s].state # "prepared"
    /\ txn[s].isolation = "read-uncommitted"
    /\ shared[s].pinned_id = NONE
    /\ scan' = [scan EXCEPT ![s].id = last_running]
    /\ Goto(s, "pin")
    /\ UNCHANGED <<globals, ckpt, shared, lock, txn, ret, prev, claimed>>

\* Where the oldest id is or may soon be: a sweep that walks the table with the
\* lock held exclusively may have passed the session, and ends no further than
\* it got by now.
Reach == {oldest_id} \cup {ScannedOldest(w) : w \in writers}

\* ... and published, without the table's lock.
PinUncommitted(s) ==
    /\ pc[s] = "pin"
    /\ txn' = [txn EXCEPT ![s].ceiling =
                 CHOOSE id \in Reach \cup {scan[s].id} :
                     \A other \in Reach \cup {scan[s].id} : other <= id]
    /\ shared' = [shared EXCEPT ![s].pinned_id = scan[s].id,
                    ![s].metadata_pinned = IF @ = NONE THEN scan[s].id ELSE @]
    /\ scan' = [scan EXCEPT ![s].id = NONE]
    /\ Goto(s, "idle")
    /\ UNCHANGED <<globals, ckpt, lock, ret, prev, claimed>>

\* __wt_txn_read_last, when the session's last page is released.
ReadLast(s) ==
    /\ pc[s] = "idle"
    /\ txn[s].state = "none" \/ txn[s].isolation # "snapshot"
    /\ txn[s].has_snapshot \/ shared[s].pinned_id # NONE
    /\ shared' = Unpinned(s)
    /\ txn' = [txn EXCEPT ![s] = WithoutSnapshot(@)]
    /\ UNCHANGED <<globals, ckpt, lock, pc, locals, claimed>>

\* __session_reset_snapshot
ResetSnapshot(s) ==
    /\ pc[s] = "idle"
    /\ txn[s].state = "running" /\ txn[s].isolation = "snapshot"
    /\ txn[s].id = NONE
    /\ shared' = Unpinned(s)
    /\ GetSnapshot(s, WithoutSnapshot(txn[s]), TRUE, "idle")
    /\ UNCHANGED <<globals, ckpt, lock, prev, claimed>>

\* __wt_txn_id_check and __wt_txn_id_alloc: the flag is published before the
\* current id is read.  (No session can see the flag until the id is published.)
Allocate(s) ==
    /\ current < MaxId
    /\ shared' = [shared EXCEPT ![s].is_allocating = TRUE]
    /\ scan' = [scan EXCEPT ![s].id = current]
    /\ Goto(s, "alloc_publish")
    /\ UNCHANGED <<globals, ckpt, lock, txn, prev, claimed>>

\* A first modification by a transaction allocates an id.
Modify(s) ==
    /\ pc[s] = "idle"
    /\ txn[s].state = "running"
    /\ txn[s].isolation = "snapshot"
    /\ txn[s].id = NONE
    /\ Allocate(s)
    /\ UNCHANGED ret

\* Publish the id that was current: it may be another session's by now.
AllocPublish(s) ==
    /\ pc[s] = "alloc_publish"
    /\ shared' = [shared EXCEPT ![s].id = scan[s].id]
    /\ scan' = [scan EXCEPT ![s].id = NONE]
    /\ Goto(s, "alloc_add")
    /\ UNCHANGED <<globals, ckpt, lock, txn, ret, prev, claimed>>

\* The atomic increment hands out the id.
AllocAdd(s) ==
    /\ pc[s] = "alloc_add"
    /\ txn' = [txn EXCEPT ![s].id = current]
    /\ current' = current + 1
    /\ Goto(s, "alloc_id")
    /\ UNCHANGED <<oldest_id, last_running, metadata_pinned, ckpt, shared, lock,
                   locals, claimed>>

AllocPublishId(s) ==
    /\ pc[s] = "alloc_id"
    /\ shared' = [shared EXCEPT ![s].id = txn[s].id]
    /\ Goto(s, "alloc_end")
    /\ UNCHANGED <<globals, ckpt, lock, txn, locals, claimed>>

AllocEndFlagLeft(s) ==
    /\ pc[s] = "alloc_end"
    /\ Goto(s, ret[s])
    /\ ret' = [ret EXCEPT ![s] = "idle"]
    /\ UNCHANGED <<globals, ckpt, shared, lock, txn, scan, prev, claimed>>

AllocEnd(s) ==
    /\ pc[s] = "alloc_end"
    /\ shared' = [shared EXCEPT ![s].is_allocating = FALSE]
    /\ Goto(s, ret[s])
    /\ ret' = [ret EXCEPT ![s] = "idle"]
    /\ UNCHANGED <<globals, ckpt, lock, txn, scan, prev, claimed>>

-----------------------------------------------------------------------------
(* Finishing a transaction. *)

\* __wt_txn_commit up to the release of the snapshot, which comes first so
\* that the commit does not pin data.
Commit(s) ==
    /\ pc[s] \in {"idle", "ckpt_sync"}
    /\ txn[s].state # "none"
    /\ shared' = Unpinned(s)
    /\ ckpt' = CkptUnpinned(s)
    /\ txn' = [txn EXCEPT ![s] = WithoutSnapshot(@)]
    /\ Goto(s, "commit")
    /\ UNCHANGED <<globals, lock, locals, claimed>>

\* __wt_txn_release: the transaction's id leaves the global table.
LeaveTable(s, label) ==
    /\ IF ckpt.session = s
         THEN ckpt' = [ckpt EXCEPT !.session = 0, !.id = NONE] /\ UNCHANGED shared
         ELSE /\ shared' = IF txn[s].state = "prepared" THEN shared
                           ELSE [shared EXCEPT ![s].id = NONE]
              /\ UNCHANGED ckpt
    /\ ret' = [ret EXCEPT ![s] = label]
    /\ txn' = [txn EXCEPT ![s].id = NONE]
    /\ Goto(s, "release")
    /\ UNCHANGED <<globals, lock, scan, prev, claimed>>

\* __wt_txn_commit, once the updates are resolved.  A transaction that modified
\* nothing (mod_count is 0, though it may have an id) is done with the release.
CommitRelease(s) ==
    /\ pc[s] = "commit"
    /\ \/ LeaveTable(s, "idle")
       \/ txn[s].id # NONE /\ LeaveTable(s, "gen_next")

\* Writing the log record or a timestamp check fails: roll back instead.
CommitFail(s) ==
    /\ pc[s] = "commit"
    /\ txn[s].state # "prepared"
    /\ LeaveTable(s, "idle")

\* __wt_txn_rollback, after the updates are marked aborted.
Rollback(s) ==
    /\ pc[s] = "idle"
    /\ txn[s].state # "none"
    /\ LeaveTable(s, "idle")

\* __wt_txn_release: the snapshot and the flags go.
ReleaseSnapshot(s) ==
    /\ pc[s] = "release"
    /\ shared' = Unpinned(s)
    /\ ckpt' = CkptUnpinned(s)
    /\ txn' = [txn EXCEPT ![s] = NoTxn]
    /\ Goto(s, ret[s])
    /\ ret' = [ret EXCEPT ![s] = "idle"]
    /\ UNCHANGED <<globals, lock, scan, prev, claimed>>

\* A commit that changed something starts a new commit generation.
GenNext(s) ==
    /\ pc[s] = "gen_next"
    /\ txn' = [t \in Sessions |-> [txn[t] EXCEPT !.fresh = FALSE]]
    /\ Goto(s, "idle")
    /\ UNCHANGED <<globals, ckpt, shared, lock, locals, claimed>>

\* __wt_txn_prepare: mark the updates, release the snapshot ...
Prepare(s) ==
    /\ s \in Preparing
    /\ pc[s] = "idle"
    /\ txn[s].state = "running"
    /\ txn[s].isolation = "snapshot"
    /\ shared' = Unpinned(s)
    /\ txn' = [txn EXCEPT ![s] = [WithoutSnapshot(@) EXCEPT !.state = "prepared"]]
    /\ Goto(s, IF txn[s].id = NONE THEN "idle" ELSE "prepare_id")
    /\ UNCHANGED <<globals, ckpt, lock, locals, claimed>>

\* ... and take the id out of the table, but keep it in the transaction.
PrepareRemoveId(s) ==
    /\ pc[s] = "prepare_id"
    /\ shared' = [shared EXCEPT ![s].id = NONE]
    /\ Goto(s, "idle")
    /\ UNCHANGED <<globals, ckpt, lock, txn, locals, claimed>>

-----------------------------------------------------------------------------
(* Moving the oldest id forward: __wt_txn_update_oldest. *)

\* Read the ids without a lock; go on unless nothing can have moved, or an
\* unforced update would not move far.  (The update of the pinned timestamp
\* that a forced call starts with does not touch the table.)
UpdateOldest(s, strict, wait) ==
    /\ s \in Sweeping
    /\ pc[s] = "idle"
    /\ ~(oldest_id = current /\ metadata_pinned = current)
    /\ strict \/ current >= oldest_id + Gap
    /\ prev' = [prev EXCEPT ![s] =
                  [strict |-> strict, wait |-> wait, oldest |-> oldest_id,
                   running |-> last_running, metadata |-> metadata_pinned]]
    /\ Goto(s, "sweep_read")
    /\ UNCHANGED <<globals, ckpt, shared, lock, txn, ret, scan, claimed>>

\* An unforced call gives up when it does not get the lock at once.
SweepBusy(s) ==
    /\ pc[s] \in {"sweep_read", "sweep_write"}
    /\ ~prev[s].wait
    /\ Goto(s, "idle")
    /\ scan' = [scan EXCEPT ![s] = NoScan]
    /\ prev' = [prev EXCEPT ![s] = NoPrev]
    /\ UNCHANGED <<globals, ckpt, shared, lock, txn, ret, claimed>>

\* __txn_oldest_scan: the initial values of its locals.
ScanStart ==
    [NoScan EXCEPT !.oldest = oldest_id, !.running = current, !.pinned = current,
                   !.metadata = IF ckpt.id = NONE THEN current ELSE ckpt.id]

SweepReadLock(s) ==
    /\ pc[s] = "sweep_read"
    /\ rwlock!AcquireRead(s)
    /\ scan' = [scan EXCEPT ![s] = ScanStart]
    /\ Goto(s, "scan_id")
    /\ UNCHANGED <<globals, ckpt, shared, txn, ret, prev, claimed>>

ScanReadIdAboveOldest(s) ==
    LET slot == scan[s].slot
        id == shared[slot].id
    IN  /\ pc[s] = "scan_id"
        /\ slot <= N
        /\ IF id = NONE \/ id <= scan[s].oldest \/ id >= scan[s].running
             THEN Goto(s, "scan_pinned") /\ UNCHANGED scan
             ELSE Goto(s, "scan_reread") /\ scan' = [scan EXCEPT ![s].id = id]
        /\ UNCHANGED <<globals, ckpt, shared, lock, txn, ret, prev, claimed>>

\* Read the next slot's id: it bounds last_running if it is running.
ScanReadId(s) ==
    LET slot == scan[s].slot
        id == shared[slot].id
    IN  /\ pc[s] = "scan_id"
        /\ slot <= N
        /\ IF id = NONE \/ id < scan[s].oldest \/ id >= scan[s].running
             THEN Goto(s, "scan_pinned") /\ UNCHANGED scan
             ELSE Goto(s, "scan_reread") /\ scan' = [scan EXCEPT ![s].id = id]
        /\ UNCHANGED <<globals, ckpt, shared, lock, txn, ret, prev, claimed>>

ScanReread(s) ==
    LET slot == scan[s].slot
        id == scan[s].id
    IN  /\ pc[s] = "scan_reread"
        /\ IF ~shared[slot].is_allocating /\ shared[slot].id = id
             THEN /\ scan' = [scan EXCEPT ![s].running = id, ![s].id = NONE]
                  /\ Goto(s, "scan_pinned")
             ELSE /\ scan' = [scan EXCEPT ![s].id = NONE]
                  /\ Goto(s, "scan_id")
        /\ UNCHANGED <<globals, ckpt, shared, lock, txn, ret, prev, claimed>>

ScanPinnedSkipsOld(s) ==
    LET other == shared[scan[s].slot]
        Lower(a, b) == IF b # NONE /\ b < a /\ b >= scan[s].oldest THEN b ELSE a
    IN  /\ pc[s] = "scan_pinned"
        /\ scan' = [scan EXCEPT ![s].slot = @ + 1,
                                ![s].metadata = Lower(@, other.metadata_pinned),
                                ![s].pinned = Lower(@, other.pinned_id)]
        /\ Goto(s, "scan_id")
        /\ UNCHANGED <<globals, ckpt, shared, lock, txn, ret, prev, claimed>>

ScanPinnedTwice(s) ==
    LET other == shared[scan[s].slot]
        Lower(a, b) == IF b # NONE /\ b < a THEN b ELSE a
    IN  /\ pc[s] = "scan_pinned"
        /\ scan' = [scan EXCEPT ![s].slot = @ + 2,
                                ![s].metadata = Lower(@, other.metadata_pinned),
                                ![s].pinned = Lower(@, other.pinned_id)]
        /\ Goto(s, "scan_id")
        /\ UNCHANGED <<globals, ckpt, shared, lock, txn, ret, prev, claimed>>

\* Read what the slot's session pins.  Pins below the oldest id count too.
ScanPinned(s) ==
    LET other == shared[scan[s].slot]
        Lower(a, b) == IF b # NONE /\ b < a THEN b ELSE a
    IN  /\ pc[s] = "scan_pinned"
        /\ scan' = [scan EXCEPT ![s].slot = @ + 1,
                                ![s].metadata = Lower(@, other.metadata_pinned),
                                ![s].pinned = Lower(@, other.pinned_id)]
        /\ Goto(s, "scan_id")
        /\ UNCHANGED <<globals, ckpt, shared, lock, txn, ret, prev, claimed>>

\* After the walk with the lock held shared: is an update worth it?
SweepDecide(s) ==
    LET far(new, old) == new # old /\ (prev[s].strict \/ new >= old + Gap)
    IN  /\ pc[s] = "scan_id" /\ scan[s].slot = N + 1 /\ s \in readers
        /\ rwlock!ReleaseRead(s)
        /\ IF \/ far(ScannedOldest(s), prev[s].oldest)
              \/ far(scan[s].running, prev[s].running)
              \/ ScannedMetadata(s) # prev[s].metadata
             THEN Goto(s, "sweep_write") /\ UNCHANGED <<scan, prev>>
             ELSE /\ Goto(s, "idle")
                  /\ scan' = [scan EXCEPT ![s] = NoScan]
                  /\ prev' = [prev EXCEPT ![s] = NoPrev]
        /\ UNCHANGED <<globals, ckpt, shared, txn, ret, claimed>>

SweepWriteLockNoRescan(s) ==
    /\ pc[s] = "sweep_write"
    /\ rwlock!AcquireWrite(s)
    /\ Goto(s, "scan_id")
    /\ UNCHANGED <<globals, ckpt, shared, txn, locals, claimed>>

\* With the lock held exclusively, walk again unless others moved the ids on.
SweepWriteLock(s) ==
    /\ pc[s] = "sweep_write"
    /\ IF /\ ScannedOldest(s) <= oldest_id
          /\ scan[s].running <= last_running
          /\ ScannedMetadata(s) <= metadata_pinned
         THEN /\ rwlock!MayWrite /\ UNCHANGED lock
              /\ Goto(s, "idle")
              /\ scan' = [scan EXCEPT ![s] = NoScan]
              /\ prev' = [prev EXCEPT ![s] = NoPrev]
         ELSE /\ rwlock!AcquireWrite(s)
              /\ Goto(s, "scan_id")
              /\ scan' = [scan EXCEPT ![s] = ScanStart]
              /\ UNCHANGED prev
    /\ UNCHANGED <<globals, ckpt, shared, txn, ret, claimed>>

\* After the second walk: the ids only move forward.
SweepUpdate(s) ==
    /\ pc[s] = "scan_id" /\ scan[s].slot = N + 1 /\ s \in writers
    /\ metadata_pinned' = Greatest(metadata_pinned, ScannedMetadata(s))
    /\ oldest_id' = Greatest(oldest_id, ScannedOldest(s))
    /\ last_running' = Greatest(last_running, scan[s].running)
    /\ rwlock!ReleaseWrite(s)
    /\ Goto(s, "idle")
    /\ scan' = [scan EXCEPT ![s] = NoScan]
    /\ prev' = [prev EXCEPT ![s] = NoPrev]
    /\ UNCHANGED <<current, ckpt, shared, txn, ret, claimed>>

\* __wt_txn_oldest_id, as eviction calls it to decide what everybody sees: the
\* oldest id is read first ...
OldestIdRead(s) ==
    /\ s \in Evicting
    /\ pc[s] = "idle"
    /\ scan' = [scan EXCEPT ![s].id = oldest_id]
    /\ Goto(s, "oldest_ckpt")
    /\ UNCHANGED <<globals, ckpt, shared, lock, txn, ret, prev, claimed>>

OldestIdIgnoresCheckpoint(s) ==
    /\ pc[s] = "oldest_ckpt"
    /\ claimed' = Greatest(claimed, scan[s].id)
    /\ scan' = [scan EXCEPT ![s].id = NONE]
    /\ Goto(s, "idle")
    /\ UNCHANGED <<globals, ckpt, shared, lock, txn, ret, prev>>

\* ... and the id a checkpoint pins afterwards.
OldestIdCheckpoint(s) ==
    /\ pc[s] = "oldest_ckpt"
    /\ claimed' = Greatest(claimed,
                    IF ckpt.pinned_id = NONE THEN scan[s].id
                    ELSE Least(scan[s].id, ckpt.pinned_id))
    /\ scan' = [scan EXCEPT ![s].id = NONE]
    /\ Goto(s, "idle")
    /\ UNCHANGED <<globals, ckpt, shared, lock, txn, ret, prev>>

\* __evict_reconcile: an eviction thread takes a snapshot it does not publish ...
EvictSnapshot(s) ==
    /\ s \in Reconciling
    /\ pc[s] = "idle"
    /\ txn[s].state = "none"
    /\ GetSnapshot(s, txn[s], FALSE, "evict_rec")
    /\ UNCHANGED <<globals, ckpt, shared, lock, prev, claimed>>

\* ... and releases it once the page is reconciled.
EvictReleaseSnapshot(s) ==
    /\ pc[s] = "evict_rec"
    /\ shared' = Unpinned(s)
    /\ ckpt' = CkptUnpinned(s)
    /\ txn' = [txn EXCEPT ![s] = WithoutSnapshot(@)]
    /\ Goto(s, "idle")
    /\ UNCHANGED <<globals, lock, locals, claimed>>

-----------------------------------------------------------------------------
(* The checkpoint's transaction: __checkpoint_prepare and __txn_checkpoint. *)

\* Begin the checkpoint's transaction.
CkptBegin(s) ==
    /\ s \in Checkpointers
    /\ pc[s] = "idle"
    /\ txn[s].state = "none" /\ ~txn[s].has_snapshot
    /\ GetSnapshot(s, [txn[s] EXCEPT !.state = "running"], TRUE, "ckpt_alloc")
    /\ UNCHANGED <<globals, ckpt, shared, lock, prev, claimed>>

CkptAllocate(s) ==
    /\ pc[s] = "ckpt_alloc"
    /\ Allocate(s)
    /\ ret' = [ret EXCEPT ![s] = "ckpt_share"]

\* Holding the lock exclusively, move the entry from the table to the
\* checkpoint's own, so that the oldest id is not held back.
CkptShare(s) ==
    /\ pc[s] = "ckpt_share"
    /\ rwlock!MayWrite
    /\ ckpt' = [session |-> s, id |-> shared[s].id, pinned_id |-> SnapMin(s)]
    /\ shared' = [Unpinned(s) EXCEPT ![s].id = NONE]
    /\ txn' = [txn EXCEPT ![s].published = FALSE]
    /\ Goto(s, "ckpt_bump")
    /\ UNCHANGED <<globals, lock, locals, claimed>>

\* Refresh the snapshot without publishing it.
CkptBump(s) ==
    /\ pc[s] = "ckpt_bump"
    /\ GetSnapshot(s, txn[s], FALSE, "ckpt_running")
    /\ UNCHANGED <<globals, ckpt, shared, lock, prev, claimed>>

\* The trees are written: release the snapshot before syncing and committing.
CkptReleaseSnapshot(s) ==
    /\ pc[s] = "ckpt_running"
    /\ shared' = Unpinned(s)
    /\ ckpt' = CkptUnpinned(s)
    /\ txn' = [txn EXCEPT ![s] = WithoutSnapshot(@)]
    /\ Goto(s, "ckpt_sync")
    /\ UNCHANGED <<globals, lock, locals, claimed>>

\* Anything in between may fail: the transaction is rolled back.
CkptFail(s) ==
    /\ pc[s] \in {"ckpt_alloc", "ckpt_share", "ckpt_running", "ckpt_sync"}
    /\ LeaveTable(s, "idle")

-----------------------------------------------------------------------------

Snapshotting(s) ==
    \/ SnapLock(s) \/ SnapCheckpoint(s)
    \/ SnapReadId(s) \/ SnapReread(s) \/ SnapPublish(s)

Allocating(s) ==
    \/ AllocPublish(s) \/ AllocAdd(s) \/ AllocPublishId(s) \/ AllocEnd(s)

Finishing(s) ==
    \/ CommitRelease(s) \/ CommitFail(s) \/ ReleaseSnapshot(s) \/ GenNext(s)
    \/ PrepareRemoveId(s)

Sweep(s) ==
    \/ SweepBusy(s) \/ SweepReadLock(s) \/ SweepWriteLock(s)
    \/ ScanReadId(s) \/ ScanReread(s) \/ ScanPinned(s)
    \/ SweepDecide(s) \/ SweepUpdate(s)
    \/ OldestIdCheckpoint(s) \/ EvictReleaseSnapshot(s)

Checkpointing(s) ==
    \/ CkptAllocate(s) \/ CkptShare(s) \/ CkptBump(s) \/ CkptReleaseSnapshot(s)
    \/ CkptFail(s)

\* A session starts an operation.
Call(s) ==
    \/ \E isolation \in Isolations[s] : Begin(s, isolation)
    \/ CursorOp(s) \/ CursorOpUncommitted(s) \/ ReadLast(s) \/ ResetSnapshot(s)
    \/ Modify(s) \/ Commit(s) \/ Rollback(s) \/ Prepare(s)
    \/ \E mode \in SweepModes : UpdateOldest(s, mode[1], mode[2])
    \/ OldestIdRead(s) \/ EvictSnapshot(s)
    \/ CkptBegin(s)

\* A session carries an operation on.
Continue(s) ==
    \/ PinUncommitted(s)
    \/ Snapshotting(s) \/ Allocating(s) \/ Finishing(s) \/ Sweep(s) \/ Checkpointing(s)

Next == \E s \in Sessions : Call(s) \/ Continue(s)

Spec == Init /\ [][Next]_vars

\* A session finishes what it started.  A session that waits for the lock
\* exclusively holds a ticket, behind which no new reader gets in, so it is
\* served although the lock may be free only now and then (module Rwlock,
\* QueuedServed).  Nothing makes a session start an operation.
Fairness ==
    \A s \in Sessions :
        WF_vars(Continue(s)) /\ SF_vars(SweepWriteLock(s) \/ CkptShare(s))

FairSpec == Spec /\ Fairness

-----------------------------------------------------------------------------
Ids == Nat

Labels ==
    {"idle", "pin", "snap_lock", "snap_ckpt", "snap_id", "snap_reread",
     "snap_publish", "alloc_publish", "alloc_add", "alloc_id",
     "alloc_end", "commit", "release", "gen_next", "prepare_id",
     "sweep_read", "scan_id", "scan_reread", "scan_pinned",
     "sweep_write", "oldest_ckpt", "evict_rec", "ckpt_alloc",
     "ckpt_share", "ckpt_bump", "ckpt_running", "ckpt_sync"}

\* Every variable keeps its type.
TypeOK ==
    /\ current \in Ids /\ oldest_id \in Ids
    /\ last_running \in Ids /\ metadata_pinned \in Ids
    /\ ckpt \in [session : 0..N, id : Ids, pinned_id : Ids]
    /\ shared \in [Sessions ->
         [id : Ids, pinned_id : Ids, metadata_pinned : Ids, is_allocating : BOOLEAN]]
    /\ rwlock!TypeOK
    /\ txn \in [Sessions ->
         [state : {"none", "running", "prepared"},
          isolation : {"snapshot", "read-committed", "read-uncommitted"},
          id : Ids, fresh : BOOLEAN, has_snapshot : BOOLEAN, published : BOOLEAN,
          snapshot : SUBSET Ids, snap_max : Ids, ceiling : Ids]]
    /\ pc \in [Sessions -> Labels]
    /\ ret \in [Sessions -> Labels]
    /\ scan \in [Sessions ->
         [slot : 1..(N + 1), id : Ids, current : Ids, oldest : Ids, pinned : Ids,
          running : Ids, metadata : Ids, snapshot : SUBSET Ids, publish : BOOLEAN]]
    /\ prev \in [Sessions ->
         [strict : BOOLEAN, wait : BOOLEAN, oldest : Ids, running : Ids,
          metadata : Ids]]
    /\ claimed \in Ids

\* A transaction that has an id and has neither finished nor been prepared.
Running(t) == txn[t].state = "running" /\ txn[t].id # NONE

\* Nobody's snapshot shows a transaction that is still running, although ids
\* are allocated and published while the snapshot's walk passes by.
SnapshotExcludesRunning ==
    \A s, t \in Sessions :
        s # t /\ txn[s].has_snapshot /\ Running(t) => ~VisibleInSnapshot(s, txn[t].id)

\* Whatever is older than the oldest id is visible in every published snapshot.
\* Only a checkpoint's id, which a session keeps out of its pinned id and
\* publishes as its metadata pin instead, may be an exception; for what is older
\* than the metadata's pinned id there is none.
GloballyVisible ==
    \A s \in Sessions : txn[s].published =>
        /\ oldest_id <= txn[s].snap_max
        /\ \A id \in txn[s].snapshot :
             id < oldest_id => id = shared[s].metadata_pinned
        /\ \A id \in FIRST..(metadata_pinned - 1) : VisibleInSnapshot(s, id)

\* What __wt_txn_oldest_id ever reported as globally visible is visible in the
\* checkpoint's unpublished snapshot too: the checkpoint's pin is checked after
\* the oldest id was read, and never too late.
CheckpointKeepsVersions ==
    \A s \in Sessions :
        ckpt.session = s /\ txn[s].has_snapshot =>
            \A id \in FIRST..(claimed - 1) : VisibleInSnapshot(s, id)

\* No running transaction is passed by the ids the sweeps compute.
RunningNotPassed ==
    \A t \in Sessions :
        Running(t) /\ ckpt.session # t =>
            oldest_id <= txn[t].id /\ last_running <= txn[t].id

\* A read-uncommitted operation publishes its pin without the lock, so the one
\* sweep that walks the table at that time may still move the oldest id past the
\* pin, as far as it got by then.  No later sweep moves it any further: a pin that
\* the oldest id passed holds as well as any other.
UncommittedPinHolds ==
    \A s \in Sessions : txn[s].ceiling # NONE => oldest_id <= txn[s].ceiling

\* Every operation ends: nobody spins forever on an id being allocated, or
\* waits forever for the table's lock.
OperationsEnd == \A s \in Sessions : pc[s] # "idle" ~> pc[s] = "idle"
=============================================================================
