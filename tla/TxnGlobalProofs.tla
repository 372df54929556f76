---------------------------- MODULE TxnGlobalProofs ----------------------------
(***************************************************************************)
(* Proofs about module TxnGlobal, for any number of sessions in any roles, *)
(* any bound on the ids and any lag of the sweeps.                         *)
(*                                                                         *)
(* The argument: an id that a transaction owns and has not given up is in  *)
(* the table, or its slot says that it is being allocated and holds an id  *)
(* that is not larger (SlotInv).  So a walk that passed a slot has taken   *)
(* the slot's id into account, or the id was handed out after the walk     *)
(* read the current id (SnapInv, WriteInv).  The lock keeps the oldest id  *)
(* and the checkpoint's entry still while a snapshot is built, and keeps   *)
(* snapshots from being published while a sweep walks to move the oldest   *)
(* id.  A transaction that allocates has a published snapshot, which keeps *)
(* the oldest id below the id its slot holds meanwhile (PubInv).           *)
(***************************************************************************)
EXTENDS TxnGlobal, WellFoundedInduction, TLAPS

\* Where sessions are: taking a snapshot, with the lock held, walking in a
\* sweep, allocating, and outside of anything that changes their transaction.
SnapHeld == {"snap_ckpt", "snap_id", "snap_reread", "snap_publish"}
SnapPcs == SnapHeld \cup {"snap_lock"}
ScanPcs == {"scan_id", "scan_reread", "scan_pinned"}
AllocPcs == {"alloc_publish", "alloc_add", "alloc_id", "alloc_end"}
QuietPcs ==
    ScanPcs \cup {"idle", "pin", "sweep_read", "sweep_write", "oldest_ckpt"}

\* A transaction that owns an id which the table must show: it runs, or it is
\* about to leave the table because it was prepared.
Active(t) ==
    txn[t].id # NONE /\ (txn[t].state = "running" \/ pc[t] = "prepare_id")

-----------------------------------------------------------------------------
(* The inductive invariant. *)

\* The types, with a name for each record.
CkptRec == [session : 0..N, id : Ids, pinned_id : Ids]

SharedRec ==
    [id : Ids, pinned_id : Ids, metadata_pinned : Ids, is_allocating : BOOLEAN]

TxnRec ==
    [state : {"none", "running", "prepared"},
     isolation : {"snapshot", "read-committed", "read-uncommitted"},
     id : Ids, fresh : BOOLEAN, has_snapshot : BOOLEAN, published : BOOLEAN,
     snapshot : SUBSET Ids, snap_max : Ids, ceiling : Ids]

ScanRec ==
    [slot : 1..(N + 1), id : Ids, current : Ids, oldest : Ids, pinned : Ids,
     running : Ids, metadata : Ids, snapshot : SUBSET Ids, publish : BOOLEAN]

PrevRec ==
    [strict : BOOLEAN, wait : BOOLEAN, oldest : Ids, running : Ids, metadata : Ids]

TypeInv ==
    /\ current \in Nat /\ oldest_id \in Nat
    /\ last_running \in Nat /\ metadata_pinned \in Nat /\ claimed \in Nat
    /\ ckpt \in CkptRec
    /\ shared \in [Sessions -> SharedRec]
    /\ readers \in SUBSET Sessions /\ writers \in SUBSET Sessions
    /\ txn \in [Sessions -> TxnRec]
    /\ pc \in [Sessions -> Labels]
    /\ ret \in [Sessions -> Labels]
    /\ scan \in [Sessions -> ScanRec]
    /\ prev \in [Sessions -> PrevRec]

\* The ids are ordered, and what __wt_txn_oldest_id reported is below the oldest.
OrderInv ==
    /\ FIRST <= metadata_pinned
    /\ metadata_pinned <= oldest_id
    /\ oldest_id <= last_running
    /\ last_running <= current
    /\ claimed <= oldest_id

\* Who owns the lock.
LockInv ==
    /\ \A s \in Sessions :
         /\ s \in readers <=> \/ pc[s] \in SnapHeld
                              \/ pc[s] \in ScanPcs /\ s \notin writers
         /\ s \in writers => pc[s] \in ScanPcs
    /\ \A s, t \in writers : s = t
    /\ writers # {} => readers = {}

\* Where a session continues, and where its walk starts.
RetInv(s) ==
    /\ pc[s] \notin SnapPcs \cup AllocPcs \cup {"release"} => ret[s] = "idle"
    /\ pc[s] \in SnapPcs =>
         /\ ret[s] \in {"idle", "ckpt_alloc", "ckpt_running", "evict_rec"}
         /\ ret[s] \in {"idle", "ckpt_alloc"} => scan[s].publish
    /\ pc[s] \in AllocPcs => ret[s] \in {"idle", "ckpt_share"}
    /\ pc[s] = "release" => ret[s] \in {"idle", "gen_next"}
    /\ pc[s] \notin {"snap_id", "snap_reread", "sweep_write"} \cup ScanPcs =>
         scan[s].slot = 1
    /\ pc[s] \in {"snap_reread", "scan_reread", "scan_pinned"} => scan[s].slot <= N
    /\ \/ pc[s] \in {"ckpt_alloc", "ckpt_share", "ckpt_bump", "ckpt_running"}
       \/ ret[s] \in {"ckpt_alloc", "ckpt_share", "ckpt_running"}
       => s \in Checkpointers

\* What a session's transaction is like where the session is.
TxnInv(s) ==
    /\ txn[s].id # NONE => txn[s].id < current
    /\ txn[s].has_snapshot => txn[s].snap_max <= current
    /\ txn[s].state = "none" => txn[s].isolation = "snapshot" /\ txn[s].id = NONE
    /\ pc[s] \in QuietPcs =>
         /\ txn[s].has_snapshot => txn[s].published
         /\ txn[s].state = "running" /\ txn[s].isolation = "snapshot" =>
              txn[s].has_snapshot
    /\ pc[s] = "pin" =>
         /\ ~txn[s].published /\ txn[s].isolation = "read-uncommitted"
         /\ scan[s].id <= last_running
         /\ scan[s].id # NONE
    /\ pc[s] = "oldest_ckpt" => scan[s].id <= oldest_id
    /\ pc[s] \in AllocPcs \cup {"ckpt_alloc", "ckpt_share"} =>
         txn[s].state = "running" /\ txn[s].published
    /\ pc[s] \in SnapPcs => ~txn[s].published
    /\ pc[s] \in SnapPcs /\ ret[s] = "ckpt_alloc" =>
         txn[s].state = "running" /\ txn[s].id = NONE
    /\ pc[s] = "evict_rec" \/ (pc[s] \in SnapPcs /\ ret[s] = "evict_rec") =>
         txn[s].state = "none"
    /\ pc[s] = "ckpt_alloc" => txn[s].id = NONE
    /\ pc[s] = "ckpt_share" => txn[s].id # NONE
    /\ pc[s] = "release" => txn[s].id = NONE
    /\ pc[s] = "gen_next" => ~txn[s].has_snapshot /\ txn[s].state = "none"
    /\ pc[s] = "prepare_id" =>
         ~txn[s].has_snapshot /\ txn[s].state = "prepared" /\ txn[s].id # NONE

\* The slot of a session: while it allocates an id, the slot holds no id or one
\* that is not larger; otherwise it holds the transaction's id as long as the
\* transaction is active and not the checkpoint's.
SlotInv(s) ==
    /\ shared[s].is_allocating <=> pc[s] \in AllocPcs
    /\ pc[s] = "alloc_publish" =>
         /\ shared[s].id = NONE /\ txn[s].id = NONE
         /\ shared[s].pinned_id <= scan[s].id /\ scan[s].id <= current
    /\ pc[s] = "alloc_add" =>
         /\ txn[s].id = NONE
         /\ shared[s].pinned_id <= shared[s].id /\ shared[s].id <= current
    /\ pc[s] = "alloc_id" =>
         /\ txn[s].id # NONE
         /\ shared[s].pinned_id <= shared[s].id /\ shared[s].id <= txn[s].id
    /\ pc[s] = "alloc_end" => txn[s].id # NONE /\ shared[s].id = txn[s].id
    /\ pc[s] \notin AllocPcs =>
         shared[s].id = IF Active(s) /\ ckpt.session # s THEN txn[s].id ELSE NONE

\* What a published snapshot pins.  Only a checkpoint's id may be below the
\* pinned id; the session's metadata pin holds that one.
PubInv(s) ==
    txn[s].published =>
        /\ txn[s].has_snapshot
        /\ oldest_id <= shared[s].pinned_id
        /\ shared[s].pinned_id <= txn[s].snap_max
        /\ \A id \in txn[s].snapshot :
             \/ shared[s].pinned_id <= id
             \/ id = shared[s].metadata_pinned /\ metadata_pinned <= id
        /\ \/ pc[s] \in {"ckpt_alloc", "ckpt_share"}
           \/ pc[s] \in AllocPcs /\ ret[s] = "ckpt_share"
           => \A id \in txn[s].snapshot : shared[s].pinned_id <= id

\* What a read-uncommitted operation pins.
PinInv(s) ==
    txn[s].ceiling # NONE =>
        /\ pc[s] \in QuietPcs \cup {"release"}
        /\ txn[s].isolation = "read-uncommitted"
        /\ shared[s].pinned_id # NONE
        /\ shared[s].pinned_id <= txn[s].ceiling
        /\ oldest_id <= txn[s].ceiling

\* No active transaction is passed by the ids.
RunInv(s) ==
    Active(s) /\ ckpt.session # s =>
        oldest_id <= txn[s].id /\ last_running <= txn[s].id

\* The checkpoint that left the table.
CkptInv ==
    /\ ckpt.session # 0 => ckpt.session \in Checkpointers
    /\ ckpt.session = 0 => ckpt.id = NONE

CkptOf(s) ==
    ckpt.session = s =>
        /\ \/ pc[s] \in {"ckpt_bump", "ckpt_running", "ckpt_sync", "commit"}
           \/ pc[s] \in SnapPcs /\ ret[s] = "ckpt_running"
        /\ txn[s].state = "running"
        /\ ckpt.id = txn[s].id /\ ckpt.id # NONE
        /\ metadata_pinned <= ckpt.id
        /\ pc[s] \notin {"ckpt_sync", "commit"} => txn[s].has_snapshot
        /\ txn[s].has_snapshot =>
             /\ ckpt.pinned_id # NONE
             /\ claimed <= ckpt.pinned_id
             /\ ckpt.pinned_id <= txn[s].snap_max
             /\ \A id \in txn[s].snapshot : ckpt.pinned_id <= id

\* The walk that builds a snapshot: its own values ...
SnapWalkInv(s) ==
    pc[s] \in SnapHeld =>
        /\ scan[s].oldest = oldest_id
        /\ oldest_id <= scan[s].pinned
        /\ scan[s].pinned <= scan[s].current
        /\ scan[s].current <= current
        /\ ckpt.session = s => ckpt.pinned_id <= scan[s].current
        /\ pc[s] = "snap_reread" => oldest_id <= scan[s].id /\ scan[s].id < scan[s].current
        /\ pc[s] = "snap_publish" => scan[s].oldest = scan[s].current
        /\ pc[s] # "snap_ckpt" => \A id \in scan[s].snapshot :
             /\ scan[s].publish =>
                  \/ scan[s].pinned <= id
                  \/ id = shared[s].metadata_pinned /\ metadata_pinned <= id
             /\ ret[s] = "ckpt_alloc" => scan[s].pinned <= id
             /\ ckpt.session = s => ckpt.pinned_id <= id

\* ... and what it knows of the transactions of others.
SnapInv(s, t) ==
    s # t /\ pc[s] \in SnapHeld /\ pc[s] # "snap_ckpt" /\ Active(t) =>
        /\ ckpt.session = t => txn[t].id \in scan[s].snapshot
        /\ ckpt.session # t /\ t < scan[s].slot =>
             txn[t].id >= scan[s].current \/ txn[t].id \in scan[s].snapshot

\* The walk that moves the oldest id forward: its own values ...
WriteWalkInv(s) ==
    s \in writers =>
        /\ scan[s].oldest = oldest_id
        /\ scan[s].running <= current
        /\ ckpt.session # 0 => scan[s].metadata <= ckpt.id
        /\ pc[s] = "scan_reread" => scan[s].id < scan[s].running

\* ... and what it knows of the slots it passed.
WriteInv(s, t) ==
    s \in writers =>
        /\ \/ t < scan[s].slot
           \/ t = scan[s].slot /\ pc[s] = "scan_pinned"
           => (Active(t) /\ ckpt.session # t => scan[s].running <= txn[t].id)
        /\ t < scan[s].slot /\ txn[t].published =>
             /\ scan[s].pinned <= shared[t].pinned_id
             /\ \A id \in txn[t].snapshot :
                  id < shared[t].pinned_id => scan[s].metadata <= id
        /\ t < scan[s].slot /\ txn[t].ceiling # NONE =>
             ScannedOldest(s) <= txn[t].ceiling

\* Snapshots show nobody who is active, and ids are never shared.
ExclInv(s, t) ==
    s # t =>
        /\ txn[s].has_snapshot /\ Active(t) => ~VisibleInSnapshot(s, txn[t].id)
        /\ txn[s].id = txn[t].id => txn[s].id = NONE

\* A session's own part of the invariant, and what its walk knows.
LocalInv(s) ==
    /\ RetInv(s) /\ TxnInv(s) /\ SlotInv(s)
    /\ PubInv(s) /\ PinInv(s) /\ RunInv(s) /\ CkptOf(s)

WalkInv(s) == SnapWalkInv(s) /\ WriteWalkInv(s)

PairInv(s, t) == SnapInv(s, t) /\ WriteInv(s, t) /\ ExclInv(s, t)

TableInv ==
    /\ TypeInv
    /\ OrderInv
    /\ LockInv
    /\ CkptInv
    /\ \A s \in Sessions : LocalInv(s) /\ WalkInv(s)
    /\ \A s, t \in Sessions : PairInv(s, t)

-----------------------------------------------------------------------------
(* Facts about types and records. *)

LEMMA TypeOKIsTypeInv == TypeOK <=> TypeInv
BY DEF TypeOK, TypeInv, CkptRec, SharedRec, TxnRec, ScanRec, PrevRec, Ids,
       rwlock!TypeOK

\* What the fields of the records are.
LEMMA CkptFields ==
    \A k \in CkptRec : k.session \in 0..N /\ k.id \in Nat /\ k.pinned_id \in Nat
BY DEF CkptRec, Ids

LEMMA SharedFields ==
    \A h \in SharedRec :
        /\ h.id \in Nat /\ h.pinned_id \in Nat /\ h.metadata_pinned \in Nat
        /\ h.is_allocating \in BOOLEAN
BY DEF SharedRec, Ids

LEMMA TxnFields ==
    \A x \in TxnRec :
        /\ x.state \in {"none", "running", "prepared"}
        /\ x.isolation \in {"snapshot", "read-committed", "read-uncommitted"}
        /\ x.id \in Nat /\ x.snap_max \in Nat /\ x.ceiling \in Nat
        /\ x.fresh \in BOOLEAN /\ x.has_snapshot \in BOOLEAN /\ x.published \in BOOLEAN
        /\ \A id \in x.snapshot : id \in Nat
BY DEF TxnRec, Ids

LEMMA ScanFields ==
    \A c \in ScanRec :
        /\ c.slot \in 1..(N + 1) /\ c.id \in Nat /\ c.current \in Nat
        /\ c.oldest \in Nat /\ c.pinned \in Nat /\ c.running \in Nat
        /\ c.metadata \in Nat /\ c.publish \in BOOLEAN
        /\ \A id \in c.snapshot : id \in Nat
BY DEF ScanRec, Ids

-----------------------------------------------------------------------------
(* What a step of one session leaves of the others. *)

\* The step changes nothing of other sessions.
OnlyMine(s) ==
    \A t \in Sessions : t # s =>
        /\ pc'[t] = pc[t] /\ ret'[t] = ret[t] /\ scan'[t] = scan[t]
        /\ shared'[t] = shared[t] /\ txn'[t] = txn[t]

\* The ids that sweeps move stay, and the checkpoint's entry is at most given up
\* by its owner.
GlobalsKept(s) ==
    /\ oldest_id' = oldest_id /\ last_running' = last_running
    /\ metadata_pinned' = metadata_pinned
    /\ current' \in Nat /\ current <= current'
    /\ \/ ckpt' = ckpt
       \/ /\ ckpt.session = s /\ ckpt'.session \in {0, s}
          /\ ckpt'.session = s => ckpt'.id = ckpt.id
          /\ ckpt'.session = 0 => ckpt'.id = NONE

\* The session becomes active only with an id that is new, and nothing that
\* walks took into account changes.  Nobody publishes a snapshot while a sweep
\* has the lock to itself.
TargetKept(s) ==
    /\ Active(s)' =>
         \/ txn'[s].id = current /\ ckpt'.session # s
         \/ /\ Active(s) /\ txn'[s].id = txn[s].id
            /\ ckpt'.session = s <=> ckpt.session = s
    /\ txn'[s].id \in {NONE, txn[s].id, current}
    /\ txn'[s].published =>
         \/ writers = {}
         \/ /\ txn[s].published
            /\ txn'[s].snapshot = txn[s].snapshot
            /\ shared'[s].pinned_id = shared[s].pinned_id
    /\ txn'[s].ceiling # NONE =>
         \/ txn'[s].ceiling = txn[s].ceiling
         \/ \A w \in writers : ScannedOldest(w) <= txn'[s].ceiling

\* The session's snapshot stays or goes.
SnapshotKept(s) ==
    txn'[s].has_snapshot =>
        /\ txn[s].has_snapshot
        /\ txn'[s].snapshot = txn[s].snapshot
        /\ txn'[s].snap_max = txn[s].snap_max

\* Nobody else's own part is disturbed ...
LEMMA LocalOthers ==
    ASSUME TableInv, NEW s \in Sessions, NEW t \in Sessions, t # s,
           OnlyMine(s), GlobalsKept(s), claimed' = claimed, ckpt' \in CkptRec
    PROVE  LocalInv(t)'
<1> USE DEF OnlyMine, GlobalsKept
<1>1. /\ pc'[t] = pc[t] /\ ret'[t] = ret[t] /\ scan'[t] = scan[t]
      /\ shared'[t] = shared[t] /\ txn'[t] = txn[t]
      /\ LocalInv(t)
  BY DEF TableInv
<1>2. /\ txn[t] \in TxnRec /\ scan[t] \in ScanRec /\ shared[t] \in SharedRec
      /\ ckpt \in CkptRec
      /\ current \in Nat /\ oldest_id \in Nat /\ last_running \in Nat
  BY DEF TableInv, TypeInv
<1>3. ckpt'.session = t <=> ckpt.session = t
  BY <1>2, CkptFields DEF Sessions
<1>4. ckpt.session = t => ckpt' = ckpt
  OBVIOUS
<1>5. Active(t)' <=> Active(t)
  BY <1>1 DEF Active
<1>6. RetInv(t)'
  BY <1>1 DEF RetInv, LocalInv
<1>7. TxnInv(t)'
  <2>1. TxnInv(t)
    BY <1>1 DEF LocalInv
  <2> QED BY <1>1, <1>2, <2>1, TxnFields DEF TxnInv
<1>8. SlotInv(t)'
  <2>1. SlotInv(t)
    BY <1>1 DEF LocalInv
  <2> QED BY <1>1, <1>2, <1>3, <1>5, <2>1, ScanFields, SharedFields DEF SlotInv
<1>9. PubInv(t)'
  BY <1>1 DEF PubInv, LocalInv
<1>10. PinInv(t)'
  BY <1>1 DEF PinInv, LocalInv
<1>11. RunInv(t)'
  BY <1>1, <1>3, <1>5 DEF RunInv, LocalInv
<1>12. CkptOf(t)'
  BY <1>1, <1>3, <1>4 DEF CkptOf, LocalInv
<1> QED
  BY <1>6, <1>7, <1>8, <1>9, <1>10, <1>11, <1>12 DEF LocalInv

\* ... nor what anybody else's walk knows.
LEMMA WalkOthers ==
    ASSUME TableInv, NEW s \in Sessions, NEW t \in Sessions, t # s,
           OnlyMine(s), GlobalsKept(s), ckpt' \in CkptRec,
           writers' \subseteq writers \cup {s}
    PROVE  WalkInv(t)'
<1> USE DEF OnlyMine, GlobalsKept
<1>1. /\ pc'[t] = pc[t] /\ ret'[t] = ret[t] /\ scan'[t] = scan[t]
      /\ shared'[t] = shared[t]
      /\ SnapWalkInv(t) /\ WriteWalkInv(t)
      /\ t \in writers' => t \in writers
  BY DEF TableInv, WalkInv
<1>2. /\ scan[t] \in ScanRec /\ shared[t] \in SharedRec
      /\ ckpt \in CkptRec
      /\ current \in Nat /\ oldest_id \in Nat
  BY DEF TableInv, TypeInv
<1>3. ckpt'.session = t <=> ckpt.session = t
  BY <1>2, CkptFields DEF Sessions
<1>4. ckpt.session = t => ckpt' = ckpt
  OBVIOUS
<1>5. ckpt'.session # 0 => ckpt.session # 0 /\ ckpt'.id = ckpt.id
  BY DEF Sessions
<1>6. SnapWalkInv(t)'
  BY <1>1, <1>2, <1>3, <1>4, ScanFields DEF SnapWalkInv
<1>7. WriteWalkInv(t)'
  BY <1>1, <1>2, <1>5, ScanFields DEF WriteWalkInv
<1> QED
  BY <1>6, <1>7 DEF WalkInv

LEMMA SnapOthers ==
    ASSUME TableInv, NEW s \in Sessions, NEW u \in Sessions, NEW v \in Sessions, u # s,
           OnlyMine(s), GlobalsKept(s), TargetKept(s), ckpt' \in CkptRec
    PROVE  SnapInv(u, v)'
<1> USE DEF OnlyMine, GlobalsKept
<1>1. pc'[u] = pc[u] /\ scan'[u] = scan[u] /\ SnapInv(u, v) /\ SnapWalkInv(u)
  BY DEF TableInv, PairInv, WalkInv
<1>2. scan[u] \in ScanRec /\ ckpt \in CkptRec /\ current \in Nat
  BY DEF TableInv, TypeInv
<1>3. CASE v # s
  <2>1. pc'[v] = pc[v] /\ txn'[v] = txn[v]
    BY <1>3
  <2>2. ckpt'.session = v <=> ckpt.session = v
    BY <1>2, <1>3, CkptFields DEF Sessions
  <2> QED BY <1>1, <2>1, <2>2 DEF SnapInv, Active
<1>4. CASE v = s
  <2>1. SUFFICES ASSUME Active(s)', pc[u] \in SnapHeld, pc[u] # "snap_ckpt"
                 PROVE  /\ ckpt'.session = s => txn'[s].id \in scan[u].snapshot
                        /\ ckpt'.session # s /\ s < scan[u].slot =>
                             \/ txn'[s].id >= scan[u].current
                             \/ txn'[s].id \in scan[u].snapshot
    BY <1>1, <1>4 DEF SnapInv
  <2>2. CASE Active(s) /\ txn'[s].id = txn[s].id /\ (ckpt'.session = s <=> ckpt.session = s)
    BY <1>1, <1>4, <2>1, <2>2 DEF SnapInv
  <2>3. CASE txn'[s].id = current /\ ckpt'.session # s
    <3>1. scan[u].current <= current
      BY <1>1, <2>1 DEF SnapWalkInv
    <3> QED BY <1>2, <2>3, <3>1, ScanFields
  <2> QED BY <2>1, <2>2, <2>3 DEF TargetKept
<1> QED BY <1>3, <1>4

LEMMA WriteOthers ==
    ASSUME TableInv, NEW s \in Sessions, NEW u \in Sessions, NEW v \in Sessions, u # s,
           OnlyMine(s), GlobalsKept(s), TargetKept(s), ckpt' \in CkptRec,
           writers' \subseteq writers \cup {s}
    PROVE  WriteInv(u, v)'
<1> USE DEF OnlyMine, GlobalsKept
<1>1. SUFFICES ASSUME u \in writers
               PROVE  WriteInv(u, v)'
  BY DEF WriteInv
<1>2. pc'[u] = pc[u] /\ scan'[u] = scan[u] /\ WriteInv(u, v) /\ WriteWalkInv(u)
  BY DEF TableInv, PairInv, WalkInv
<1>3. scan[u] \in ScanRec /\ ckpt \in CkptRec /\ current \in Nat
  BY DEF TableInv, TypeInv
<1>4. ScannedOldest(u)' = ScannedOldest(u)
  BY <1>2 DEF ScannedOldest, Least
<1>5. CASE v # s
  <2>1. pc'[v] = pc[v] /\ txn'[v] = txn[v] /\ shared'[v] = shared[v]
    BY <1>5
  <2>2. ckpt'.session = v <=> ckpt.session = v
    BY <1>3, <1>5, CkptFields DEF Sessions
  <2> QED BY <1>1, <1>2, <1>4, <2>1, <2>2 DEF WriteInv, Active
<1>6. CASE v = s
  <2>1. ASSUME \/ s < scan[u].slot
               \/ s = scan[u].slot /\ pc[u] = "scan_pinned",
               Active(s)', ckpt'.session # s
        PROVE  scan[u].running <= txn'[s].id
    <3>1. CASE Active(s) /\ txn'[s].id = txn[s].id /\ (ckpt'.session = s <=> ckpt.session = s)
      BY <1>1, <1>2, <1>6, <2>1, <3>1 DEF WriteInv
    <3>2. CASE txn'[s].id = current
      BY <1>1, <1>2, <3>2 DEF WriteWalkInv
    <3> QED BY <2>1, <3>1, <3>2 DEF TargetKept
  <2>2. s < scan[u].slot /\ txn'[s].published =>
          /\ scan[u].pinned <= shared'[s].pinned_id
          /\ \A id \in txn'[s].snapshot :
               id < shared'[s].pinned_id => scan[u].metadata <= id
    BY <1>1, <1>2, <1>6 DEF WriteInv, TargetKept
  <2>3. s < scan[u].slot /\ txn'[s].ceiling # NONE => ScannedOldest(u) <= txn'[s].ceiling
    BY <1>1, <1>2, <1>6 DEF WriteInv, TargetKept
  <2> QED BY <1>2, <1>4, <1>6, <2>1, <2>2, <2>3 DEF WriteInv
<1> QED BY <1>5, <1>6

LEMMA ExclKept ==
    ASSUME TableInv, NEW s \in Sessions, NEW u \in Sessions, NEW v \in Sessions,
           OnlyMine(s), TargetKept(s), SnapshotKept(s) \/ u # s, TypeInv'
    PROVE  ExclInv(u, v)'
<1> USE DEF OnlyMine
<1>1. SUFFICES ASSUME u # v
               PROVE  ExclInv(u, v)'
  BY DEF ExclInv
<1>2. ExclInv(u, v) /\ ExclInv(v, u) /\ TxnInv(u) /\ TxnInv(v)
  BY DEF TableInv, PairInv, LocalInv
<1>3. /\ txn[u] \in TxnRec /\ txn[v] \in TxnRec /\ current \in Nat
      /\ txn'[u] \in TxnRec /\ txn'[v] \in TxnRec
  BY DEF TableInv, TypeInv
<1>4. txn'[u].has_snapshot => /\ txn[u].has_snapshot
                              /\ txn'[u].snapshot = txn[u].snapshot
                              /\ txn'[u].snap_max = txn[u].snap_max
                              /\ txn[u].snap_max <= current
  BY <1>2 DEF SnapshotKept, TxnInv
<1>5. Active(v)' => txn'[v].id = current \/ (Active(v) /\ txn'[v].id = txn[v].id)
  BY DEF TargetKept, Active
<1>6. txn'[u].has_snapshot /\ Active(v)' =>
        ~(txn'[v].id < txn'[u].snap_max /\ txn'[v].id \notin txn'[u].snapshot)
  BY <1>1, <1>2, <1>3, <1>4, <1>5, TxnFields DEF ExclInv, VisibleInSnapshot
<1>7. txn'[u].id = txn'[v].id => txn'[u].id = NONE
  <2>1. txn'[u].id \in {NONE, txn[u].id, current} /\ txn'[v].id \in {NONE, txn[v].id, current}
    BY DEF TargetKept
  <2>2. txn'[u].id = current /\ u # s => txn'[u].id = NONE
    BY <1>2, <1>3, TxnFields DEF TxnInv
  <2>3. txn'[v].id = current /\ v # s => txn'[v].id = NONE
    BY <1>2, <1>3, TxnFields DEF TxnInv
  <2> QED BY <1>1, <1>2, <1>3, <2>1, <2>2, <2>3, TxnFields DEF ExclInv, TxnInv
<1> QED BY <1>6, <1>7 DEF ExclInv, VisibleInSnapshot

LEMMA LockKept ==
    ASSUME TableInv, NEW s \in Sessions, OnlyMine(s), UNCHANGED lock,
           pc'[s] \in SnapHeld <=> pc[s] \in SnapHeld,
           pc'[s] \in ScanPcs <=> pc[s] \in ScanPcs
    PROVE  LockInv'
BY DEF TableInv, LockInv, OnlyMine, lock

LEMMA CkptInvKept ==
    ASSUME TableInv, NEW s \in Sessions, GlobalsKept(s)
    PROVE  CkptInv'
BY DEF TableInv, CkptInv, GlobalsKept, Sessions

\* A step that is none of a walk's and does not touch the lock: what is left to
\* show is the session's own part.
LEMMA PlainStep ==
    ASSUME TableInv, NEW s \in Sessions, TypeInv', UNCHANGED <<lock, claimed>>,
           OnlyMine(s), GlobalsKept(s), TargetKept(s), SnapshotKept(s),
           pc[s] \notin SnapHeld \cup ScanPcs, pc'[s] \notin SnapHeld \cup ScanPcs,
           LocalInv(s)'
    PROVE  TableInv'
<1>1. ckpt' \in CkptRec /\ writers' = writers /\ claimed' = claimed
  BY DEF TypeInv, lock
<1>2. s \notin writers'
  BY <1>1 DEF TableInv, LockInv
<1>3. OrderInv'
  BY DEF TableInv, TypeInv, OrderInv, GlobalsKept
<1>4. \A t \in Sessions : LocalInv(t)'
  BY <1>1, LocalOthers
<1>5. \A t \in Sessions : WalkInv(t)'
  <2>1. WalkInv(s)'
    BY <1>2 DEF WalkInv, SnapWalkInv, WriteWalkInv
  <2> QED BY <1>1, <2>1, WalkOthers
<1>6. \A u, v \in Sessions : PairInv(u, v)'
  <2> TAKE u, v \in Sessions
  <2>1. SnapInv(u, v)'
    <3>1. CASE u = s
      BY <3>1 DEF SnapInv
    <3> QED BY <1>1, <3>1, SnapOthers
  <2>2. WriteInv(u, v)'
    <3>1. CASE u = s
      BY <3>1, <1>2 DEF WriteInv
    <3> QED BY <1>1, <3>1, WriteOthers
  <2>3. ExclInv(u, v)'
    BY ExclKept
  <2> QED BY <2>1, <2>2, <2>3 DEF PairInv
<1>7. LockInv'
  BY LockKept
<1>8. CkptInv'
  BY CkptInvKept
<1> QED
  BY <1>3, <1>4, <1>5, <1>6, <1>7, <1>8 DEF TableInv

-----------------------------------------------------------------------------
(* Taking a snapshot: the way in. *)

\* The two ways a call of __txn_get_snapshot_int may go: the snapshot is current, or a
\* new one is taken.
SnapFast(s, t, label) ==
    /\ t.has_snapshot
    /\ pc'[s] = label /\ txn'[s] = t
    /\ ret'[s] = ret[s] /\ scan'[s] = scan[s]
SnapSlow(s, t, publish, label) ==
    /\ pc'[s] = "snap_lock" /\ ret'[s] = label
    /\ txn'[s].state = t.state /\ txn'[s].isolation = t.isolation
    /\ txn'[s].id = t.id /\ txn'[s].ceiling = t.ceiling
    /\ txn'[s].has_snapshot = t.has_snapshot
    /\ txn'[s].snapshot = t.snapshot /\ txn'[s].snap_max = t.snap_max
    /\ txn'[s].published = FALSE
    /\ scan'[s].slot = scan[s].slot /\ scan'[s].publish = publish

LEMMA GetSnapshotEffect ==
    ASSUME TypeInv, NEW s \in Sessions, NEW t \in TxnRec, NEW publish \in BOOLEAN,
           NEW label \in Labels, GetSnapshot(s, t, publish, label)
    PROVE  /\ pc' \in [Sessions -> Labels] /\ ret' \in [Sessions -> Labels]
           /\ txn' \in [Sessions -> TxnRec] /\ scan' \in [Sessions -> ScanRec]
           /\ \A u \in Sessions : u # s =>
                /\ pc'[u] = pc[u] /\ ret'[u] = ret[u] /\ scan'[u] = scan[u]
                /\ txn'[u] = txn[u]
           /\ SnapFast(s, t, label) \/ SnapSlow(s, t, publish, label)
<1> USE DEF TypeInv
<1>1. CASE t.has_snapshot /\ t.fresh
  <2>1. /\ pc' = [pc EXCEPT ![s] = label] /\ txn' = [txn EXCEPT ![s] = t]
        /\ ret' = ret /\ scan' = scan
    BY <1>1 DEF GetSnapshot, Goto
  <2>2. SnapFast(s, t, label)
    BY <1>1, <2>1 DEF SnapFast
  <2> QED BY <1>1, <2>1, <2>2
<1>2. CASE ~(t.has_snapshot /\ t.fresh)
  <2>1. PICK x : x = [t EXCEPT !.fresh = TRUE, !.published = FALSE]
    BY Zenon
  <2>2. /\ x \in TxnRec
        /\ x.state = t.state /\ x.isolation = t.isolation
        /\ x.id = t.id /\ x.ceiling = t.ceiling /\ x.has_snapshot = t.has_snapshot
        /\ x.snapshot = t.snapshot /\ x.snap_max = t.snap_max
        /\ x.published = FALSE
    BY <2>1 DEF TxnRec
  <2>3. PICK c : c = [scan[s] EXCEPT !.publish = publish]
    BY Zenon
  <2>4. c \in ScanRec /\ c.slot = scan[s].slot /\ c.publish = publish
    BY <2>3 DEF ScanRec
  <2>5. /\ pc' = [pc EXCEPT ![s] = "snap_lock"] /\ ret' = [ret EXCEPT ![s] = label]
        /\ txn' = [txn EXCEPT ![s] = x]
    BY <1>2, <2>1 DEF GetSnapshot, Goto
  <2>6. scan' = [scan EXCEPT ![s] = c]
    BY <1>2, <2>3 DEF GetSnapshot
  <2>7. "snap_lock" \in Labels
    BY DEF Labels
  <2>8. /\ pc'[s] = "snap_lock" /\ ret'[s] = label /\ txn'[s] = x /\ scan'[s] = c
    BY <2>5, <2>6
  <2> HIDE DEF TypeInv
  <2>9. /\ pc' \in [Sessions -> Labels] /\ ret' \in [Sessions -> Labels]
        /\ txn' \in [Sessions -> TxnRec] /\ scan' \in [Sessions -> ScanRec]
    BY <2>2, <2>4, <2>5, <2>6, <2>7 DEF TypeInv
  <2>10. \A u \in Sessions : u # s =>
           /\ pc'[u] = pc[u] /\ ret'[u] = ret[u] /\ scan'[u] = scan[u]
           /\ txn'[u] = txn[u]
    BY <2>5, <2>6 DEF TypeInv
  <2>11. SnapSlow(s, t, publish, label)
    BY <2>2, <2>4, <2>8 DEF SnapSlow
  <2> QED BY <2>9, <2>10, <2>11
<1> QED BY <1>1, <1>2

\* Any call of it, by a session that is idle or a checkpoint refreshing its
\* snapshot, keeps the invariant.
LEMMA GetSnapshotStep ==
    ASSUME TableInv, NEW s \in Sessions, NEW t \in TxnRec, NEW publish \in BOOLEAN,
           NEW label \in {"idle", "evict_rec", "ckpt_alloc", "ckpt_running"},
           GetSnapshot(s, t, publish, label),
           UNCHANGED <<globals, ckpt, lock, prev, claimed>>,
           shared' \in [Sessions -> SharedRec],
           \A u \in Sessions : u # s => shared'[u] = shared[u],
           shared'[s].id = shared[s].id, ~shared'[s].is_allocating,
           t.has_snapshot => shared' = shared,
           pc[s] = IF label = "ckpt_running" THEN "ckpt_bump" ELSE "idle",
           label \in {"idle", "ckpt_alloc"} => publish,
           label = "ckpt_alloc" => t.state = "running" /\ t.id = NONE /\ ~t.has_snapshot,
           label = "ckpt_running" => t = txn[s],
           label = "ckpt_alloc" => s \in Checkpointers,
           label = "evict_rec" => t.state = "none",
           t.id = txn[s].id, t.ceiling = NONE,
           t.id # NONE => t.state = txn[s].state,
           t.state = "none" => t.isolation = "snapshot",
           t.has_snapshot => /\ txn[s].has_snapshot /\ t.snapshot = txn[s].snapshot
                             /\ t.snap_max = txn[s].snap_max
                             /\ t.published = txn[s].published
    PROVE  TableInv'
<1>1. TypeInv
  BY DEF TableInv
<1>2. label \in Labels
  BY DEF Labels
<1> DEFINE Fast ==
      /\ t.has_snapshot
      /\ pc'[s] = label /\ txn'[s] = t
      /\ ret'[s] = ret[s] /\ scan'[s] = scan[s]
    Slow ==
      /\ pc'[s] = "snap_lock" /\ ret'[s] = label
      /\ txn'[s].state = t.state /\ txn'[s].isolation = t.isolation
      /\ txn'[s].id = t.id /\ txn'[s].ceiling = t.ceiling
      /\ txn'[s].has_snapshot = t.has_snapshot
      /\ txn'[s].snapshot = t.snapshot /\ txn'[s].snap_max = t.snap_max
      /\ txn'[s].published = FALSE
      /\ scan'[s].slot = scan[s].slot /\ scan'[s].publish = publish
<1>3. /\ pc' \in [Sessions -> Labels] /\ ret' \in [Sessions -> Labels]
      /\ txn' \in [Sessions -> TxnRec] /\ scan' \in [Sessions -> ScanRec]
      /\ \A u \in Sessions : u # s =>
           /\ pc'[u] = pc[u] /\ ret'[u] = ret[u] /\ scan'[u] = scan[u]
           /\ txn'[u] = txn[u]
      /\ Fast \/ Slow
  <2>1. /\ pc' \in [Sessions -> Labels] /\ ret' \in [Sessions -> Labels]
        /\ txn' \in [Sessions -> TxnRec] /\ scan' \in [Sessions -> ScanRec]
        /\ \A u \in Sessions : u # s =>
             /\ pc'[u] = pc[u] /\ ret'[u] = ret[u] /\ scan'[u] = scan[u]
             /\ txn'[u] = txn[u]
        /\ SnapFast(s, t, label) \/ SnapSlow(s, t, publish, label)
    BY <1>1, <1>2, GetSnapshotEffect
  <2>2. Fast \/ Slow
    BY <2>1, Zenon DEF SnapFast, SnapSlow
  <2> HIDE DEF Fast, Slow
  <2> QED BY <2>1, <2>2
<1>4. /\ txn[s] \in TxnRec /\ txn'[s] \in TxnRec /\ current \in Nat
      /\ ckpt \in CkptRec /\ shared[s] \in SharedRec /\ shared'[s] \in SharedRec
  BY <1>1, <1>3 DEF TypeInv
<1>5. TypeInv'
  BY <1>1, <1>3 DEF TypeInv, globals, lock
<1>6. OnlyMine(s)
  BY <1>3 DEF OnlyMine
<1>7. GlobalsKept(s)
  BY <1>1 DEF GlobalsKept, globals, TypeInv
<1>8. /\ RetInv(s) /\ TxnInv(s) /\ SlotInv(s) /\ PubInv(s) /\ PinInv(s) /\ RunInv(s)
      /\ CkptOf(s)
  BY DEF TableInv, LocalInv
<1>9. /\ pc[s] \in {"idle", "ckpt_bump"} /\ txn'[s].id = txn[s].id
      /\ pc'[s] \in {"snap_lock", "idle", "evict_rec", "ckpt_alloc", "ckpt_running"}
      /\ label = "ckpt_alloc" => Slow
  BY <1>3
<1>10. Active(s)' <=> Active(s)
  BY <1>3, <1>8, <1>9 DEF Active
<1>11. SnapshotKept(s)
  BY <1>3 DEF SnapshotKept
<1>12. TargetKept(s)
  <2>1. txn'[s].published => /\ txn[s].published
                             /\ txn'[s].snapshot = txn[s].snapshot
                             /\ shared'[s].pinned_id = shared[s].pinned_id
    BY <1>3
  <2>2. txn'[s].ceiling = NONE
    BY <1>3
  <2> QED BY <1>9, <1>10, <2>1, <2>2 DEF TargetKept
<1>13. RetInv(s)'
  <2>1. scan[s].slot = 1 /\ ret[s] = "idle"
    BY <1>8, <1>9 DEF RetInv, SnapPcs, SnapHeld, AllocPcs, ScanPcs
  <2>2. label = "ckpt_running" => s \in Checkpointers
    BY <1>8 DEF RetInv
  <2> QED BY <1>3, <1>9, <2>1, <2>2 DEF RetInv, SnapPcs, SnapHeld, AllocPcs, ScanPcs
<1>14. TxnInv(s)'
  <2>1. txn'[s].id # NONE => txn'[s].id < current
    BY <1>8, <1>9 DEF TxnInv
  <2>2. txn'[s].has_snapshot => txn'[s].snap_max <= current
    BY <1>3, <1>8 DEF TxnInv
  <2>3. txn'[s].state = "none" => txn'[s].isolation = "snapshot" /\ txn'[s].id = NONE
    BY <1>3, <1>8 DEF TxnInv
  <2>4. pc'[s] \in QuietPcs => txn'[s].has_snapshot /\ txn'[s].published
    <3>1. pc'[s] \in QuietPcs => pc'[s] = "idle" /\ pc[s] = "idle" /\ Fast
      BY <1>3, <1>9 DEF QuietPcs, ScanPcs
    <3> QED BY <1>3, <1>8, <3>1 DEF TxnInv, QuietPcs
  <2> QED BY <1>3, <1>7, <1>9, <2>1, <2>2, <2>3, <2>4
          DEF TxnInv, SnapPcs, SnapHeld, AllocPcs, GlobalsKept, globals
<1>15. SlotInv(s)'
  BY <1>8, <1>9, <1>10 DEF SlotInv, AllocPcs
<1>16. PubInv(s)'
  <2>1. txn'[s].published => Fast /\ txn[s].published /\ shared' = shared
    BY <1>3
  <2> QED BY <1>7, <1>8, <1>9, <2>1 DEF PubInv, GlobalsKept, AllocPcs
<1>17. PinInv(s)'
  BY <1>3 DEF PinInv
<1>18. RunInv(s)'
  BY <1>7, <1>8, <1>9, <1>10 DEF RunInv, GlobalsKept
<1>19. CkptOf(s)'
  <2>1. ckpt.session = s => pc[s] = "ckpt_bump" /\ label = "ckpt_running" /\ t = txn[s]
    BY <1>8, <1>9 DEF CkptOf, SnapPcs, SnapHeld
  <2> QED BY <1>3, <1>7, <1>8, <2>1 DEF CkptOf, SnapPcs, GlobalsKept, globals
<1>20. LocalInv(s)'
  BY <1>13, <1>14, <1>15, <1>16, <1>17, <1>18, <1>19 DEF LocalInv
<1>21. /\ pc[s] \notin SnapHeld \cup ScanPcs
       /\ pc'[s] \notin SnapHeld \cup ScanPcs
  BY <1>9 DEF SnapHeld, ScanPcs
<1> QED
  BY <1>5, <1>6, <1>7, <1>11, <1>12, <1>20, <1>21, PlainStep DEF lock

LEMMA BeginStep ==
    ASSUME TableInv, NEW s \in Sessions,
           NEW isolation \in {"snapshot", "read-committed", "read-uncommitted"},
           Begin(s, isolation)
    PROVE  TableInv'
<1>1. /\ TypeInv /\ TxnInv(s) /\ PinInv(s) /\ SlotInv(s) /\ RetInv(s) /\ RunInv(s)
      /\ PubInv(s) /\ CkptOf(s)
  BY DEF TableInv, LocalInv
<1>2. /\ pc[s] = "idle" /\ txn[s].state = "none" /\ shared' = shared
      /\ UNCHANGED <<globals, ckpt, lock, prev, claimed>>
  BY DEF Begin
<1>3. /\ txn[s] \in TxnRec /\ shared[s] \in SharedRec
  BY <1>1 DEF TypeInv
<1>4. txn[s].id = NONE /\ txn[s].ceiling = NONE
  BY <1>1, <1>2 DEF TxnInv, PinInv
<1>5. PICK t : t = [txn[s] EXCEPT !.state = "running", !.isolation = isolation]
  BY Zenon
<1>6. /\ t \in TxnRec /\ t.state = "running" /\ t.isolation = isolation /\ t.id = NONE
      /\ t.ceiling = NONE /\ t.has_snapshot = txn[s].has_snapshot
      /\ t.snapshot = txn[s].snapshot /\ t.snap_max = txn[s].snap_max
      /\ t.published = txn[s].published
  BY <1>3, <1>4, <1>5 DEF TxnRec
<1>7. shared[s].is_allocating = FALSE
  BY <1>1, <1>2, <1>3, SharedFields DEF SlotInv, AllocPcs
<1>8. CASE isolation = "snapshot"
  <2>1. GetSnapshot(s, t, TRUE, "idle")
    BY <1>5, <1>8 DEF Begin
  <2> QED
    BY <1>1, <1>2, <1>4, <1>6, <1>7, <2>1, GetSnapshotStep DEF TypeInv
<1>9. CASE isolation # "snapshot"
  <2>1. txn' = [txn EXCEPT ![s] = t] /\ UNCHANGED <<pc, ret, scan>>
    BY <1>5, <1>9 DEF Begin
  <2>2. txn'[s] = t /\ TypeInv'
    BY <1>1, <1>2, <1>6, <2>1 DEF TypeInv, globals, lock
  <2>3. OnlyMine(s) /\ GlobalsKept(s)
    BY <1>1, <1>2, <2>1 DEF OnlyMine, GlobalsKept, TypeInv, globals
  <2>4. ~Active(s) /\ ~Active(s)'
    BY <1>2, <1>4, <1>6, <2>2 DEF Active
  <2>5. TargetKept(s) /\ SnapshotKept(s)
    BY <1>2, <1>6, <2>2, <2>4 DEF TargetKept, SnapshotKept
  <2>6. RetInv(s)' /\ PinInv(s)' /\ RunInv(s)'
    BY <1>1, <1>2, <1>6, <2>1, <2>2, <2>4 DEF RetInv, PinInv, RunInv
  <2>7. TxnInv(s)' /\ PubInv(s)'
    BY <1>1, <1>2, <1>6, <1>9, <2>1, <2>2
       DEF TxnInv, PubInv, SnapPcs, SnapHeld, AllocPcs, globals
  <2>8. SlotInv(s)'
    BY <1>1, <1>2, <1>4, <1>6, <2>1, <2>2, <2>4 DEF SlotInv, AllocPcs
  <2>9. CkptOf(s)'
    BY <1>1, <1>2, <2>1 DEF CkptOf, SnapPcs, SnapHeld
  <2>10. LocalInv(s)'
    BY <2>6, <2>7, <2>8, <2>9 DEF LocalInv
  <2>11. pc[s] \notin SnapHeld \cup ScanPcs /\ pc'[s] \notin SnapHeld \cup ScanPcs
    BY <1>2, <2>1 DEF SnapHeld, ScanPcs
  <2> QED BY <1>2, <2>2, <2>3, <2>5, <2>10, <2>11, PlainStep
<1> QED BY <1>8, <1>9

LEMMA CursorOpStep ==
    ASSUME TableInv, NEW s \in Sessions, CursorOp(s)
    PROVE  TableInv'
<1>1. TypeInv /\ TxnInv(s) /\ PinInv(s) /\ SlotInv(s)
  BY DEF TableInv, LocalInv
<1>2. /\ pc[s] = "idle" /\ txn[s].isolation # "read-uncommitted" /\ ~txn[s].has_snapshot
      /\ GetSnapshot(s, txn[s], TRUE, "idle") /\ shared' = shared
      /\ UNCHANGED <<globals, ckpt, lock, prev, claimed>>
  BY DEF CursorOp
<1>3. txn[s] \in TxnRec /\ shared \in [Sessions -> SharedRec]
  BY <1>1 DEF TypeInv
<1>4. txn[s].ceiling = NONE
  BY <1>1, <1>2 DEF PinInv
<1>5. shared[s].is_allocating = FALSE
  BY <1>1, <1>2, <1>3, SharedFields DEF SlotInv, AllocPcs
<1>6. txn[s].state = "none" => txn[s].isolation = "snapshot"
  BY <1>1 DEF TxnInv
<1> QED
  BY <1>2, <1>3, <1>4, <1>5, <1>6, GetSnapshotStep

LEMMA EvictSnapshotStep ==
    ASSUME TableInv, NEW s \in Sessions, EvictSnapshot(s)
    PROVE  TableInv'
<1>1. TypeInv /\ TxnInv(s) /\ PinInv(s) /\ SlotInv(s)
  BY DEF TableInv, LocalInv
<1>2. /\ pc[s] = "idle" /\ txn[s].state = "none"
      /\ GetSnapshot(s, txn[s], FALSE, "evict_rec") /\ shared' = shared
      /\ UNCHANGED <<globals, ckpt, lock, prev, claimed>>
  BY DEF EvictSnapshot
<1>3. txn[s] \in TxnRec /\ shared \in [Sessions -> SharedRec]
  BY <1>1 DEF TypeInv
<1>4. txn[s].isolation = "snapshot" /\ txn[s].ceiling = NONE
  BY <1>1, <1>2 DEF PinInv, TxnInv
<1>5. shared[s].is_allocating = FALSE
  BY <1>1, <1>2, <1>3, SharedFields DEF SlotInv, AllocPcs
<1> QED
  BY <1>2, <1>3, <1>4, <1>5, GetSnapshotStep

LEMMA CkptBumpStep ==
    ASSUME TableInv, NEW s \in Sessions, CkptBump(s)
    PROVE  TableInv'
<1>1. TypeInv /\ TxnInv(s) /\ PinInv(s) /\ SlotInv(s)
  BY DEF TableInv, LocalInv
<1>2. /\ pc[s] = "ckpt_bump"
      /\ GetSnapshot(s, txn[s], FALSE, "ckpt_running") /\ shared' = shared
      /\ UNCHANGED <<globals, ckpt, lock, prev, claimed>>
  BY DEF CkptBump
<1>3. txn[s] \in TxnRec /\ shared \in [Sessions -> SharedRec]
  BY <1>1 DEF TypeInv
<1>4. txn[s].ceiling = NONE
  BY <1>1, <1>2 DEF PinInv, QuietPcs, ScanPcs
<1>5. shared[s].is_allocating = FALSE
  BY <1>1, <1>2, <1>3, SharedFields DEF SlotInv, AllocPcs
<1>6. txn[s].state = "none" => txn[s].isolation = "snapshot"
  BY <1>1 DEF TxnInv
<1> QED
  BY <1>2, <1>3, <1>4, <1>5, <1>6, GetSnapshotStep

LEMMA CkptBeginStep ==
    ASSUME TableInv, NEW s \in Sessions, CkptBegin(s)
    PROVE  TableInv'
<1>1. TypeInv /\ TxnInv(s) /\ PinInv(s) /\ SlotInv(s)
  BY DEF TableInv, LocalInv
<1>2. PICK t : t = [txn[s] EXCEPT !.state = "running"]
  BY Zenon
<1>3. /\ s \in Checkpointers
      /\ pc[s] = "idle" /\ txn[s].state = "none" /\ ~txn[s].has_snapshot
      /\ GetSnapshot(s, t, TRUE, "ckpt_alloc") /\ shared' = shared
      /\ UNCHANGED <<globals, ckpt, lock, prev, claimed>>
  BY <1>2 DEF CkptBegin
<1>4. txn[s] \in TxnRec /\ shared \in [Sessions -> SharedRec]
  BY <1>1 DEF TypeInv
<1>5. txn[s].id = NONE /\ txn[s].ceiling = NONE
  BY <1>1, <1>3 DEF PinInv, TxnInv
<1>6. /\ t \in TxnRec /\ t.state = "running" /\ t.id = NONE
      /\ t.ceiling = NONE /\ ~t.has_snapshot
  BY <1>2, <1>3, <1>4, <1>5 DEF TxnRec
<1>7. shared[s].is_allocating = FALSE
  BY <1>1, <1>3, <1>4, SharedFields DEF SlotInv, AllocPcs
<1> QED
  BY <1>3, <1>4, <1>5, <1>6, <1>7, GetSnapshotStep

\* What the release of a snapshot leaves of the session's entry and transaction.
LEMMA UnpinnedEffect ==
    ASSUME NEW s \in Sessions, shared \in [Sessions -> SharedRec]
    PROVE  /\ Unpinned(s) \in [Sessions -> SharedRec]
           /\ \A u \in Sessions : u # s => Unpinned(s)[u] = shared[u]
           /\ Unpinned(s)[s].id = shared[s].id
           /\ Unpinned(s)[s].is_allocating = shared[s].is_allocating
<1>1. PICK h : h = [shared[s] EXCEPT !.pinned_id = NONE, !.metadata_pinned = NONE]
  BY Zenon
<1>2. shared[s] \in SharedRec
  OBVIOUS
<1>3. /\ h \in SharedRec /\ h.id = shared[s].id
      /\ h.is_allocating = shared[s].is_allocating
  BY <1>1, <1>2 DEF SharedRec, Ids, NONE
<1>4. Unpinned(s) = [shared EXCEPT ![s] = h]
  BY <1>1 DEF Unpinned
<1> QED BY <1>3, <1>4

LEMMA WithoutSnapshotEffect ==
    ASSUME NEW x \in TxnRec
    PROVE  /\ WithoutSnapshot(x) \in TxnRec
           /\ WithoutSnapshot(x).state = x.state
           /\ WithoutSnapshot(x).isolation = x.isolation
           /\ WithoutSnapshot(x).id = x.id
           /\ WithoutSnapshot(x).has_snapshot = FALSE
           /\ WithoutSnapshot(x).published = FALSE
           /\ WithoutSnapshot(x).ceiling = NONE
BY DEF WithoutSnapshot, TxnRec, Ids, NONE

LEMMA ResetSnapshotStep ==
    ASSUME TableInv, NEW s \in Sessions, ResetSnapshot(s)
    PROVE  TableInv'
<1>1. TypeInv /\ SlotInv(s)
  BY DEF TableInv, LocalInv
<1>2. PICK t : t = WithoutSnapshot(txn[s])
  BY Zenon
<1>3. /\ pc[s] = "idle" /\ txn[s].state = "running" /\ txn[s].id = NONE
      /\ GetSnapshot(s, t, TRUE, "idle") /\ shared' = Unpinned(s)
      /\ UNCHANGED <<globals, ckpt, lock, prev, claimed>>
  BY <1>2 DEF ResetSnapshot
<1>4. txn[s] \in TxnRec /\ shared \in [Sessions -> SharedRec]
  BY <1>1 DEF TypeInv
<1>5. /\ t \in TxnRec /\ t.state = "running" /\ t.id = NONE
      /\ t.ceiling = NONE /\ t.has_snapshot = FALSE
  BY <1>2, <1>3, <1>4, WithoutSnapshotEffect
<1>6. shared[s].is_allocating = FALSE
  BY <1>1, <1>3, <1>4, SharedFields DEF SlotInv, AllocPcs
<1>7. /\ shared' \in [Sessions -> SharedRec]
      /\ \A u \in Sessions : u # s => shared'[u] = shared[u]
      /\ shared'[s].id = shared[s].id /\ ~shared'[s].is_allocating
  BY <1>3, <1>4, <1>6, UnpinnedEffect
<1> QED
  BY <1>3, <1>5, <1>7, GetSnapshotStep

-----------------------------------------------------------------------------
(* Releasing a snapshot, and leaving the table. *)

\* Any step that releases the session's snapshot: x is the transaction it leaves.
LEMMA ReleaseStep ==
    ASSUME TableInv, NEW s \in Sessions, NEW x \in TxnRec,
           NEW l \in {"idle", "commit", "ckpt_sync", "prepare_id", "gen_next"},
           pc[s] \in {"idle", "ckpt_sync", "ckpt_running", "evict_rec", "release"},
           pc' = [pc EXCEPT ![s] = l], txn' = [txn EXCEPT ![s] = x],
           ret' \in [Sessions -> Labels], ret'[s] = "idle",
           \A u \in Sessions : u # s => ret'[u] = ret[u],
           shared' = Unpinned(s),
           ckpt' = ckpt \/ ckpt' = CkptUnpinned(s),
           UNCHANGED <<globals, lock, scan, prev, claimed>>,
           ~x.has_snapshot, ~x.published, x.ceiling = NONE, x.id = txn[s].id,
           x.state = "none" => x.isolation = "snapshot" /\ x.id = NONE,
           l = "idle" => ~(x.state = "running" /\ x.isolation = "snapshot"),
           l = "gen_next" => x.state = "none",
           l = "prepare_id" => x.state = "prepared" /\ x.id # NONE,
           Active(s)' <=> Active(s),
           ckpt.session = s => l \in {"commit", "ckpt_sync"} /\ x.state = txn[s].state
    PROVE  TableInv'
<1>1. /\ TypeInv /\ TxnInv(s) /\ SlotInv(s) /\ RetInv(s) /\ RunInv(s) /\ CkptOf(s)
  BY DEF TableInv, LocalInv
<1>2. /\ txn[s] \in TxnRec /\ shared \in [Sessions -> SharedRec] /\ ckpt \in CkptRec
      /\ current \in Nat
  BY <1>1 DEF TypeInv
<1>3. /\ ckpt' \in CkptRec /\ ckpt'.session = ckpt.session /\ ckpt'.id = ckpt.id
      /\ ckpt.session # s => ckpt' = ckpt
  <2>1. CASE ckpt' = [ckpt EXCEPT !.pinned_id = NONE] /\ ckpt.session = s
    BY <1>2, <2>1 DEF CkptRec, Ids, NONE
  <2> QED BY <1>2, <2>1 DEF CkptUnpinned
<1>4. /\ shared' \in [Sessions -> SharedRec]
      /\ \A u \in Sessions : u # s => shared'[u] = shared[u]
      /\ shared'[s].id = shared[s].id
      /\ shared'[s].is_allocating = shared[s].is_allocating
  BY <1>2, UnpinnedEffect
<1>5. pc'[s] = l /\ txn'[s] = x /\ l \in Labels
  BY <1>1 DEF TypeInv, Labels
<1>6. TypeInv'
  BY <1>1, <1>3, <1>4, <1>5 DEF TypeInv, globals, lock
<1>7. OnlyMine(s) /\ GlobalsKept(s)
  BY <1>1, <1>2, <1>3, <1>4, CkptFields DEF OnlyMine, GlobalsKept, TypeInv, globals, Sessions
<1>8. TargetKept(s) /\ SnapshotKept(s)
  BY <1>3, <1>5 DEF TargetKept, SnapshotKept
<1>9. RetInv(s)'
  <2>1. scan[s].slot = 1
    BY <1>1 DEF RetInv, ScanPcs
  <2>2. l = "ckpt_sync" \/ l # "ckpt_sync"
    OBVIOUS
  <2> QED BY <1>1, <1>5, <2>1 DEF RetInv, SnapPcs, SnapHeld, AllocPcs, ScanPcs
<1>10. TxnInv(s)'
  BY <1>1, <1>5 DEF TxnInv, QuietPcs, ScanPcs, SnapPcs, SnapHeld, AllocPcs, globals
<1>11. SlotInv(s)'
  BY <1>1, <1>3, <1>4, <1>5 DEF SlotInv, AllocPcs
<1>12. PubInv(s)' /\ PinInv(s)'
  BY <1>5 DEF PubInv, PinInv
<1>13. RunInv(s)'
  BY <1>1, <1>3, <1>5 DEF RunInv, globals
<1>14. CkptOf(s)'
  BY <1>1, <1>3, <1>5 DEF CkptOf, globals
<1>15. LocalInv(s)'
  BY <1>9, <1>10, <1>11, <1>12, <1>13, <1>14 DEF LocalInv
<1>16. pc[s] \notin SnapHeld \cup ScanPcs /\ pc'[s] \notin SnapHeld \cup ScanPcs
  BY <1>5 DEF SnapHeld, ScanPcs
<1> QED BY <1>6, <1>7, <1>8, <1>15, <1>16, PlainStep DEF lock

LEMMA ReadLastStep ==
    ASSUME TableInv, NEW s \in Sessions, ReadLast(s)
    PROVE  TableInv'
<1>1. TypeInv /\ TxnInv(s) /\ RetInv(s) /\ CkptOf(s)
  BY DEF TableInv, LocalInv
<1>2. PICK x : x = WithoutSnapshot(txn[s])
  BY Zenon
<1>3. /\ pc[s] = "idle" /\ (txn[s].state = "none" \/ txn[s].isolation # "snapshot")
      /\ txn' = [txn EXCEPT ![s] = x] /\ shared' = Unpinned(s)
      /\ UNCHANGED <<globals, ckpt, lock, scan, prev, claimed, pc, ret>>
  BY <1>2 DEF ReadLast, locals
<1>4. /\ x \in TxnRec /\ x.state = txn[s].state /\ x.id = txn[s].id
      /\ x.isolation = txn[s].isolation
      /\ x.ceiling = NONE /\ x.has_snapshot = FALSE /\ x.published = FALSE
  BY <1>1, <1>2, WithoutSnapshotEffect DEF TypeInv
<1>5. pc' = [pc EXCEPT ![s] = "idle"]
  BY <1>1, <1>3 DEF TypeInv
<1>6. ret[s] = "idle" /\ ckpt.session # s
  BY <1>1, <1>3 DEF RetInv, CkptOf, SnapPcs, SnapHeld, AllocPcs
<1>7. Active(s)' <=> Active(s)
  BY <1>1, <1>3, <1>4 DEF Active, TypeInv
<1> QED BY <1>1, <1>3, <1>4, <1>5, <1>6, <1>7, ReleaseStep DEF TypeInv, TxnInv

LEMMA CommitStep ==
    ASSUME TableInv, NEW s \in Sessions, Commit(s)
    PROVE  TableInv'
<1>1. TypeInv /\ TxnInv(s) /\ RetInv(s) /\ CkptOf(s)
  BY DEF TableInv, LocalInv
<1>2. PICK x : x = WithoutSnapshot(txn[s])
  BY Zenon
<1>3. /\ pc[s] \in {"idle", "ckpt_sync"} /\ pc' = [pc EXCEPT ![s] = "commit"]
      /\ txn' = [txn EXCEPT ![s] = x] /\ shared' = Unpinned(s) /\ ckpt' = CkptUnpinned(s)
      /\ UNCHANGED <<globals, lock, scan, prev, claimed, ret>>
  BY <1>2 DEF Commit, locals, Goto
<1>4. /\ x \in TxnRec /\ x.state = txn[s].state /\ x.id = txn[s].id
      /\ x.isolation = txn[s].isolation
      /\ x.ceiling = NONE /\ x.has_snapshot = FALSE /\ x.published = FALSE
  BY <1>1, <1>2, WithoutSnapshotEffect DEF TypeInv
<1>5. ret[s] = "idle"
  BY <1>1, <1>3 DEF RetInv, SnapPcs, SnapHeld, AllocPcs
<1>6. Active(s)' <=> Active(s)
  BY <1>1, <1>3, <1>4 DEF Active, TypeInv
<1> QED BY <1>1, <1>3, <1>4, <1>5, <1>6, ReleaseStep DEF TypeInv, TxnInv

LEMMA CkptReleaseSnapshotStep ==
    ASSUME TableInv, NEW s \in Sessions, CkptReleaseSnapshot(s)
    PROVE  TableInv'
<1>1. TypeInv /\ TxnInv(s) /\ RetInv(s) /\ CkptOf(s)
  BY DEF TableInv, LocalInv
<1>2. PICK x : x = WithoutSnapshot(txn[s])
  BY Zenon
<1>3. /\ pc[s] = "ckpt_running" /\ pc' = [pc EXCEPT ![s] = "ckpt_sync"]
      /\ txn' = [txn EXCEPT ![s] = x] /\ shared' = Unpinned(s) /\ ckpt' = CkptUnpinned(s)
      /\ UNCHANGED <<globals, lock, scan, prev, claimed, ret>>
  BY <1>2 DEF CkptReleaseSnapshot, locals, Goto
<1>4. /\ x \in TxnRec /\ x.state = txn[s].state /\ x.id = txn[s].id
      /\ x.isolation = txn[s].isolation
      /\ x.ceiling = NONE /\ x.has_snapshot = FALSE /\ x.published = FALSE
  BY <1>1, <1>2, WithoutSnapshotEffect DEF TypeInv
<1>5. ret[s] = "idle"
  BY <1>1, <1>3 DEF RetInv, SnapPcs, SnapHeld, AllocPcs
<1>6. Active(s)' <=> Active(s)
  BY <1>1, <1>3, <1>4 DEF Active, TypeInv
<1> QED BY <1>1, <1>3, <1>4, <1>5, <1>6, ReleaseStep DEF TypeInv, TxnInv

LEMMA EvictReleaseSnapshotStep ==
    ASSUME TableInv, NEW s \in Sessions, EvictReleaseSnapshot(s)
    PROVE  TableInv'
<1>1. TypeInv /\ TxnInv(s) /\ RetInv(s) /\ CkptOf(s)
  BY DEF TableInv, LocalInv
<1>2. PICK x : x = WithoutSnapshot(txn[s])
  BY Zenon
<1>3. /\ pc[s] = "evict_rec" /\ pc' = [pc EXCEPT ![s] = "idle"]
      /\ txn' = [txn EXCEPT ![s] = x] /\ shared' = Unpinned(s) /\ ckpt' = CkptUnpinned(s)
      /\ UNCHANGED <<globals, lock, scan, prev, claimed, ret>>
  BY <1>2 DEF EvictReleaseSnapshot, locals, Goto
<1>4. /\ x \in TxnRec /\ x.state = txn[s].state /\ x.id = txn[s].id
      /\ x.isolation = txn[s].isolation
      /\ x.ceiling = NONE /\ x.has_snapshot = FALSE /\ x.published = FALSE
  BY <1>1, <1>2, WithoutSnapshotEffect DEF TypeInv
<1>5. ret[s] = "idle" /\ ckpt.session # s /\ txn[s].state = "none"
  BY <1>1, <1>3 DEF RetInv, CkptOf, TxnInv, SnapPcs, SnapHeld, AllocPcs
<1>6. Active(s)' <=> Active(s)
  BY <1>1, <1>3, <1>4 DEF Active, TypeInv
<1> QED BY <1>1, <1>3, <1>4, <1>5, <1>6, ReleaseStep DEF TypeInv, TxnInv

LEMMA PrepareStep ==
    ASSUME TableInv, NEW s \in Sessions, Prepare(s)
    PROVE  TableInv'
<1>1. TypeInv /\ TxnInv(s) /\ RetInv(s) /\ CkptOf(s)
  BY DEF TableInv, LocalInv
<1>2. PICK y : y = WithoutSnapshot(txn[s])
  BY Zenon
<1>3. PICK x : x = [y EXCEPT !.state = "prepared"]
  BY Zenon
<1>4. PICK l : l = IF txn[s].id = NONE THEN "idle" ELSE "prepare_id"
  BY Zenon
<1>5. /\ pc[s] = "idle" /\ pc' = [pc EXCEPT ![s] = l] /\ txn[s].state = "running"
      /\ txn' = [txn EXCEPT ![s] = x] /\ shared' = Unpinned(s)
      /\ UNCHANGED <<globals, ckpt, lock, scan, prev, claimed, ret>>
  BY <1>2, <1>3, <1>4 DEF Prepare, locals, Goto
<1>6. /\ y \in TxnRec /\ y.id = txn[s].id /\ y.isolation = txn[s].isolation
      /\ y.ceiling = NONE /\ y.has_snapshot = FALSE /\ y.published = FALSE
  BY <1>1, <1>2, WithoutSnapshotEffect DEF TypeInv
<1>7. /\ x \in TxnRec /\ x.state = "prepared" /\ x.id = txn[s].id
      /\ x.isolation = txn[s].isolation
      /\ x.ceiling = NONE /\ x.has_snapshot = FALSE /\ x.published = FALSE
  BY <1>3, <1>6 DEF TxnRec
<1>8. ret[s] = "idle" /\ ckpt.session # s
  BY <1>1, <1>5 DEF RetInv, CkptOf, SnapPcs, SnapHeld, AllocPcs
<1>9. Active(s)' <=> Active(s)
  BY <1>1, <1>4, <1>5, <1>7 DEF Active, TypeInv
<1>10. l \in {"idle", "prepare_id"} /\ (l = "prepare_id" => x.id # NONE)
  BY <1>4, <1>7
<1> QED BY <1>1, <1>5, <1>7, <1>8, <1>9, <1>10, ReleaseStep DEF TypeInv

LEMMA ReleaseSnapshotStep ==
    ASSUME TableInv, NEW s \in Sessions, ReleaseSnapshot(s)
    PROVE  TableInv'
<1>1. TypeInv /\ TxnInv(s) /\ RetInv(s) /\ CkptOf(s)
  BY DEF TableInv, LocalInv
<1>2. PICK x : x = NoTxn
  BY Zenon
<1>3. /\ pc[s] = "release" /\ pc' = [pc EXCEPT ![s] = ret[s]]
      /\ txn' = [txn EXCEPT ![s] = x] /\ shared' = Unpinned(s) /\ ckpt' = CkptUnpinned(s)
      /\ ret' = [ret EXCEPT ![s] = "idle"]
      /\ UNCHANGED <<globals, lock, scan, prev, claimed>>
  BY <1>2 DEF ReleaseSnapshot, Goto
<1>4. /\ x \in TxnRec /\ x.state = "none" /\ x.id = NONE /\ x.isolation = "snapshot"
      /\ x.ceiling = NONE /\ x.has_snapshot = FALSE /\ x.published = FALSE
  BY <1>2 DEF NoTxn, TxnRec, Ids, NONE
<1>5. ret[s] \in {"idle", "gen_next"} /\ ckpt.session # s /\ txn[s].id = NONE
  BY <1>1, <1>3 DEF RetInv, CkptOf, TxnInv, SnapPcs, SnapHeld
<1>6. Active(s)' <=> Active(s)
  BY <1>1, <1>3, <1>4, <1>5 DEF Active, TypeInv
<1>7. /\ ret' \in [Sessions -> Labels] /\ ret'[s] = "idle"
      /\ \A u \in Sessions : u # s => ret'[u] = ret[u]
  BY <1>1, <1>3 DEF TypeInv, Labels
<1> QED BY <1>3, <1>4, <1>5, <1>6, <1>7, ReleaseStep

LEMMA LeaveTableStep ==
    ASSUME TableInv, NEW s \in Sessions, NEW label \in {"idle", "gen_next"},
           pc[s] \in {"idle", "commit", "ckpt_alloc", "ckpt_share", "ckpt_running",
                      "ckpt_sync"},
           LeaveTable(s, label)
    PROVE  TableInv'
<1>1. /\ TypeInv /\ TxnInv(s) /\ RetInv(s) /\ CkptOf(s) /\ SlotInv(s) /\ PubInv(s)
      /\ PinInv(s)
  BY DEF TableInv, LocalInv
<1>2. /\ txn[s] \in TxnRec /\ shared[s] \in SharedRec /\ ckpt \in CkptRec
      /\ current \in Nat
  BY <1>1 DEF TypeInv
<1>3. PICK x : x = [txn[s] EXCEPT !.id = NONE]
  BY Zenon
<1>4. /\ x \in TxnRec /\ x.state = txn[s].state /\ x.isolation = txn[s].isolation
      /\ x.id = NONE /\ x.has_snapshot = txn[s].has_snapshot
      /\ x.published = txn[s].published /\ x.snapshot = txn[s].snapshot
      /\ x.snap_max = txn[s].snap_max /\ x.ceiling = txn[s].ceiling
  BY <1>2, <1>3 DEF TxnRec, Ids, NONE
<1>5. /\ pc' = [pc EXCEPT ![s] = "release"] /\ ret' = [ret EXCEPT ![s] = label]
      /\ txn' = [txn EXCEPT ![s] = x]
      /\ UNCHANGED <<globals, lock, scan, prev, claimed>>
  BY <1>3 DEF LeaveTable, Goto
<1>6. "release" \in Labels /\ label \in Labels
  BY DEF Labels
<1>7. pc'[s] = "release" /\ ret'[s] = label /\ txn'[s] = x
  BY <1>1, <1>5 DEF TypeInv
<1>8. ~shared[s].is_allocating
  BY <1>1 DEF SlotInv, AllocPcs
<1>9. /\ shared' \in [Sessions -> SharedRec]
      /\ \A u \in Sessions : u # s => shared'[u] = shared[u]
      /\ shared'[s].id = NONE /\ ~shared'[s].is_allocating
      /\ shared'[s].pinned_id = shared[s].pinned_id
      /\ shared'[s].metadata_pinned = shared[s].metadata_pinned
  <2>1. CASE shared' = shared /\ (ckpt.session = s \/ txn[s].state = "prepared")
    <3>1. shared[s].id = NONE
      BY <1>1, <2>1 DEF SlotInv, AllocPcs, Active
    <3> QED BY <1>1, <1>8, <2>1, <3>1 DEF TypeInv
  <2>2. CASE shared' = [shared EXCEPT ![s].id = NONE]
    <3>1. PICK h : h = [shared[s] EXCEPT !.id = NONE]
      BY Zenon
    <3>2. /\ h \in SharedRec /\ h.id = NONE /\ h.is_allocating = shared[s].is_allocating
          /\ h.pinned_id = shared[s].pinned_id
          /\ h.metadata_pinned = shared[s].metadata_pinned
      BY <1>2, <3>1 DEF SharedRec, Ids, NONE
    <3>3. shared' = [shared EXCEPT ![s] = h]
      BY <2>2, <3>1
    <3> QED BY <1>1, <1>8, <3>2, <3>3 DEF TypeInv
  <2> QED BY <2>1, <2>2 DEF LeaveTable
<1>10. /\ ckpt' \in CkptRec /\ ckpt'.session # s
       /\ \/ ckpt' = ckpt
          \/ ckpt.session = s /\ ckpt'.session = 0 /\ ckpt'.id = NONE
  <2>1. CASE ckpt.session = s
    <3>1. ckpt' = [ckpt EXCEPT !.session = 0, !.id = NONE]
      BY <2>1 DEF LeaveTable
    <3>2. 0 \in 0..N
      BY SessionsAssumption
    <3>3. ckpt' \in CkptRec /\ ckpt'.session = 0 /\ ckpt'.id = NONE
      BY <1>2, <3>1, <3>2 DEF CkptRec, Ids, NONE
    <3>4. 0 # s
      BY DEF Sessions
    <3> QED BY <2>1, <3>3, <3>4
  <2>2. CASE ckpt.session # s
    BY <1>2, <2>2 DEF LeaveTable
  <2> QED BY <2>1, <2>2
<1>11. TypeInv'
  BY <1>1, <1>4, <1>5, <1>6, <1>9, <1>10 DEF TypeInv, globals, lock
<1>12. OnlyMine(s)
  BY <1>1, <1>5, <1>9 DEF OnlyMine, TypeInv
<1>13. GlobalsKept(s)
  BY <1>1, <1>5, <1>10 DEF GlobalsKept, TypeInv, globals, Sessions
<1>14. ~Active(s)'
  BY <1>4, <1>7 DEF Active
<1>15. TargetKept(s) /\ SnapshotKept(s)
  BY <1>4, <1>7, <1>9, <1>14 DEF TargetKept, SnapshotKept
<1>16. RetInv(s)'
  <2>1. scan[s].slot = 1
    BY <1>1 DEF RetInv, ScanPcs
  <2> QED BY <1>5, <1>7, <2>1 DEF RetInv, SnapPcs, SnapHeld, AllocPcs, ScanPcs
<1>17. TxnInv(s)'
  BY <1>1, <1>4, <1>5, <1>7 DEF TxnInv, QuietPcs, ScanPcs, SnapPcs, SnapHeld, AllocPcs, globals
<1>18. SlotInv(s)'
  BY <1>7, <1>9, <1>14 DEF SlotInv, AllocPcs
<1>19. PubInv(s)'
  BY <1>1, <1>4, <1>5, <1>7, <1>9 DEF PubInv, AllocPcs, globals
<1>20. PinInv(s)'
  BY <1>1, <1>4, <1>5, <1>7, <1>9 DEF PinInv, globals
<1>21. RunInv(s)' /\ CkptOf(s)'
  BY <1>10, <1>14 DEF RunInv, CkptOf
<1>22. LocalInv(s)'
  BY <1>16, <1>17, <1>18, <1>19, <1>20, <1>21 DEF LocalInv
<1>23. pc[s] \notin SnapHeld \cup ScanPcs /\ pc'[s] \notin SnapHeld \cup ScanPcs
  BY <1>7 DEF SnapHeld, ScanPcs
<1> QED BY <1>5, <1>11, <1>12, <1>13, <1>15, <1>22, <1>23, PlainStep DEF lock

LEMMA PrepareRemoveIdStep ==
    ASSUME TableInv, NEW s \in Sessions, PrepareRemoveId(s)
    PROVE  TableInv'
<1>1. /\ TypeInv /\ TxnInv(s) /\ RetInv(s) /\ CkptOf(s) /\ SlotInv(s) /\ PubInv(s)
      /\ PinInv(s)
  BY DEF TableInv, LocalInv
<1>2. txn[s] \in TxnRec /\ shared[s] \in SharedRec
  BY <1>1 DEF TypeInv
<1>3. PICK h : h = [shared[s] EXCEPT !.id = NONE]
  BY Zenon
<1>4. /\ h \in SharedRec /\ h.id = NONE /\ h.is_allocating = shared[s].is_allocating
  BY <1>2, <1>3 DEF SharedRec, Ids, NONE
<1>5. /\ pc[s] = "prepare_id" /\ pc' = [pc EXCEPT ![s] = "idle"]
      /\ shared' = [shared EXCEPT ![s] = h]
      /\ UNCHANGED <<globals, ckpt, lock, txn, ret, scan, prev, claimed>>
  BY <1>3 DEF PrepareRemoveId, Goto, locals
<1>6. pc'[s] = "idle" /\ shared'[s] = h /\ "idle" \in Labels
  BY <1>1, <1>5 DEF TypeInv, Labels
<1>7. TypeInv'
  BY <1>1, <1>4, <1>5, <1>6 DEF TypeInv, globals, lock
<1>8. OnlyMine(s) /\ GlobalsKept(s)
  BY <1>1, <1>5 DEF OnlyMine, GlobalsKept, TypeInv, globals
<1>9. ~txn[s].has_snapshot /\ txn[s].state = "prepared" /\ ~txn[s].published
  BY <1>1, <1>5 DEF TxnInv, PubInv
<1>10. ~Active(s)'
  BY <1>5, <1>6, <1>9 DEF Active
<1>11. TargetKept(s) /\ SnapshotKept(s)
  BY <1>5, <1>9, <1>10 DEF TargetKept, SnapshotKept
<1>12. RetInv(s)'
  BY <1>1, <1>5, <1>6 DEF RetInv, SnapPcs, SnapHeld, AllocPcs, ScanPcs
<1>13. TxnInv(s)'
  BY <1>1, <1>5, <1>6, <1>9 DEF TxnInv, QuietPcs, ScanPcs, SnapPcs, SnapHeld, AllocPcs, globals
<1>14. SlotInv(s)'
  BY <1>1, <1>4, <1>5, <1>6, <1>10 DEF SlotInv, AllocPcs
<1>15. PubInv(s)' /\ PinInv(s)'
  BY <1>1, <1>5, <1>6, <1>9 DEF PubInv, PinInv, QuietPcs, ScanPcs
<1>16. RunInv(s)' /\ CkptOf(s)'
  BY <1>1, <1>5, <1>10 DEF RunInv, CkptOf, SnapPcs, SnapHeld
<1>17. LocalInv(s)'
  BY <1>12, <1>13, <1>14, <1>15, <1>16 DEF LocalInv
<1>18. pc[s] \notin SnapHeld \cup ScanPcs /\ pc'[s] \notin SnapHeld \cup ScanPcs
  BY <1>5, <1>6 DEF SnapHeld, ScanPcs
<1> QED BY <1>5, <1>7, <1>8, <1>11, <1>17, <1>18, PlainStep DEF lock

-----------------------------------------------------------------------------
(* Steps of a session that keep its transaction and its slot. *)

\* A session that is quiet before and after, and changes only its own locals.
LEMMA QuietStep ==
    ASSUME TableInv, NEW s \in Sessions, NEW l \in QuietPcs \ ScanPcs,
           NEW c \in ScanRec,
           pc[s] \in QuietPcs \ ScanPcs, pc' = [pc EXCEPT ![s] = l],
           scan' = [scan EXCEPT ![s] = c], prev' \in [Sessions -> PrevRec],
           UNCHANGED <<globals, ckpt, shared, lock, txn, ret, claimed>>,
           l # "sweep_write" => c.slot = 1,
           l = "oldest_ckpt" => c.id <= oldest_id,
           l = "pin" => /\ ~txn[s].published /\ txn[s].isolation = "read-uncommitted"
                        /\ c.id <= last_running /\ c.id # NONE
    PROVE  TableInv'
<1>1. LocalInv(s) /\ TypeInv
  BY DEF TableInv
<1>2. l \in Labels
  BY DEF QuietPcs, ScanPcs, Labels
<1>3. pc'[s] = l /\ scan'[s] = c
  BY <1>1 DEF TypeInv
<1>4. TypeInv'
  BY <1>1, <1>2 DEF TypeInv, globals, lock
<1>5. OnlyMine(s) /\ GlobalsKept(s)
  BY <1>1 DEF OnlyMine, GlobalsKept, TypeInv, globals
<1>6. Active(s)' <=> Active(s)
  BY <1>3 DEF Active, QuietPcs, ScanPcs
<1>7. TargetKept(s) /\ SnapshotKept(s)
  BY <1>6 DEF TargetKept, SnapshotKept
<1>8. RetInv(s)'
  BY <1>1, <1>3 DEF LocalInv, RetInv, SnapPcs, SnapHeld, AllocPcs, ScanPcs, QuietPcs
<1>9. TxnInv(s)'
  BY <1>1, <1>3 DEF LocalInv, TxnInv, SnapPcs, SnapHeld, AllocPcs, ScanPcs, QuietPcs, globals
<1>10. SlotInv(s)'
  BY <1>1, <1>3, <1>6 DEF LocalInv, SlotInv, AllocPcs, ScanPcs, QuietPcs
<1>11. PubInv(s)'
  BY <1>1, <1>3 DEF LocalInv, PubInv, AllocPcs, ScanPcs, QuietPcs, globals
<1>12. PinInv(s)' /\ RunInv(s)'
  BY <1>1, <1>3, <1>6 DEF LocalInv, PinInv, RunInv, globals
<1>13. CkptOf(s)'
  BY <1>1 DEF LocalInv, CkptOf, ScanPcs, QuietPcs, SnapPcs, SnapHeld
<1>14. LocalInv(s)'
  BY <1>8, <1>9, <1>10, <1>11, <1>12, <1>13 DEF LocalInv
<1>15. pc[s] \notin SnapHeld \cup ScanPcs /\ pc'[s] \notin SnapHeld \cup ScanPcs
  BY <1>3 DEF SnapHeld, ScanPcs, QuietPcs
<1> QED BY <1>4, <1>5, <1>7, <1>14, <1>15, PlainStep DEF lock

LEMMA NoScanType == NoScan \in ScanRec /\ NoScan.slot = 1
<1>1. 1 \in 1..(N + 1)
  BY SessionsAssumption
<1> QED BY <1>1 DEF NoScan, ScanRec, Ids, NONE

LEMMA NoPrevType == NoPrev \in PrevRec
BY DEF NoPrev, PrevRec, Ids, NONE

LEMMA CursorOpUncommittedStep ==
    ASSUME TableInv, NEW s \in Sessions, CursorOpUncommitted(s)
    PROVE  TableInv'
<1>1. TypeInv /\ RetInv(s) /\ PubInv(s) /\ OrderInv
  BY DEF TableInv, LocalInv
<1>2. scan[s] \in ScanRec
  BY <1>1 DEF TypeInv
<1>3. PICK c : c = [scan[s] EXCEPT !.id = last_running]
  BY Zenon
<1>4. c \in ScanRec /\ c.id = last_running /\ c.slot = scan[s].slot
  BY <1>1, <1>2, <1>3 DEF ScanRec, Ids, TypeInv
<1>5. /\ pc[s] = "idle" /\ pc' = [pc EXCEPT ![s] = "pin"]
      /\ scan' = [scan EXCEPT ![s] = c]
      /\ txn[s].isolation = "read-uncommitted" /\ shared[s].pinned_id = NONE
      /\ UNCHANGED <<globals, ckpt, shared, lock, txn, ret, prev, claimed>>
  BY <1>3 DEF CursorOpUncommitted, Goto
<1>6. scan[s].slot = 1
  BY <1>1, <1>5 DEF RetInv, ScanPcs
<1>7. /\ oldest_id \in Nat /\ last_running \in Nat /\ metadata_pinned \in Nat
      /\ oldest_id >= 1 /\ last_running # NONE
  BY <1>1 DEF OrderInv, TypeInv, FIRST, NONE
<1>8. ~txn[s].published
  BY <1>1, <1>5, <1>7 DEF PubInv, NONE
<1>9. "idle" \in QuietPcs \ ScanPcs /\ "pin" \in QuietPcs \ ScanPcs
  BY DEF QuietPcs, ScanPcs
<1>10. prev' \in [Sessions -> PrevRec] /\ c.id <= last_running /\ c.id # NONE
  BY <1>1, <1>4, <1>5, <1>7 DEF TypeInv
<1> QED BY <1>4, <1>5, <1>6, <1>8, <1>9, <1>10, QuietStep

LEMMA UpdateOldestStep ==
    ASSUME TableInv, NEW s \in Sessions, NEW strict \in BOOLEAN, NEW wait \in BOOLEAN,
           UpdateOldest(s, strict, wait)
    PROVE  TableInv'
<1>1. TypeInv /\ RetInv(s)
  BY DEF TableInv, LocalInv
<1>2. PICK k : k = [strict |-> strict, wait |-> wait, oldest |-> oldest_id,
                    running |-> last_running, metadata |-> metadata_pinned]
  BY Zenon
<1>3. k \in PrevRec
  BY <1>1, <1>2 DEF PrevRec, Ids, TypeInv
<1>4. /\ pc[s] = "idle" /\ pc' = [pc EXCEPT ![s] = "sweep_read"]
      /\ prev' = [prev EXCEPT ![s] = k] /\ scan' = scan
      /\ UNCHANGED <<globals, ckpt, shared, lock, txn, ret, claimed>>
  BY <1>2 DEF UpdateOldest, Goto
<1>5. /\ scan' = [scan EXCEPT ![s] = scan[s]] /\ scan[s] \in ScanRec
      /\ prev' \in [Sessions -> PrevRec]
  BY <1>1, <1>3, <1>4 DEF TypeInv
<1>6. scan[s].slot = 1
  BY <1>1, <1>4 DEF RetInv, ScanPcs
<1>7. "idle" \in QuietPcs \ ScanPcs /\ "sweep_read" \in QuietPcs \ ScanPcs
  BY DEF QuietPcs, ScanPcs
<1> QED BY <1>4, <1>5, <1>6, <1>7, QuietStep

LEMMA SweepBusyStep ==
    ASSUME TableInv, NEW s \in Sessions, SweepBusy(s)
    PROVE  TableInv'
<1>1. TypeInv
  BY DEF TableInv
<1>2. /\ pc[s] \in {"sweep_read", "sweep_write"} /\ pc' = [pc EXCEPT ![s] = "idle"]
      /\ scan' = [scan EXCEPT ![s] = NoScan] /\ prev' = [prev EXCEPT ![s] = NoPrev]
      /\ UNCHANGED <<globals, ckpt, shared, lock, txn, ret, claimed>>
  BY DEF SweepBusy, Goto
<1>3. prev' \in [Sessions -> PrevRec]
  BY <1>1, <1>2, NoPrevType DEF TypeInv
<1>4. pc[s] \in QuietPcs \ ScanPcs /\ "idle" \in QuietPcs \ ScanPcs
  BY <1>2 DEF QuietPcs, ScanPcs
<1> QED BY <1>2, <1>3, <1>4, NoScanType, QuietStep

LEMMA OldestIdReadStep ==
    ASSUME TableInv, NEW s \in Sessions, OldestIdRead(s)
    PROVE  TableInv'
<1>1. TypeInv /\ RetInv(s)
  BY DEF TableInv, LocalInv
<1>2. scan[s] \in ScanRec
  BY <1>1 DEF TypeInv
<1>3. PICK c : c = [scan[s] EXCEPT !.id = oldest_id]
  BY Zenon
<1>4. c \in ScanRec /\ c.id = oldest_id /\ c.slot = scan[s].slot
  BY <1>1, <1>2, <1>3 DEF ScanRec, Ids, TypeInv
<1>5. /\ pc[s] = "idle" /\ pc' = [pc EXCEPT ![s] = "oldest_ckpt"]
      /\ scan' = [scan EXCEPT ![s] = c]
      /\ UNCHANGED <<globals, ckpt, shared, lock, txn, ret, prev, claimed>>
  BY <1>3 DEF OldestIdRead, Goto
<1>6. scan[s].slot = 1
  BY <1>1, <1>5 DEF RetInv, ScanPcs
<1>7. oldest_id \in Nat
  BY <1>1 DEF TypeInv
<1>8. "idle" \in QuietPcs \ ScanPcs /\ "oldest_ckpt" \in QuietPcs \ ScanPcs
  BY DEF QuietPcs, ScanPcs
<1>9. prev' \in [Sessions -> PrevRec] /\ c.id <= oldest_id
  BY <1>1, <1>4, <1>5, <1>7 DEF TypeInv
<1> QED BY <1>4, <1>5, <1>6, <1>8, <1>9, QuietStep

-----------------------------------------------------------------------------
(* Allocating an id. *)

\* Any step of an allocation, which changes the session's id and its slot's: what
\* is left to show is what the slot holds.
LEMMA AllocStep ==
    ASSUME TableInv, NEW s \in Sessions, NEW x \in TxnRec, NEW h \in SharedRec,
           NEW c \in ScanRec, NEW l \in AllocPcs \cup {"idle", "ckpt_share"},
           NEW r \in {"idle", "ckpt_share"},
           pc[s] \in AllocPcs \cup {"idle", "ckpt_alloc"},
           pc' = [pc EXCEPT ![s] = l], ret' = [ret EXCEPT ![s] = r],
           txn' = [txn EXCEPT ![s] = x], shared' = [shared EXCEPT ![s] = h],
           scan' = [scan EXCEPT ![s] = c],
           UNCHANGED <<oldest_id, last_running, metadata_pinned, ckpt, lock, prev, claimed>>,
           current' \in Nat, current <= current',
           x.state = "running", x.state = txn[s].state, txn[s].published,
           x.isolation = txn[s].isolation,
           x.has_snapshot = txn[s].has_snapshot, x.published = txn[s].published,
           x.snapshot = txn[s].snapshot, x.snap_max = txn[s].snap_max,
           x.ceiling = NONE,
           h.pinned_id = shared[s].pinned_id,
           h.metadata_pinned = shared[s].metadata_pinned,
           c.slot = scan[s].slot,
           x.id = txn[s].id \/ (x.id = current /\ current' = current + 1),
           l = "ckpt_share" => x.id # NONE,
           l = "idle" => r = "idle",
           l = "ckpt_share" => r = "idle" /\ ret[s] = "ckpt_share",
           r = "ckpt_share" => pc[s] = "ckpt_alloc" \/ ret[s] = "ckpt_share",
           pc[s] = "idle" => r = "idle",
           SlotInv(s)'
    PROVE  TableInv'
<1>1. /\ TypeInv /\ OrderInv /\ RetInv(s) /\ TxnInv(s) /\ PubInv(s) /\ RunInv(s)
      /\ CkptOf(s)
  BY DEF TableInv, LocalInv
<1>2. /\ txn[s] \in TxnRec /\ ckpt \in CkptRec /\ current \in Nat
      /\ oldest_id \in Nat /\ last_running \in Nat
  BY <1>1 DEF TypeInv
<1>3. /\ pc'[s] = l /\ ret'[s] = r /\ txn'[s] = x /\ shared'[s] = h /\ scan'[s] = c
      /\ l \in Labels /\ r \in Labels
  BY <1>1 DEF TypeInv, AllocPcs, Labels
<1>4. TypeInv'
  BY <1>1, <1>3 DEF TypeInv, lock
<1>5. OnlyMine(s) /\ GlobalsKept(s)
  BY <1>1 DEF OnlyMine, GlobalsKept, TypeInv
<1>6. ckpt.session # s
  BY <1>1 DEF CkptOf, AllocPcs, SnapPcs, SnapHeld
<1>7. Active(s)' => x.id = current \/ (Active(s) /\ x.id = txn[s].id)
  BY <1>3 DEF Active
<1>8. TargetKept(s) /\ SnapshotKept(s)
  BY <1>3, <1>6, <1>7 DEF TargetKept, SnapshotKept
<1>9. scan[s].slot = 1
  BY <1>1 DEF RetInv, AllocPcs, ScanPcs
<1>10. RetInv(s)'
  <2>1. ret[s] = "ckpt_share" \/ pc[s] = "ckpt_alloc" => s \in Checkpointers
    BY <1>1 DEF RetInv
  <2> QED BY <1>3, <1>9, <2>1 DEF RetInv, AllocPcs, SnapPcs, SnapHeld, ScanPcs
<1>11. TxnInv(s)'
  <2>1. x.id # NONE => x.id < current'
    BY <1>1, <1>2, TxnFields DEF TxnInv
  <2>2. x.has_snapshot /\ x.snap_max <= current'
    BY <1>1, <1>2, TxnFields DEF TxnInv, PubInv
  <2> QED BY <1>3, <2>1, <2>2
          DEF TxnInv, QuietPcs, ScanPcs, SnapPcs, SnapHeld, AllocPcs
<1>12. PubInv(s)'
  <2>1. \/ l \in {"ckpt_alloc", "ckpt_share"}
        \/ l \in AllocPcs /\ r = "ckpt_share"
        => \/ pc[s] = "ckpt_alloc"
           \/ pc[s] \in AllocPcs /\ ret[s] = "ckpt_share"
    BY <1>1 DEF AllocPcs, RetInv, SnapPcs, SnapHeld
  <2> QED BY <1>1, <1>3, <2>1 DEF PubInv
<1>13. PinInv(s)'
  BY <1>3 DEF PinInv
<1>14. RunInv(s)'
  <2>1. CASE x.id = current
    BY <1>1, <1>2, <1>3, <2>1 DEF RunInv, OrderInv
  <2>2. CASE Active(s)' => Active(s) /\ x.id = txn[s].id
    BY <1>1, <1>3, <1>6, <2>2 DEF RunInv
  <2> QED BY <1>7, <2>1, <2>2
<1>15. CkptOf(s)'
  BY <1>6 DEF CkptOf
<1>16. LocalInv(s)'
  BY <1>10, <1>11, <1>12, <1>13, <1>14, <1>15 DEF LocalInv
<1>17. pc[s] \notin SnapHeld \cup ScanPcs /\ pc'[s] \notin SnapHeld \cup ScanPcs
  BY <1>3 DEF SnapHeld, ScanPcs, AllocPcs
<1> QED BY <1>4, <1>5, <1>8, <1>16, <1>17, PlainStep DEF lock

LEMMA AllocateStep ==
    ASSUME TableInv, NEW s \in Sessions, Allocate(s),
           NEW r \in {"idle", "ckpt_share"}, ret' = [ret EXCEPT ![s] = r],
           pc[s] \in {"idle", "ckpt_alloc"},
           pc[s] = "idle" <=> r = "idle",
           txn[s].id = NONE, txn[s].state = "running", txn[s].published,
           txn[s].ceiling = NONE
    PROVE  TableInv'
<1>1. TypeInv /\ SlotInv(s) /\ PubInv(s) /\ TxnInv(s)
  BY DEF TableInv, LocalInv
<1>2. /\ txn[s] \in TxnRec /\ shared[s] \in SharedRec /\ scan[s] \in ScanRec
      /\ current \in Nat
  BY <1>1 DEF TypeInv
<1>3. PICK h : h = [shared[s] EXCEPT !.is_allocating = TRUE]
  BY Zenon
<1>4. /\ h \in SharedRec /\ h.is_allocating = TRUE /\ h.id = shared[s].id
      /\ h.pinned_id = shared[s].pinned_id
      /\ h.metadata_pinned = shared[s].metadata_pinned
  BY <1>2, <1>3 DEF SharedRec
<1>5. PICK c : c = [scan[s] EXCEPT !.id = current]
  BY Zenon
<1>6. c \in ScanRec /\ c.id = current /\ c.slot = scan[s].slot
  BY <1>2, <1>5 DEF ScanRec, Ids
<1>7. /\ pc' = [pc EXCEPT ![s] = "alloc_publish"]
      /\ shared' = [shared EXCEPT ![s] = h] /\ scan' = [scan EXCEPT ![s] = c]
      /\ txn' = [txn EXCEPT ![s] = txn[s]]
      /\ UNCHANGED <<current, oldest_id, last_running, metadata_pinned, ckpt, lock, txn,
                     prev, claimed>>
  BY <1>1, <1>3, <1>5 DEF Allocate, Goto, globals, TypeInv
<1>8. /\ pc'[s] = "alloc_publish" /\ shared'[s] = h /\ scan'[s] = c /\ txn'[s] = txn[s]
  BY <1>1, <1>7 DEF TypeInv
<1>9. shared[s].id = NONE
  BY <1>1 DEF SlotInv, AllocPcs
<1>10. shared[s].pinned_id <= current
  BY <1>1, <1>2, TxnFields, SharedFields DEF PubInv, TxnInv
<1>11. SlotInv(s)'
  BY <1>2, <1>4, <1>6, <1>7, <1>8, <1>9, <1>10 DEF SlotInv, AllocPcs
<1>12. "alloc_publish" \in AllocPcs /\ pc[s] \notin AllocPcs
  BY DEF AllocPcs
<1>13. current' \in Nat /\ current <= current'
  BY <1>2, <1>7
<1> QED BY <1>2, <1>4, <1>6, <1>7, <1>11, <1>12, <1>13, AllocStep

LEMMA ModifyStep ==
    ASSUME TableInv, NEW s \in Sessions, Modify(s)
    PROVE  TableInv'
<1>1. TypeInv /\ RetInv(s) /\ TxnInv(s) /\ PinInv(s)
  BY DEF TableInv, LocalInv
<1>2. /\ pc[s] = "idle" /\ txn[s].state = "running" /\ txn[s].isolation = "snapshot"
      /\ txn[s].id = NONE /\ Allocate(s) /\ ret' = ret
  BY DEF Modify
<1>3. ret[s] = "idle" /\ ret' = [ret EXCEPT ![s] = "idle"]
  BY <1>1, <1>2 DEF RetInv, SnapPcs, SnapHeld, AllocPcs, TypeInv
<1>4. txn[s].published
  BY <1>1, <1>2 DEF TxnInv, QuietPcs
<1>5. txn[s].ceiling = NONE
  BY <1>1, <1>2 DEF PinInv
<1> QED BY <1>2, <1>3, <1>4, <1>5, AllocateStep

LEMMA CkptAllocateStep ==
    ASSUME TableInv, NEW s \in Sessions, CkptAllocate(s)
    PROVE  TableInv'
<1>1. TypeInv /\ RetInv(s) /\ TxnInv(s) /\ PinInv(s)
  BY DEF TableInv, LocalInv
<1>2. /\ pc[s] = "ckpt_alloc" /\ Allocate(s) /\ ret' = [ret EXCEPT ![s] = "ckpt_share"]
  BY DEF CkptAllocate
<1>3. txn[s].id = NONE /\ txn[s].state = "running" /\ txn[s].published
  BY <1>1, <1>2 DEF TxnInv
<1>4. txn[s].ceiling = NONE
  BY <1>1, <1>2 DEF PinInv, QuietPcs, ScanPcs
<1> QED BY <1>2, <1>3, <1>4, AllocateStep

\* What every session that allocates has in common.
LEMMA AllocFacts ==
    ASSUME TableInv, NEW s \in Sessions, pc[s] \in AllocPcs
    PROVE  /\ txn[s].state = "running" /\ txn[s].published /\ txn[s].ceiling = NONE
           /\ ret[s] \in {"idle", "ckpt_share"} /\ shared[s].is_allocating
           /\ ckpt.session # s /\ shared[s].pinned_id \in Nat
           /\ shared[s].pinned_id >= 1
<1>1. TypeInv /\ OrderInv /\ LocalInv(s)
  BY DEF TableInv
<1>2. shared[s] \in SharedRec /\ oldest_id \in Nat /\ metadata_pinned \in Nat
  BY <1>1 DEF TypeInv
<1>3. txn[s].state = "running" /\ txn[s].published
  BY <1>1 DEF LocalInv, TxnInv
<1>4. txn[s].ceiling = NONE
  BY <1>1 DEF LocalInv, PinInv, QuietPcs, ScanPcs, AllocPcs
<1>5. ret[s] \in {"idle", "ckpt_share"} /\ shared[s].is_allocating
  BY <1>1 DEF LocalInv, RetInv, SlotInv
<1>6. ckpt.session # s
  BY <1>1 DEF LocalInv, CkptOf, AllocPcs, SnapPcs, SnapHeld
<1>7. shared[s].pinned_id >= 1
  BY <1>1, <1>2, <1>3, SharedFields DEF LocalInv, PubInv, OrderInv, FIRST
<1> QED BY <1>2, <1>3, <1>4, <1>5, <1>6, <1>7, SharedFields

LEMMA AllocPublishStep ==
    ASSUME TableInv, NEW s \in Sessions, AllocPublish(s)
    PROVE  TableInv'
<1>1. TypeInv /\ SlotInv(s)
  BY DEF TableInv, LocalInv
<1>2. /\ txn[s] \in TxnRec /\ shared[s] \in SharedRec /\ scan[s] \in ScanRec
      /\ current \in Nat
  BY <1>1 DEF TypeInv
<1>3. PICK h : h = [shared[s] EXCEPT !.id = scan[s].id]
  BY Zenon
<1>4. /\ h \in SharedRec /\ h.is_allocating = shared[s].is_allocating
      /\ h.id = scan[s].id /\ h.pinned_id = shared[s].pinned_id
      /\ h.metadata_pinned = shared[s].metadata_pinned
  BY <1>2, <1>3, ScanFields DEF SharedRec, Ids
<1>5. PICK c : c = [scan[s] EXCEPT !.id = NONE]
  BY Zenon
<1>6. c \in ScanRec /\ c.slot = scan[s].slot
  BY <1>2, <1>5 DEF ScanRec, Ids, NONE
<1>7. pc[s] = "alloc_publish"
  BY DEF AllocPublish
<1>8. /\ pc' = [pc EXCEPT ![s] = "alloc_add"]
      /\ shared' = [shared EXCEPT ![s] = h] /\ scan' = [scan EXCEPT ![s] = c]
      /\ txn' = [txn EXCEPT ![s] = txn[s]] /\ ret' = [ret EXCEPT ![s] = ret[s]]
      /\ UNCHANGED <<current, oldest_id, last_running, metadata_pinned, ckpt, lock, txn,
                     prev, claimed>>
  BY <1>1, <1>3, <1>5 DEF AllocPublish, Goto, globals, TypeInv
<1>9. /\ pc'[s] = "alloc_add" /\ shared'[s] = h /\ txn'[s] = txn[s]
  BY <1>1, <1>8 DEF TypeInv
<1>10. pc[s] \in AllocPcs /\ "alloc_add" \in AllocPcs
  BY <1>7 DEF AllocPcs
<1>11. SlotInv(s)'
  BY <1>1, <1>4, <1>7, <1>8, <1>9, <1>10 DEF SlotInv
<1>12. current' \in Nat /\ current <= current'
  BY <1>2, <1>8
<1>13. /\ ret[s] \in {"idle", "ckpt_share"} /\ txn[s].state = "running"
      /\ txn[s].published /\ txn[s].ceiling = NONE
  BY <1>10, AllocFacts
<1> QED BY <1>2, <1>4, <1>6, <1>7, <1>8, <1>10, <1>11, <1>12, <1>13, AllocStep

LEMMA AllocAddStep ==
    ASSUME TableInv, NEW s \in Sessions, AllocAdd(s)
    PROVE  TableInv'
<1>1. TypeInv /\ SlotInv(s) /\ OrderInv
  BY DEF TableInv, LocalInv
<1>2. /\ txn[s] \in TxnRec /\ shared[s] \in SharedRec /\ scan[s] \in ScanRec
      /\ current \in Nat
  BY <1>1 DEF TypeInv
<1>3. PICK x : x = [txn[s] EXCEPT !.id = current]
  BY Zenon
<1>4. /\ x \in TxnRec /\ x.state = txn[s].state /\ x.isolation = txn[s].isolation
      /\ x.id = current /\ x.has_snapshot = txn[s].has_snapshot
      /\ x.published = txn[s].published /\ x.snapshot = txn[s].snapshot
      /\ x.snap_max = txn[s].snap_max /\ x.ceiling = txn[s].ceiling
  BY <1>2, <1>3 DEF TxnRec, Ids
<1>5. pc[s] = "alloc_add"
  BY DEF AllocAdd
<1>6. /\ pc' = [pc EXCEPT ![s] = "alloc_id"] /\ current' = current + 1
      /\ shared' = [shared EXCEPT ![s] = shared[s]] /\ scan' = [scan EXCEPT ![s] = scan[s]]
      /\ txn' = [txn EXCEPT ![s] = x] /\ ret' = [ret EXCEPT ![s] = ret[s]]
      /\ UNCHANGED <<oldest_id, last_running, metadata_pinned, ckpt, lock, shared,
                     prev, claimed>>
  BY <1>1, <1>3 DEF AllocAdd, Goto, locals, TypeInv
<1>7. pc'[s] = "alloc_id" /\ txn'[s] = x /\ shared'[s] = shared[s]
  BY <1>1, <1>6 DEF TypeInv
<1>8. pc[s] \in AllocPcs /\ "alloc_id" \in AllocPcs
  BY <1>5 DEF AllocPcs
<1>9. current >= 1 /\ current' \in Nat /\ current <= current'
  BY <1>1, <1>2, <1>6 DEF OrderInv, TypeInv, FIRST
<1>10. SlotInv(s)'
  BY <1>1, <1>4, <1>5, <1>7, <1>8, <1>9 DEF SlotInv, NONE
<1>11. /\ ret[s] \in {"idle", "ckpt_share"} /\ txn[s].state = "running"
      /\ txn[s].published /\ txn[s].ceiling = NONE
  BY <1>8, AllocFacts
<1>12. PICK r \in {"idle", "ckpt_share"} : r = ret[s] /\ ret' = [ret EXCEPT ![s] = r]
  BY <1>6, <1>11
<1>13. /\ "alloc_id" \in AllocPcs \cup {"idle", "ckpt_share"}
       /\ "alloc_id" # "idle" /\ "alloc_id" # "ckpt_share"
       /\ pc[s] \in AllocPcs \cup {"idle", "ckpt_alloc"} /\ pc[s] # "idle"
  BY <1>5, <1>8
<1>14. x.state = "running" /\ x.ceiling = NONE /\ x.published = txn[s].published
  BY <1>4, <1>11
<1> QED BY <1>2, <1>4, <1>6, <1>9, <1>10, <1>11, <1>12, <1>13, <1>14, AllocStep

LEMMA AllocPublishIdStep ==
    ASSUME TableInv, NEW s \in Sessions, AllocPublishId(s)
    PROVE  TableInv'
<1>1. TypeInv /\ SlotInv(s)
  BY DEF TableInv, LocalInv
<1>2. /\ txn[s] \in TxnRec /\ shared[s] \in SharedRec /\ scan[s] \in ScanRec
      /\ current \in Nat
  BY <1>1 DEF TypeInv
<1>3. PICK h : h = [shared[s] EXCEPT !.id = txn[s].id]
  BY Zenon
<1>4. /\ h \in SharedRec /\ h.is_allocating = shared[s].is_allocating
      /\ h.id = txn[s].id /\ h.pinned_id = shared[s].pinned_id
      /\ h.metadata_pinned = shared[s].metadata_pinned
  BY <1>2, <1>3, TxnFields DEF SharedRec, Ids
<1>5. pc[s] = "alloc_id"
  BY DEF AllocPublishId
<1>6. /\ pc' = [pc EXCEPT ![s] = "alloc_end"]
      /\ shared' = [shared EXCEPT ![s] = h] /\ scan' = [scan EXCEPT ![s] = scan[s]]
      /\ txn' = [txn EXCEPT ![s] = txn[s]] /\ ret' = [ret EXCEPT ![s] = ret[s]]
      /\ UNCHANGED <<current, oldest_id, last_running, metadata_pinned, ckpt, lock, txn,
                     prev, claimed>>
  BY <1>1, <1>3 DEF AllocPublishId, Goto, globals, locals, TypeInv
<1>7. pc'[s] = "alloc_end" /\ shared'[s] = h /\ txn'[s] = txn[s]
  BY <1>1, <1>6 DEF TypeInv
<1>8. pc[s] \in AllocPcs /\ "alloc_end" \in AllocPcs
  BY <1>5 DEF AllocPcs
<1>9. SlotInv(s)'
  BY <1>1, <1>4, <1>5, <1>7, <1>8 DEF SlotInv
<1>10. current' \in Nat /\ current <= current'
  BY <1>2, <1>6
<1>11. /\ ret[s] \in {"idle", "ckpt_share"} /\ txn[s].state = "running"
      /\ txn[s].published /\ txn[s].ceiling = NONE
  BY <1>8, AllocFacts
<1> QED BY <1>2, <1>4, <1>5, <1>6, <1>8, <1>9, <1>10, <1>11, AllocStep

LEMMA AllocEndStep ==
    ASSUME TableInv, NEW s \in Sessions, AllocEnd(s)
    PROVE  TableInv'
<1>1. TypeInv /\ SlotInv(s)
  BY DEF TableInv, LocalInv
<1>2. /\ txn[s] \in TxnRec /\ shared[s] \in SharedRec /\ scan[s] \in ScanRec
      /\ current \in Nat
  BY <1>1 DEF TypeInv
<1>3. PICK h : h = [shared[s] EXCEPT !.is_allocating = FALSE]
  BY Zenon
<1>4. /\ h \in SharedRec /\ h.is_allocating = FALSE
      /\ h.id = shared[s].id /\ h.pinned_id = shared[s].pinned_id
      /\ h.metadata_pinned = shared[s].metadata_pinned
  BY <1>2, <1>3 DEF SharedRec
<1>5. pc[s] = "alloc_end" /\ pc[s] \in AllocPcs
  BY DEF AllocEnd, AllocPcs
<1>6. PICK l : l = ret[s]
  BY Zenon
<1>7. /\ l \in {"idle", "ckpt_share"} /\ l \notin AllocPcs /\ txn[s].state = "running"
      /\ txn[s].published /\ txn[s].ceiling = NONE /\ ckpt.session # s
  BY <1>5, <1>6, AllocFacts DEF AllocPcs
<1>8. /\ pc' = [pc EXCEPT ![s] = l]
      /\ shared' = [shared EXCEPT ![s] = h] /\ scan' = [scan EXCEPT ![s] = scan[s]]
      /\ txn' = [txn EXCEPT ![s] = txn[s]] /\ ret' = [ret EXCEPT ![s] = "idle"]
      /\ UNCHANGED <<current, oldest_id, last_running, metadata_pinned, ckpt, lock, txn,
                     prev, claimed>>
  BY <1>1, <1>3, <1>6 DEF AllocEnd, Goto, globals, TypeInv
<1>9. pc'[s] = l /\ shared'[s] = h /\ txn'[s] = txn[s]
  BY <1>1, <1>8 DEF TypeInv
<1>10. txn[s].id # NONE /\ shared[s].id = txn[s].id
  BY <1>1, <1>5 DEF SlotInv
<1>11. SlotInv(s)'
  BY <1>4, <1>7, <1>8, <1>9, <1>10 DEF SlotInv, Active, AllocPcs
<1>12. current' \in Nat /\ current <= current'
  BY <1>2, <1>8
<1> QED BY <1>2, <1>4, <1>5, <1>6, <1>7, <1>8, <1>10, <1>11, <1>12, AllocStep

LEMMA PinUncommittedStep ==
    ASSUME TableInv, NEW s \in Sessions, PinUncommitted(s)
    PROVE  TableInv'
<1>1. /\ TypeInv /\ LockInv /\ RetInv(s) /\ TxnInv(s) /\ SlotInv(s) /\ PubInv(s) /\ PinInv(s)
      /\ RunInv(s) /\ CkptOf(s)
  BY DEF TableInv, LocalInv
<1>2. /\ txn[s] \in TxnRec /\ shared[s] \in SharedRec /\ scan[s] \in ScanRec
      /\ oldest_id \in Nat
  BY <1>1 DEF TypeInv
<1>3. pc[s] = "pin"
  BY DEF PinUncommitted
<1>4. ~txn[s].published /\ ~txn[s].has_snapshot /\ txn[s].isolation = "read-uncommitted"
      /\ scan[s].id # NONE
  BY <1>1, <1>3 DEF TxnInv, QuietPcs
<1> DEFINE R == Reach \cup {scan[s].id}
<1>5. PICK top : top = CHOOSE id \in R : \A other \in R : other <= id
  BY Zenon
<1>6. /\ top \in Nat /\ scan[s].id <= top /\ oldest_id <= top
      /\ \A w \in writers : ScannedOldest(w) <= top
  <2>1. \A w \in writers : ScannedOldest(w) \in Nat
    BY <1>1, ScanFields DEF TypeInv, ScannedOldest, Least
  <2>2. \E id \in R : \A other \in R : other <= id
    <3>1. CASE writers = {}
      <4>1. R = {oldest_id, scan[s].id}
        BY <3>1 DEF Reach
      <4> QED BY <1>2, <4>1, ScanFields
    <3>2. CASE writers # {}
      <4>1. PICK w \in writers : TRUE
        BY <3>2
      <4>2. R = {oldest_id, scan[s].id, ScannedOldest(w)}
        BY <1>1, <4>1 DEF Reach, LockInv
      <4> QED BY <1>2, <2>1, <4>1, <4>2, ScanFields
    <3> QED BY <3>1, <3>2
  <2>3. top \in R /\ \A other \in R : other <= top
    BY <1>5, <2>2
  <2>4. \A r \in R : r \in Nat
    BY <1>2, <2>1, ScanFields DEF Reach
  <2> QED BY <2>3, <2>4 DEF Reach
<1>7. PICK x : x = [txn[s] EXCEPT !.ceiling = top]
  BY Zenon
<1>8. /\ x \in TxnRec /\ x.state = txn[s].state /\ x.isolation = txn[s].isolation
      /\ x.id = txn[s].id /\ x.has_snapshot = txn[s].has_snapshot
      /\ x.published = txn[s].published /\ x.snapshot = txn[s].snapshot
      /\ x.snap_max = txn[s].snap_max /\ x.ceiling = top
  BY <1>2, <1>6, <1>7 DEF TxnRec, Ids
<1>9. PICK h : h = [shared[s] EXCEPT !.pinned_id = scan[s].id,
                      !.metadata_pinned = IF @ = NONE THEN scan[s].id ELSE @]
  BY Zenon
<1>10. /\ h \in SharedRec /\ h.id = shared[s].id
       /\ h.is_allocating = shared[s].is_allocating /\ h.pinned_id = scan[s].id
  BY <1>2, <1>9, ScanFields DEF SharedRec, Ids
<1>11. PICK c : c = [scan[s] EXCEPT !.id = NONE]
  BY Zenon
<1>12. c \in ScanRec /\ c.slot = scan[s].slot
  BY <1>2, <1>11 DEF ScanRec, Ids, NONE
<1>13. /\ pc' = [pc EXCEPT ![s] = "idle"] /\ scan' = [scan EXCEPT ![s] = c]
       /\ UNCHANGED <<globals, ckpt, lock, ret, prev, claimed>>
  BY <1>11 DEF PinUncommitted, Goto
<1>14. txn' = [txn EXCEPT ![s] = x]
  BY <1>5, <1>7 DEF PinUncommitted
<1>15. shared' = [shared EXCEPT ![s] = h]
  BY <1>9 DEF PinUncommitted
<1>16. /\ pc'[s] = "idle" /\ txn'[s] = x /\ shared'[s] = h /\ scan'[s] = c
       /\ "idle" \in Labels
  BY <1>1, <1>13, <1>14, <1>15 DEF TypeInv, Labels
<1>17. TypeInv'
  BY <1>1, <1>8, <1>10, <1>12, <1>13, <1>14, <1>15, <1>16 DEF TypeInv, globals, lock
<1>18. OnlyMine(s) /\ GlobalsKept(s)
  BY <1>1, <1>13, <1>14, <1>15 DEF OnlyMine, GlobalsKept, TypeInv, globals
<1>19. Active(s)' <=> Active(s)
  BY <1>3, <1>8, <1>16 DEF Active
<1>20. TargetKept(s) /\ SnapshotKept(s)
  BY <1>4, <1>6, <1>8, <1>13, <1>16, <1>19 DEF TargetKept, SnapshotKept
<1>21. RetInv(s)'
  BY <1>1, <1>3, <1>12, <1>13, <1>16 DEF RetInv, SnapPcs, SnapHeld, AllocPcs, ScanPcs
<1>22. TxnInv(s)'
  BY <1>1, <1>3, <1>4, <1>8, <1>13, <1>16
     DEF TxnInv, SnapPcs, SnapHeld, AllocPcs, ScanPcs, QuietPcs, globals
<1>23. SlotInv(s)'
  BY <1>1, <1>3, <1>8, <1>10, <1>13, <1>16, <1>19 DEF SlotInv, AllocPcs
<1>24. PubInv(s)' /\ RunInv(s)'
  BY <1>1, <1>4, <1>8, <1>13, <1>16, <1>19 DEF PubInv, RunInv, globals
<1>25. PinInv(s)'
  BY <1>4, <1>6, <1>8, <1>10, <1>13, <1>16 DEF PinInv, QuietPcs, globals
<1>26. CkptOf(s)'
  BY <1>1, <1>3, <1>13 DEF CkptOf, SnapPcs, SnapHeld
<1>27. LocalInv(s)'
  BY <1>21, <1>22, <1>23, <1>24, <1>25, <1>26 DEF LocalInv
<1>28. pc[s] \notin SnapHeld \cup ScanPcs /\ pc'[s] \notin SnapHeld \cup ScanPcs
  BY <1>3, <1>16 DEF SnapHeld, ScanPcs
<1> QED BY <1>13, <1>17, <1>18, <1>20, <1>27, <1>28, PlainStep DEF lock

-----------------------------------------------------------------------------
(* The steps of a walk. *)

\* A step of a walk changes the lock at most, the session's locals, and what its
\* slot says of the metadata.
LEMMA WalkStep ==
    ASSUME TableInv, NEW s \in Sessions, TypeInv',
           UNCHANGED <<globals, ckpt, txn, claimed>>,
           OnlyMine(s), shared'[s].pinned_id = shared[s].pinned_id,
           writers' \subseteq writers \cup {s},
           pc[s] # "prepare_id", pc'[s] # "prepare_id",
           LockInv', LocalInv(s)', WalkInv(s)',
           \A v \in Sessions : SnapInv(s, v)' /\ WriteInv(s, v)'
    PROVE  TableInv'
<1>1. ckpt' \in CkptRec /\ claimed' = claimed
  BY DEF TypeInv
<1>2. GlobalsKept(s)
  BY DEF TableInv, TypeInv, GlobalsKept, globals
<1>3. TargetKept(s) /\ SnapshotKept(s)
  BY DEF TargetKept, SnapshotKept, Active
<1>4. OrderInv'
  BY DEF TableInv, OrderInv, globals
<1>5. \A t \in Sessions : LocalInv(t)'
  BY <1>1, <1>2, LocalOthers
<1>6. \A t \in Sessions : WalkInv(t)'
  BY <1>1, <1>2, WalkOthers
<1>7. \A u, v \in Sessions : PairInv(u, v)'
  <2> TAKE u, v \in Sessions
  <2>1. SnapInv(u, v)'
    BY <1>1, <1>2, <1>3, SnapOthers
  <2>2. WriteInv(u, v)'
    BY <1>1, <1>2, <1>3, WriteOthers
  <2>3. ExclInv(u, v)'
    BY <1>3, ExclKept
  <2> QED BY <2>1, <2>2, <2>3 DEF PairInv
<1>8. CkptInv'
  BY <1>2, CkptInvKept
<1> QED
  BY <1>4, <1>5, <1>6, <1>7, <1>8 DEF TableInv

\* What a walk finds in a slot: an active transaction that is in the table shows
\* an id that is not larger than its own and not below the oldest ...
LEMMA ActiveSlot ==
    ASSUME TableInv, NEW v \in Sessions, Active(v), ckpt.session # v
    PROVE  /\ shared[v].id # NONE /\ oldest_id <= shared[v].id
           /\ shared[v].id <= txn[v].id
           /\ ~shared[v].is_allocating => shared[v].id = txn[v].id
<1>1. /\ TypeInv /\ OrderInv /\ SlotInv(v) /\ PubInv(v) /\ RunInv(v) /\ TxnInv(v)
  BY DEF TableInv, LocalInv
<1>2. /\ txn[v] \in TxnRec /\ shared[v] \in SharedRec /\ oldest_id \in Nat
      /\ metadata_pinned \in Nat /\ txn[v].id # NONE
  BY <1>1 DEF TypeInv, Active
<1>3. oldest_id >= 1
  BY <1>1, <1>2 DEF OrderInv, FIRST
<1>4. CASE pc[v] \notin AllocPcs
  <2>1. shared[v].id = txn[v].id
    BY <1>1, <1>4 DEF SlotInv
  <2> QED BY <1>1, <1>2, <2>1, TxnFields DEF RunInv
<1>5. CASE pc[v] \in AllocPcs
  <2>1. shared[v].is_allocating /\ txn[v].published
    BY <1>1, <1>5 DEF SlotInv, TxnInv
  <2>2. oldest_id <= shared[v].pinned_id
    BY <1>1, <2>1 DEF PubInv
  <2>3. CASE pc[v] = "alloc_id"
    <3>1. shared[v].pinned_id <= shared[v].id /\ shared[v].id <= txn[v].id
      BY <1>1, <2>3 DEF SlotInv
    <3> QED BY <1>2, <1>3, <2>1, <2>2, <3>1, SharedFields, TxnFields DEF NONE
  <2>4. CASE pc[v] = "alloc_end"
    <3>1. shared[v].id = txn[v].id
      BY <1>1, <2>4 DEF SlotInv
    <3> QED BY <1>1, <1>2, <3>1, TxnFields DEF RunInv
  <2>5. pc[v] \in {"alloc_id", "alloc_end"}
    BY <1>1, <1>2, <1>5 DEF SlotInv, AllocPcs
  <2> QED BY <2>3, <2>4, <2>5
<1> QED BY <1>4, <1>5

\* ... and an id whose owner is not allocating is an active transaction's.
LEMMA SlotActive ==
    ASSUME TableInv, NEW v \in Sessions, shared[v].id # NONE, ~shared[v].is_allocating
    PROVE  Active(v) /\ ckpt.session # v /\ txn[v].id = shared[v].id
BY DEF TableInv, LocalInv, SlotInv

\* Every id in the table was handed out, or will be next.
LEMMA SlotBound ==
    ASSUME TableInv, NEW v \in Sessions
    PROVE  shared[v].id <= current
<1>1. /\ TypeInv /\ SlotInv(v) /\ TxnInv(v)
  BY DEF TableInv, LocalInv
<1>2. /\ txn[v] \in TxnRec /\ shared[v] \in SharedRec /\ current \in Nat
  BY <1>1 DEF TypeInv
<1> QED BY <1>1, <1>2, TxnFields, SharedFields DEF SlotInv, TxnInv, AllocPcs, NONE

\* What a step between two places of the snapshot's walk keeps of the session's
\* own part.
LEMMA SnapLocal ==
    ASSUME TableInv, NEW s \in Sessions, TypeInv',
           pc[s] \in SnapPcs, pc'[s] \in SnapPcs,
           UNCHANGED <<globals, ckpt, txn, claimed>>,
           ret'[s] = ret[s], scan'[s].publish = scan[s].publish,
           shared'[s].id = shared[s].id,
           shared'[s].is_allocating = shared[s].is_allocating,
           pc'[s] \notin {"snap_id", "snap_reread"} => scan'[s].slot = 1,
           pc'[s] = "snap_reread" => scan'[s].slot <= N
    PROVE  LocalInv(s)'
<1> USE DEF SnapPcs, SnapHeld
<1>1. LocalInv(s)
  BY DEF TableInv
<1>2. Active(s)' <=> Active(s)
  BY DEF Active
<1>3. RetInv(s)'
  BY <1>1 DEF LocalInv, RetInv, AllocPcs, ScanPcs
<1>4. TxnInv(s)'
  BY <1>1 DEF LocalInv, TxnInv, AllocPcs, ScanPcs, QuietPcs, globals
<1>5. SlotInv(s)'
  BY <1>1, <1>2 DEF LocalInv, SlotInv, AllocPcs
<1>6. PubInv(s)'
  BY <1>1 DEF LocalInv, TxnInv, PubInv
<1>7. PinInv(s)' /\ RunInv(s)'
  BY <1>1, <1>2 DEF LocalInv, PinInv, RunInv, QuietPcs, ScanPcs, globals
<1>8. CkptOf(s)'
  BY <1>1 DEF LocalInv, CkptOf, globals
<1> QED BY <1>3, <1>4, <1>5, <1>6, <1>7, <1>8 DEF LocalInv

LEMMA SnapLockStep ==
    ASSUME TableInv, NEW s \in Sessions, SnapLock(s)
    PROVE  TableInv'
<1>1. /\ TypeInv /\ LockInv /\ OrderInv /\ RetInv(s) /\ TxnInv(s) /\ CkptOf(s)
  BY DEF TableInv, LocalInv
<1>2. /\ scan[s] \in ScanRec /\ txn[s] \in TxnRec /\ ckpt \in CkptRec
      /\ current \in Nat /\ oldest_id \in Nat /\ last_running \in Nat
  BY <1>1 DEF TypeInv
<1>3. PICK c : c = [scan[s] EXCEPT !.current = current, !.pinned = current,
                                   !.oldest = oldest_id]
  BY Zenon
<1>4. /\ c \in ScanRec /\ c.current = current /\ c.pinned = current
      /\ c.oldest = oldest_id /\ c.slot = scan[s].slot /\ c.publish = scan[s].publish
  BY <1>2, <1>3 DEF ScanRec, Ids
<1>5. /\ pc[s] = "snap_lock" /\ pc' = [pc EXCEPT ![s] = "snap_ckpt"]
      /\ scan' = [scan EXCEPT ![s] = c] /\ shared' = shared /\ ret' = ret /\ prev' = prev
      /\ UNCHANGED <<globals, ckpt, txn, claimed>>
  BY <1>3 DEF SnapLock, Goto
<1>6. writers = {} /\ writers' = writers /\ readers' = readers \cup {s}
  BY DEF SnapLock, rwlock!AcquireRead, rwlock!MayRead
<1>7. pc'[s] = "snap_ckpt" /\ scan'[s] = c /\ "snap_ckpt" \in Labels
  BY <1>1, <1>5 DEF TypeInv, Labels
<1>8. TypeInv'
  BY <1>1, <1>4, <1>5, <1>6, <1>7 DEF TypeInv, globals
<1>9. OnlyMine(s)
  BY <1>1, <1>5 DEF OnlyMine, TypeInv
<1>10. LockInv'
  BY <1>1, <1>5, <1>6, <1>7, <1>9 DEF LockInv, OnlyMine, SnapHeld
<1>11. LocalInv(s)'
  <2>1. scan[s].slot = 1
    BY <1>1, <1>5 DEF RetInv, ScanPcs
  <2> QED BY <1>4, <1>5, <1>7, <1>8, <2>1, SnapLocal DEF SnapPcs, SnapHeld
<1>12. WalkInv(s)'
  <2>1. ckpt.session = s => ckpt.pinned_id <= current
    BY <1>1, <1>2, <1>5, CkptFields, TxnFields DEF CkptOf, TxnInv
  <2>2. oldest_id <= current
    BY <1>1, <1>2 DEF OrderInv
  <2> QED BY <1>2, <1>4, <1>5, <1>6, <1>7, <2>1, <2>2
          DEF WalkInv, SnapWalkInv, WriteWalkInv, globals
<1>13. \A v \in Sessions : SnapInv(s, v)' /\ WriteInv(s, v)'
  BY <1>6, <1>7 DEF SnapInv, WriteInv
<1> QED
  BY <1>5, <1>6, <1>7, <1>8, <1>9, <1>10, <1>11, <1>12, <1>13, WalkStep

LEMMA SnapCheckpointStep ==
    ASSUME TableInv, NEW s \in Sessions, SnapCheckpoint(s)
    PROVE  TableInv'
<1>1. /\ TypeInv /\ LockInv /\ CkptInv /\ OrderInv /\ RetInv(s) /\ CkptOf(s) /\ SnapWalkInv(s)
  BY DEF TableInv, LocalInv, WalkInv
<1>2. /\ scan[s] \in ScanRec /\ shared[s] \in SharedRec /\ ckpt \in CkptRec
      /\ current \in Nat /\ oldest_id \in Nat /\ metadata_pinned \in Nat
  BY <1>1 DEF TypeInv
<1>3. PICK ids : ids = IF ckpt.id = NONE \/ ckpt.id = txn[s].id THEN {} ELSE {ckpt.id}
  BY Zenon
<1>4. PICK c : c = [scan[s] EXCEPT !.snapshot = ids]
  BY Zenon
<1>5. /\ c \in ScanRec /\ c.current = scan[s].current /\ c.pinned = scan[s].pinned
      /\ c.oldest = scan[s].oldest /\ c.slot = scan[s].slot
      /\ c.publish = scan[s].publish /\ c.snapshot = ids
  BY <1>2, <1>3, <1>4, CkptFields DEF ScanRec, Ids
<1>6. PICK l : l = IF scan[s].oldest = scan[s].current THEN "snap_publish" ELSE "snap_id"
  BY Zenon
<1>7. /\ pc[s] = "snap_ckpt" /\ pc' = [pc EXCEPT ![s] = l]
      /\ ret' = ret /\ prev' = prev
      /\ UNCHANGED <<globals, ckpt, lock, txn, claimed>>
  BY <1>6 DEF SnapCheckpoint, Goto
<1>8. scan' = [scan EXCEPT ![s] = c]
  BY <1>3, <1>4 DEF SnapCheckpoint
<1>9. /\ pc'[s] = l /\ scan'[s] = c /\ l \in {"snap_publish", "snap_id"} /\ l \in Labels
  BY <1>1, <1>6, <1>7, <1>8 DEF TypeInv, Labels
<1>10. /\ shared' \in [Sessions -> SharedRec]
       /\ \A u \in Sessions : u # s => shared'[u] = shared[u]
       /\ shared'[s].id = shared[s].id
       /\ shared'[s].is_allocating = shared[s].is_allocating
       /\ shared'[s].pinned_id = shared[s].pinned_id
       /\ ckpt.id # NONE /\ scan[s].publish => shared'[s].metadata_pinned = ckpt.id
  <2>1. CASE ckpt.id # NONE /\ scan[s].publish
    <3>1. PICK h : h = [shared[s] EXCEPT !.metadata_pinned = ckpt.id]
      BY Zenon
    <3>2. /\ h \in SharedRec /\ h.id = shared[s].id
          /\ h.is_allocating = shared[s].is_allocating
          /\ h.pinned_id = shared[s].pinned_id /\ h.metadata_pinned = ckpt.id
      BY <1>2, <3>1, CkptFields DEF SharedRec, Ids
    <3>3. shared' = [shared EXCEPT ![s] = h]
      BY <2>1, <3>1 DEF SnapCheckpoint
    <3> QED BY <1>1, <3>2, <3>3 DEF TypeInv
  <2>2. CASE ~(ckpt.id # NONE /\ scan[s].publish)
    <3>1. shared' = shared
      BY <2>2 DEF SnapCheckpoint
    <3> QED BY <1>1, <2>2, <3>1 DEF TypeInv
  <2> QED BY <2>1, <2>2
<1>11. TypeInv'
  BY <1>1, <1>5, <1>7, <1>8, <1>9, <1>10 DEF TypeInv, globals, lock
<1>12. OnlyMine(s)
  BY <1>1, <1>7, <1>8, <1>10 DEF OnlyMine, TypeInv
<1>13. LockInv'
  BY <1>7, <1>9, <1>12, LockKept DEF lock, SnapHeld, ScanPcs
<1>14. scan[s].slot = 1
  BY <1>1, <1>7 DEF RetInv, ScanPcs
<1>15. LocalInv(s)'
  BY <1>5, <1>7, <1>9, <1>10, <1>11, <1>14, SnapLocal DEF SnapPcs, SnapHeld
<1>16. ckpt.id # NONE => /\ ckpt.session \in Sessions /\ metadata_pinned <= ckpt.id
  <2>1. ckpt.id # NONE => ckpt.session \in Sessions
    BY <1>1, <1>2, CkptFields, SessionsAssumption DEF CkptInv, Sessions
  <2> QED BY <2>1 DEF TableInv, LocalInv, CkptOf
<1>17. s \notin writers'
  BY <1>1, <1>7 DEF LockInv, lock, ScanPcs
<1>18. WalkInv(s)'
  <2>1. ASSUME NEW id \in ids
        PROVE  /\ id = ckpt.id /\ id # NONE /\ metadata_pinned <= id
               /\ scan[s].publish => id = shared'[s].metadata_pinned
               /\ ret[s] # "ckpt_alloc" /\ ckpt.session # s
    <3>1. id = ckpt.id /\ id # NONE /\ ckpt.id # txn[s].id
      BY <1>3, <2>1
    <3>2. ckpt.session # s
      BY <1>1, <3>1 DEF CkptOf
    <3>3. ret[s] # "ckpt_alloc"
      BY <1>1, <1>16, <3>1, <3>2, RolesAssumption DEF RetInv, CkptInv
    <3> QED BY <1>10, <1>16, <3>1, <3>2, <3>3
  <2>2. SnapWalkInv(s)'
    BY <1>1, <1>2, <1>5, <1>6, <1>7, <1>9, <2>1 DEF SnapWalkInv, SnapHeld, globals
  <2> QED BY <1>17, <2>2 DEF WalkInv, WriteWalkInv
<1>19. \A v \in Sessions : SnapInv(s, v)'
  <2> TAKE v \in Sessions
  <2>1. ASSUME s # v, Active(v), ckpt.session = v
        PROVE  txn[v].id \in ids
    <3>1. txn[v].id = ckpt.id /\ ckpt.id # NONE
      BY <2>1 DEF TableInv, LocalInv, CkptOf
    <3>2. ExclInv(s, v)
      BY DEF TableInv, PairInv
    <3>3. txn[s].id # ckpt.id
      BY <2>1, <3>1, <3>2 DEF ExclInv
    <3> QED BY <1>3, <3>1, <3>3
  <2>2. Active(v)' => v = s \/ Active(v)
    BY <1>7, <1>12 DEF Active, OnlyMine
  <2>3. ~(v < scan'[s].slot)
    BY <1>5, <1>9, <1>14 DEF Sessions
  <2> QED BY <1>5, <1>7, <1>9, <2>1, <2>2, <2>3 DEF SnapInv
<1>20. \A v \in Sessions : WriteInv(s, v)'
  BY <1>17 DEF WriteInv
<1> QED
  BY <1>7, <1>9, <1>10, <1>11, <1>12, <1>13, <1>15, <1>18, <1>19, <1>20, WalkStep DEF lock

LEMMA SnapReadIdStep ==
    ASSUME TableInv, NEW s \in Sessions, SnapReadId(s)
    PROVE  TableInv'
<1>1. /\ TypeInv /\ LockInv /\ RetInv(s) /\ SnapWalkInv(s)
  BY DEF TableInv, LocalInv, WalkInv
<1>2. /\ scan[s] \in ScanRec /\ current \in Nat /\ oldest_id \in Nat
  BY <1>1 DEF TypeInv
<1>3. PICK slot : slot = scan[s].slot
  BY Zenon
<1>4. pc[s] = "snap_id" /\ slot <= N /\ slot \in Nat /\ slot >= 1 /\ slot \in Sessions
  BY <1>2, <1>3, ScanFields DEF SnapReadId, Sessions
<1>5. shared[slot] \in SharedRec
  BY <1>1, <1>4 DEF TypeInv
<1>6. /\ UNCHANGED <<globals, ckpt, shared, lock, txn, ret, prev, claimed>>
      /\ oldest_id' = oldest_id /\ metadata_pinned' = metadata_pinned /\ current' = current
  BY DEF SnapReadId, globals
<1>7. s \notin writers'
  BY <1>1, <1>4, <1>6 DEF LockInv, lock, ScanPcs
<1>8. /\ scan[s].oldest = oldest_id /\ oldest_id <= scan[s].pinned
      /\ scan[s].pinned <= scan[s].current /\ scan[s].current <= current
  BY <1>1, <1>4 DEF SnapWalkInv, SnapHeld
<1>9. CASE /\ \/ slot = s \/ shared[slot].id = NONE \/ shared[slot].id < scan[s].oldest
              \/ shared[slot].id >= scan[s].current
           /\ scan' = [scan EXCEPT ![s].slot = slot + 1] /\ pc' = pc
  <2>1. PICK c : c = [scan[s] EXCEPT !.slot = slot + 1]
    BY Zenon
  <2>2. /\ c \in ScanRec /\ c.current = scan[s].current /\ c.pinned = scan[s].pinned
        /\ c.oldest = scan[s].oldest /\ c.slot = slot + 1
        /\ c.publish = scan[s].publish /\ c.snapshot = scan[s].snapshot
    BY <1>2, <1>4, <2>1, SessionsAssumption DEF ScanRec
  <2>3. scan' = [scan EXCEPT ![s] = c] /\ pc'[s] = "snap_id"
    BY <1>4, <1>9, <2>1
  <2>4. scan'[s] = c
    BY <1>1, <2>3 DEF TypeInv
  <2>5. TypeInv'
    BY <1>1, <1>6, <1>9, <2>2, <2>3 DEF TypeInv, globals, lock
  <2>6. OnlyMine(s)
    BY <1>1, <1>6, <1>9, <2>3 DEF OnlyMine, TypeInv
  <2>7. LockInv'
    BY <1>4, <1>6, <2>3, <2>6, LockKept DEF SnapHeld, ScanPcs
  <2>8. LocalInv(s)'
    BY <1>4, <1>6, <2>2, <2>3, <2>4, <2>5, SnapLocal DEF SnapPcs, SnapHeld
  <2>9. WalkInv(s)'
    BY <1>1, <1>4, <1>6, <1>7, <2>2, <2>3, <2>4
       DEF WalkInv, SnapWalkInv, WriteWalkInv
  <2>10. \A v \in Sessions : SnapInv(s, v)'
    <3> TAKE v \in Sessions
    <3>1. Active(v)' <=> Active(v)
      BY <1>6, <1>9 DEF Active
    <3>2. SnapInv(s, v)
      BY DEF TableInv, PairInv
    <3>3. ASSUME s # v, Active(v), ckpt.session # v, v = slot
          PROVE  txn[v].id >= scan[s].current
      <4>1. /\ shared[v].id # NONE /\ oldest_id <= shared[v].id
            /\ shared[v].id <= txn[v].id
        BY <3>3, ActiveSlot
      <4>2. txn[v] \in TxnRec /\ shared[v] \in SharedRec
        BY <1>1 DEF TypeInv
      <4> QED
        BY <1>2, <1>8, <1>9, <3>3, <4>1, <4>2, TxnFields, SharedFields, ScanFields
    <3>4. v < c.slot => v < slot \/ v = slot
      BY <1>4, <2>2 DEF Sessions
    <3> QED
      BY <1>3, <1>4, <1>6, <2>2, <2>3, <2>4, <3>1, <3>2, <3>3, <3>4 DEF SnapInv, SnapHeld
  <2>11. \A v \in Sessions : WriteInv(s, v)'
    BY <1>7 DEF WriteInv
  <2> QED
    BY <1>4, <1>6, <2>3, <2>5, <2>6, <2>7, <2>8, <2>9, <2>10, <2>11, WalkStep DEF lock
<1>10. CASE /\ ~(\/ slot = s \/ shared[slot].id = NONE \/ shared[slot].id < scan[s].oldest
                 \/ shared[slot].id >= scan[s].current)
            /\ scan' = [scan EXCEPT ![s].id = shared[slot].id]
            /\ pc' = [pc EXCEPT ![s] = "snap_reread"]
  <2>1. PICK c : c = [scan[s] EXCEPT !.id = shared[slot].id]
    BY Zenon
  <2>2. /\ c \in ScanRec /\ c.current = scan[s].current /\ c.pinned = scan[s].pinned
        /\ c.oldest = scan[s].oldest /\ c.slot = slot /\ c.id = shared[slot].id
        /\ c.publish = scan[s].publish /\ c.snapshot = scan[s].snapshot
    BY <1>2, <1>3, <1>5, <2>1, SharedFields DEF ScanRec, Ids
  <2>3. scan' = [scan EXCEPT ![s] = c] /\ pc'[s] = "snap_reread" /\ "snap_reread" \in Labels
    BY <1>1, <1>10, <2>1 DEF TypeInv, Labels
  <2>4. scan'[s] = c
    BY <1>1, <2>3 DEF TypeInv
  <2>5. TypeInv'
    BY <1>1, <1>6, <1>10, <2>2, <2>3 DEF TypeInv, globals, lock
  <2>6. OnlyMine(s)
    BY <1>1, <1>6, <1>10, <2>3 DEF OnlyMine, TypeInv
  <2>7. LockInv'
    BY <1>4, <1>6, <2>3, <2>6, LockKept DEF SnapHeld, ScanPcs
  <2>8. LocalInv(s)'
    BY <1>4, <1>6, <2>2, <2>3, <2>4, <2>5, SnapLocal DEF SnapPcs, SnapHeld
  <2>9. oldest_id <= c.id /\ c.id < c.current
    BY <1>2, <1>5, <1>8, <1>10, <2>2, SharedFields, ScanFields
  <2>10. WalkInv(s)'
    BY <1>1, <1>4, <1>6, <1>7, <2>2, <2>3, <2>4, <2>9
       DEF WalkInv, SnapWalkInv, WriteWalkInv, SnapHeld
  <2>11. \A v \in Sessions : SnapInv(s, v)'
    <3> TAKE v \in Sessions
    <3>1. s # v => (Active(v)' <=> Active(v))
      BY <1>6, <2>6 DEF Active, OnlyMine
    <3>2. SnapInv(s, v)
      BY DEF TableInv, PairInv
    <3> QED
      BY <1>3, <1>4, <1>6, <2>2, <2>3, <2>4, <3>1, <3>2 DEF SnapInv, SnapHeld
  <2>12. \A v \in Sessions : WriteInv(s, v)'
    BY <1>7 DEF WriteInv
  <2> QED
    BY <1>4, <1>6, <2>3, <2>5, <2>6, <2>7, <2>8, <2>10, <2>11, <2>12, WalkStep DEF lock
<1> QED BY <1>3, <1>9, <1>10 DEF SnapReadId, Goto

LEMMA SnapRereadStep ==
    ASSUME TableInv, NEW s \in Sessions, SnapReread(s)
    PROVE  TableInv'
<1>1. /\ TypeInv /\ OrderInv /\ LockInv /\ RetInv(s) /\ SnapWalkInv(s) /\ CkptOf(s)
  BY DEF TableInv, LocalInv, WalkInv
<1>2. /\ scan[s] \in ScanRec /\ txn[s] \in TxnRec /\ ckpt \in CkptRec
      /\ current \in Nat /\ oldest_id \in Nat /\ metadata_pinned \in Nat
  BY <1>1 DEF TypeInv
<1>3. PICK slot, id : slot = scan[s].slot /\ id = scan[s].id
  BY Zenon
<1>4. pc[s] = "snap_reread"
  BY DEF SnapReread
<1>5. slot <= N /\ slot \in Nat /\ slot >= 1 /\ slot \in Sessions /\ id \in Nat
  BY <1>1, <1>2, <1>3, <1>4, ScanFields DEF RetInv, Sessions
<1>6. /\ UNCHANGED <<globals, ckpt, shared, lock, txn, ret, prev, claimed>>
      /\ oldest_id' = oldest_id /\ metadata_pinned' = metadata_pinned /\ current' = current
      /\ pc' = [pc EXCEPT ![s] = "snap_id"]
  BY DEF SnapReread, globals, Goto
<1>7. s \notin writers'
  BY <1>1, <1>4, <1>6 DEF LockInv, lock, ScanPcs
<1>8. /\ scan[s].oldest = oldest_id /\ oldest_id <= scan[s].pinned
      /\ scan[s].pinned <= scan[s].current /\ scan[s].current <= current
      /\ oldest_id <= id /\ id < scan[s].current /\ id # NONE
  BY <1>1, <1>2, <1>3, <1>4, <1>5 DEF SnapWalkInv, SnapHeld, OrderInv, FIRST, NONE
<1>9. pc'[s] = "snap_id" /\ "snap_id" \in Labels
  BY <1>1, <1>6 DEF TypeInv, Labels
<1>10. CASE /\ ~shared[slot].is_allocating /\ shared[slot].id = id
            /\ scan' = [scan EXCEPT ![s].slot = slot + 1, ![s].id = NONE,
                          ![s].snapshot = @ \cup {id}, ![s].pinned = Least(@, id)]
  <2>1. PICK ids, low : ids = scan[s].snapshot \cup {id} /\ low = Least(scan[s].pinned, id)
    BY Zenon
  <2>2. /\ low \in Nat /\ low <= scan[s].pinned /\ low <= id /\ oldest_id <= low
        /\ ids \in SUBSET Ids /\ NONE \in Ids /\ low \in Ids /\ slot + 1 \in 1..(N + 1)
    BY <1>2, <1>5, <1>8, <2>1, ScanFields, SessionsAssumption DEF Least, Ids, NONE
  <2>3. PICK c : c = [scan[s] EXCEPT !.slot = slot + 1, !.id = NONE,
                        !.snapshot = ids, !.pinned = low]
    BY Zenon
  <2>4. /\ c \in ScanRec /\ c.current = scan[s].current /\ c.pinned = low
        /\ c.oldest = scan[s].oldest /\ c.slot = slot + 1
        /\ c.publish = scan[s].publish /\ c.snapshot = ids
    BY <1>2, <2>2, <2>3 DEF ScanRec
  <2>5. scan' = [scan EXCEPT ![s] = c]
    BY <1>10, <2>1, <2>3
  <2>6. scan'[s] = c
    BY <1>1, <2>5 DEF TypeInv
  <2>7. TypeInv'
    BY <1>1, <1>6, <1>9, <2>1, <2>4, <2>5 DEF TypeInv, globals, lock
  <2>8. OnlyMine(s)
    BY <1>1, <1>6, <2>5 DEF OnlyMine, TypeInv
  <2>9. LockInv'
    BY <1>4, <1>6, <1>9, <2>8, LockKept DEF SnapHeld, ScanPcs
  <2>10. LocalInv(s)'
    BY <1>4, <1>6, <1>9, <2>1, <2>4, <2>6, <2>7, SnapLocal DEF SnapPcs, SnapHeld
  <2>11. Active(slot) /\ ckpt.session # slot /\ txn[slot].id = id
    BY <1>5, <1>8, <1>10, SlotActive
  <2>12. ckpt.session = s => ckpt.pinned_id <= id
    <3>1. SUFFICES ASSUME ckpt.session = s
                   PROVE  ckpt.pinned_id <= id
      OBVIOUS
    <3>2. s # slot /\ ExclInv(s, slot)
      BY <1>5, <2>11, <3>1 DEF TableInv, PairInv
    <3>3. /\ txn[s].has_snapshot /\ ckpt.pinned_id <= txn[s].snap_max
          /\ \A i \in txn[s].snapshot : ckpt.pinned_id <= i
      BY <1>1, <1>4, <3>1 DEF CkptOf
    <3>4. ~(id < txn[s].snap_max /\ id \notin txn[s].snapshot)
      BY <2>11, <3>2, <3>3 DEF ExclInv, VisibleInSnapshot
    <3> QED BY <1>2, <1>5, <3>3, <3>4, TxnFields, CkptFields
  <2>13. \A i \in c.snapshot :
           /\ scan[s].publish =>
                \/ c.pinned <= i
                \/ i = shared[s].metadata_pinned /\ metadata_pinned <= i
           /\ ret[s] = "ckpt_alloc" => c.pinned <= i
           /\ ckpt.session = s => ckpt.pinned_id <= i
    <3> TAKE i \in c.snapshot
    <3>1. CASE i = id
      BY <2>2, <2>1, <2>4, <2>12, <3>1
    <3>2. CASE i \in scan[s].snapshot
      <4>1. /\ scan[s].publish =>
                 \/ scan[s].pinned <= i
                 \/ i = shared[s].metadata_pinned /\ metadata_pinned <= i
            /\ ret[s] = "ckpt_alloc" => scan[s].pinned <= i
            /\ ckpt.session = s => ckpt.pinned_id <= i
            /\ i \in Nat /\ scan[s].pinned \in Nat
        BY <1>1, <1>2, <1>4, <3>2, ScanFields DEF SnapWalkInv, SnapHeld
      <4>2. scan[s].pinned <= i => c.pinned <= i
        BY <2>2, <2>1, <2>4, <4>1
      <4> QED BY <4>1, <4>2
    <3> QED BY <2>1, <2>4, <3>1, <3>2
  <2>14. WalkInv(s)'
    <3>1. c.pinned <= c.current
      BY <1>2, <1>8, <2>2, <2>1, <2>4, ScanFields
    <3>2. ckpt.session = s => ckpt.pinned_id <= c.current
      BY <1>1, <1>4, <2>1, <2>4 DEF SnapWalkInv, SnapHeld
    <3> QED BY <1>6, <1>7, <1>8, <1>9, <2>2, <2>1, <2>4, <2>6, <2>13, <3>1, <3>2
            DEF WalkInv, SnapWalkInv, WriteWalkInv
  <2>15. \A v \in Sessions : SnapInv(s, v)'
    <3> TAKE v \in Sessions
    <3>1. s # v => (Active(v)' <=> Active(v))
      BY <1>6, <2>8 DEF Active, OnlyMine
    <3>2. SnapInv(s, v)
      BY DEF TableInv, PairInv
    <3>3. v < c.slot => v < slot \/ v = slot
      BY <1>5, <2>1, <2>4 DEF Sessions
    <3>4. txn[slot].id \in c.snapshot
      BY <2>1, <2>4, <2>11
    <3> QED
      BY <1>3, <1>4, <1>6, <1>9, <2>1, <2>4, <2>6, <3>1, <3>2, <3>3, <3>4 DEF SnapInv, SnapHeld
  <2>16. \A v \in Sessions : WriteInv(s, v)'
    BY <1>7 DEF WriteInv
  <2> QED
    BY <1>4, <1>6, <1>9, <2>7, <2>8, <2>9, <2>10, <2>14, <2>15, <2>16, WalkStep DEF lock
<1>11. CASE scan' = [scan EXCEPT ![s].id = NONE]
  <2>1. PICK c : c = [scan[s] EXCEPT !.id = NONE]
    BY Zenon
  <2>2. /\ c \in ScanRec /\ c.current = scan[s].current /\ c.pinned = scan[s].pinned
        /\ c.oldest = scan[s].oldest /\ c.slot = slot
        /\ c.publish = scan[s].publish /\ c.snapshot = scan[s].snapshot
    BY <1>2, <1>3, <2>1 DEF ScanRec, Ids, NONE
  <2>3. scan' = [scan EXCEPT ![s] = c]
    BY <1>11, <2>1
  <2>4. scan'[s] = c
    BY <1>1, <2>3 DEF TypeInv
  <2>5. TypeInv'
    BY <1>1, <1>6, <1>9, <2>2, <2>3 DEF TypeInv, globals, lock
  <2>6. OnlyMine(s)
    BY <1>1, <1>6, <2>3 DEF OnlyMine, TypeInv
  <2>7. LockInv'
    BY <1>4, <1>6, <1>9, <2>6, LockKept DEF SnapHeld, ScanPcs
  <2>8. LocalInv(s)'
    BY <1>4, <1>6, <1>9, <2>2, <2>4, <2>5, SnapLocal DEF SnapPcs, SnapHeld
  <2>9. WalkInv(s)'
    BY <1>1, <1>4, <1>6, <1>7, <1>9, <2>2, <2>4
       DEF WalkInv, SnapWalkInv, WriteWalkInv, SnapHeld
  <2>10. \A v \in Sessions : SnapInv(s, v)'
    <3> TAKE v \in Sessions
    <3>1. s # v => (Active(v)' <=> Active(v))
      BY <1>6, <2>6 DEF Active, OnlyMine
    <3>2. SnapInv(s, v)
      BY DEF TableInv, PairInv
    <3> QED
      BY <1>3, <1>4, <1>6, <1>9, <2>2, <2>4, <3>1, <3>2 DEF SnapInv, SnapHeld
  <2>11. \A v \in Sessions : WriteInv(s, v)'
    BY <1>7 DEF WriteInv
  <2> QED
    BY <1>4, <1>6, <1>9, <2>5, <2>6, <2>7, <2>8, <2>9, <2>10, <2>11, WalkStep DEF lock
<1> QED BY <1>3, <1>10, <1>11 DEF SnapReread

LEMMA SnapPublishStep ==
    ASSUME TableInv, NEW s \in Sessions, SnapPublish(s)
    PROVE  TableInv'
<1>1. /\ TypeInv /\ OrderInv /\ LockInv /\ LocalInv(s) /\ SnapWalkInv(s)
  BY DEF TableInv, WalkInv
<1>2. /\ scan[s] \in ScanRec /\ txn[s] \in TxnRec /\ shared[s] \in SharedRec
      /\ ckpt \in CkptRec /\ ret[s] \in Labels
      /\ current \in Nat /\ oldest_id \in Nat /\ metadata_pinned \in Nat
  BY <1>1 DEF TypeInv
<1>3. /\ pc[s] = "snap_publish" \/ (pc[s] = "snap_id" /\ scan[s].slot = N + 1)
      /\ pc[s] \in SnapPcs /\ pc[s] \in SnapHeld
      /\ pc[s] \notin AllocPcs /\ pc[s] \notin QuietPcs \cup {"release"}
      /\ pc[s] \notin {"ckpt_sync", "commit", "prepare_id", "snap_ckpt"}
  BY DEF SnapPublish, SnapPcs, SnapHeld, AllocPcs, QuietPcs, ScanPcs
<1>4. /\ writers = {} /\ writers' = {} /\ readers' = readers \ {s}
  BY <1>1, <1>3 DEF SnapPublish, rwlock!ReleaseRead, LockInv
<1>5. PICK x : x = [txn[s] EXCEPT !.has_snapshot = TRUE, !.published = scan[s].publish,
                      !.snapshot = scan[s].snapshot, !.snap_max = scan[s].current]
  BY Zenon
<1>6. /\ x \in TxnRec /\ x.state = txn[s].state /\ x.isolation = txn[s].isolation
      /\ x.id = txn[s].id /\ x.has_snapshot = TRUE /\ x.published = scan[s].publish
      /\ x.snapshot = scan[s].snapshot /\ x.snap_max = scan[s].current
      /\ x.ceiling = txn[s].ceiling
  BY <1>2, <1>5 DEF TxnRec, ScanRec
<1>7. /\ txn' = [txn EXCEPT ![s] = x] /\ scan' = [scan EXCEPT ![s] = NoScan]
      /\ ret' = [ret EXCEPT ![s] = "idle"] /\ pc' = [pc EXCEPT ![s] = ret[s]]
      /\ UNCHANGED <<globals, ckpt, prev, claimed>>
      /\ oldest_id' = oldest_id /\ metadata_pinned' = metadata_pinned /\ current' = current
      /\ last_running' = last_running
  BY <1>5 DEF SnapPublish, Goto, globals
<1>8. /\ txn'[s] = x /\ scan'[s] = NoScan /\ ret'[s] = "idle" /\ pc'[s] = ret[s]
      /\ "idle" \in Labels
  BY <1>1, <1>7 DEF TypeInv, Labels
<1>9. /\ shared' \in [Sessions -> SharedRec]
      /\ \A u \in Sessions : u # s => shared'[u] = shared[u]
      /\ shared'[s].id = shared[s].id
      /\ shared'[s].is_allocating = shared[s].is_allocating
      /\ shared'[s].metadata_pinned = shared[s].metadata_pinned
      /\ scan[s].publish => shared'[s].pinned_id = scan[s].pinned
  <2>1. CASE scan[s].publish
    <3>1. PICK h : h = [shared[s] EXCEPT !.pinned_id = scan[s].pinned]
      BY Zenon
    <3>2. /\ h \in SharedRec /\ h.id = shared[s].id
          /\ h.is_allocating = shared[s].is_allocating
          /\ h.metadata_pinned = shared[s].metadata_pinned /\ h.pinned_id = scan[s].pinned
      BY <1>2, <3>1, ScanFields DEF SharedRec, Ids
    <3>3. shared' = [shared EXCEPT ![s] = h]
      BY <2>1, <3>1 DEF SnapPublish
    <3> QED BY <1>1, <3>2, <3>3 DEF TypeInv
  <2>2. CASE ~scan[s].publish
    <3>1. shared' = shared
      BY <2>2 DEF SnapPublish
    <3> QED BY <1>1, <2>2, <3>1 DEF TypeInv
  <2> QED BY <2>1, <2>2
<1>10. /\ scan[s].oldest = oldest_id /\ oldest_id <= scan[s].pinned
       /\ scan[s].pinned <= scan[s].current /\ scan[s].current <= current
       /\ ckpt.session = s => ckpt.pinned_id <= scan[s].current
       /\ pc[s] = "snap_publish" => scan[s].oldest = scan[s].current
       /\ \A id \in scan[s].snapshot :
            /\ scan[s].publish =>
                 \/ scan[s].pinned <= id
                 \/ id = shared[s].metadata_pinned /\ metadata_pinned <= id
            /\ ret[s] = "ckpt_alloc" => scan[s].pinned <= id
            /\ ckpt.session = s => ckpt.pinned_id <= id
  BY <1>1, <1>3 DEF SnapWalkInv
<1>11. /\ ret[s] \in {"idle", "ckpt_alloc", "ckpt_running", "evict_rec"}
       /\ ret[s] \in {"idle", "ckpt_alloc"} => scan[s].publish
  BY <1>1, <1>3 DEF LocalInv, RetInv
<1>12. Active(s)' <=> Active(s)
  BY <1>3, <1>6, <1>8, <1>11 DEF Active
<1>13. TypeInv'
  BY <1>1, <1>2, <1>4, <1>6, <1>7, <1>8, <1>9, NoScanType DEF TypeInv
<1>14. OnlyMine(s)
  BY <1>1, <1>7, <1>9 DEF OnlyMine, TypeInv
<1>15. GlobalsKept(s) /\ TargetKept(s)
  <2>1. txn[s].ceiling = txn'[s].ceiling /\ txn'[s].id = txn[s].id
    BY <1>6, <1>8
  <2> QED BY <1>2, <1>4, <1>7, <1>12, <2>1 DEF GlobalsKept, TargetKept
<1>16. pc'[s] \notin SnapHeld \cup ScanPcs
  BY <1>8, <1>11 DEF SnapHeld, ScanPcs
<1>17. LockInv'
  BY <1>1, <1>4, <1>14, <1>16 DEF LockInv, OnlyMine
<1>18. RetInv(s)'
  BY <1>1, <1>3, <1>8, <1>11, NoScanType
     DEF LocalInv, RetInv, SnapPcs, SnapHeld, AllocPcs, ScanPcs
<1>19. TxnInv(s)'
  BY <1>1, <1>2, <1>3, <1>6, <1>7, <1>8, <1>10, <1>11
     DEF LocalInv, TxnInv, SnapPcs, SnapHeld, AllocPcs, ScanPcs, QuietPcs
<1>20. SlotInv(s)'
  BY <1>1, <1>3, <1>6, <1>7, <1>8, <1>9, <1>11, <1>12 DEF LocalInv, SlotInv, AllocPcs
<1>21. PubInv(s)'
  BY <1>6, <1>7, <1>8, <1>9, <1>10, <1>11 DEF PubInv, AllocPcs
<1>22. PinInv(s)' /\ RunInv(s)'
  BY <1>1, <1>3, <1>6, <1>7, <1>8, <1>12 DEF LocalInv, PinInv, RunInv
<1>23. CkptOf(s)'
  <2>1. ckpt.session = s => ret[s] = "ckpt_running" /\ txn[s].has_snapshot
    BY <1>1, <1>3 DEF LocalInv, CkptOf, SnapPcs, SnapHeld
  <2> QED BY <1>1, <1>6, <1>7, <1>8, <1>10, <2>1 DEF LocalInv, CkptOf
<1>24. \A t \in Sessions : LocalInv(t)'
  <2>1. LocalInv(s)'
    BY <1>18, <1>19, <1>20, <1>21, <1>22, <1>23 DEF LocalInv
  <2>2. ckpt' \in CkptRec /\ claimed' = claimed
    BY <1>2, <1>7
  <2> QED BY <1>14, <1>15, <2>1, <2>2, LocalOthers
<1>25. \A t \in Sessions : WalkInv(t)'
  <2>1. WalkInv(s)'
    BY <1>4, <1>16 DEF WalkInv, SnapWalkInv, WriteWalkInv
  <2>2. ckpt' \in CkptRec /\ writers' \subseteq writers \cup {s}
    BY <1>2, <1>4, <1>7
  <2> QED BY <1>14, <1>15, <2>1, <2>2, WalkOthers
<1>26. \A u, v \in Sessions : PairInv(u, v)'
  <2> TAKE u, v \in Sessions
  <2>1. SnapInv(u, v)'
    <3>1. CASE u = s
      BY <1>16, <3>1 DEF SnapInv
    <3>2. ckpt' \in CkptRec
      BY <1>2, <1>7
    <3> QED BY <1>14, <1>15, <3>1, <3>2, SnapOthers
  <2>2. WriteInv(u, v)'
    BY <1>4 DEF WriteInv
  <2>3. ExclInv(u, v)'
    <3>1. CASE u = s /\ u # v
      <4>1. SnapInv(s, v) /\ ExclInv(s, v) /\ RunInv(v) /\ txn[v] \in TxnRec
        BY <1>1 DEF TableInv, PairInv, LocalInv, TypeInv
      <4>2. pc'[v] = pc[v] /\ txn'[v] = txn[v]
        BY <1>14, <3>1 DEF OnlyMine
      <4>3. ASSUME Active(v)
            PROVE  txn[v].id >= scan[s].current \/ txn[v].id \in scan[s].snapshot
        <5>1. CASE ckpt.session = v
          BY <1>3, <3>1, <4>1, <4>3, <5>1 DEF SnapInv
        <5>2. CASE ckpt.session # v /\ pc[s] = "snap_publish"
          BY <1>2, <1>10, <4>1, <4>3, <5>2, TxnFields DEF RunInv
        <5>3. CASE ckpt.session # v /\ scan[s].slot = N + 1
          <6>1. v < scan[s].slot
            BY <5>3, SessionsAssumption DEF Sessions
          <6> QED BY <1>3, <3>1, <4>1, <4>3, <5>3, <6>1 DEF SnapInv
        <5> QED BY <1>3, <5>1, <5>2, <5>3
      <4>4. Active(v)' => Active(v)
        BY <4>2 DEF Active
      <4> QED BY <1>2, <1>6, <1>8, <3>1, <4>1, <4>2, <4>3, <4>4, TxnFields, ScanFields
              DEF ExclInv, VisibleInSnapshot
    <3>2. CASE u = s /\ u = v
      BY <3>2 DEF ExclInv
    <3>3. CASE u # s
      BY <1>13, <1>14, <1>15, <3>3, ExclKept
    <3> QED BY <3>1, <3>2, <3>3
  <2> QED BY <2>1, <2>2, <2>3 DEF PairInv
<1>27. OrderInv' /\ CkptInv'
  BY <1>1, <1>7, <1>15, CkptInvKept DEF OrderInv
<1> QED BY <1>13, <1>17, <1>24, <1>25, <1>26, <1>27 DEF TableInv

-----------------------------------------------------------------------------
(* The walk of a sweep. *)

\* What a walk for the oldest id, at l with c, has to know if it holds the lock
\* exclusively: what it has found covers the sessions it has been at.
SweepKnows(s, l, c) ==
    s \in writers' =>
        /\ c.oldest = oldest_id /\ c.running <= current
        /\ ckpt.session # 0 => c.metadata <= ckpt.id
        /\ l = "scan_reread" => c.id < c.running
        /\ \A v \in Sessions :
             /\ \/ v < c.slot
                \/ v = c.slot /\ l = "scan_pinned"
                => (Active(v) /\ ckpt.session # v => c.running <= txn[v].id)
             /\ v < c.slot /\ txn[v].published =>
                  /\ c.pinned <= shared[v].pinned_id
                  /\ \A id \in txn[v].snapshot :
                       id < shared[v].pinned_id => c.metadata <= id
             /\ v < c.slot /\ txn[v].ceiling # NONE =>
                  Least(c.pinned, c.running) <= txn[v].ceiling

\* A step of a sweep that moves nothing yet: what is left to show is what the
\* walk knows, if the session has the lock to itself.
LEMMA SweepStep ==
    ASSUME TableInv, NEW s \in Sessions,
           NEW l \in ScanPcs \cup {"idle", "sweep_write"}, NEW c \in ScanRec,
           pc[s] \in ScanPcs \cup {"sweep_read", "sweep_write"},
           pc' = [pc EXCEPT ![s] = l], scan' = [scan EXCEPT ![s] = c],
           prev' \in [Sessions -> PrevRec],
           UNCHANGED <<globals, ckpt, shared, txn, ret, claimed>>,
           LockInv', readers' \in SUBSET Sessions, writers' \subseteq writers \cup {s},
           l = "idle" => c.slot = 1,
           l \in {"scan_reread", "scan_pinned"} => c.slot <= N,
           SweepKnows(s, l, c)
    PROVE  TableInv'
<1>1. LocalInv(s) /\ TypeInv
  BY DEF TableInv
<1>2. l \in Labels /\ l \in QuietPcs /\ pc[s] \in QuietPcs
  BY DEF QuietPcs, ScanPcs, Labels
<1>3. pc'[s] = l /\ scan'[s] = c
  BY <1>1 DEF TypeInv
<1>4. TypeInv'
  BY <1>1, <1>2 DEF TypeInv, globals
<1>5. OnlyMine(s)
  BY <1>1 DEF OnlyMine, TypeInv
<1>6. \A v \in Sessions : Active(v)' <=> Active(v)
  BY <1>1, <1>2, <1>3 DEF Active, QuietPcs, ScanPcs, TypeInv
<1>7. LocalInv(s)'
  <2>1. RetInv(s)'
    BY <1>1, <1>3 DEF LocalInv, RetInv, SnapPcs, SnapHeld, AllocPcs, ScanPcs, QuietPcs
  <2>2. TxnInv(s)'
    BY <1>1, <1>2, <1>3
       DEF LocalInv, TxnInv, SnapPcs, SnapHeld, AllocPcs, ScanPcs, QuietPcs, globals
  <2>3. SlotInv(s)'
    BY <1>1, <1>2, <1>3, <1>6 DEF LocalInv, SlotInv, AllocPcs, ScanPcs, QuietPcs
  <2>4. PubInv(s)'
    BY <1>1, <1>2, <1>3 DEF LocalInv, PubInv, AllocPcs, ScanPcs, QuietPcs, globals
  <2>5. PinInv(s)' /\ RunInv(s)'
    BY <1>1, <1>2, <1>3, <1>6 DEF LocalInv, PinInv, RunInv, globals
  <2>6. CkptOf(s)'
    BY <1>1, <1>2 DEF LocalInv, CkptOf, ScanPcs, QuietPcs, SnapPcs, SnapHeld
  <2> QED BY <2>1, <2>2, <2>3, <2>4, <2>5, <2>6 DEF LocalInv
<1>8. pc'[s] \notin SnapHeld
  BY <1>3 DEF SnapHeld, ScanPcs
<1>9. WalkInv(s)'
  <2>1. s \in writers' => /\ c.oldest = oldest_id' /\ c.running <= current'
                          /\ ckpt'.session # 0 => c.metadata <= ckpt'.id
                          /\ l = "scan_reread" => c.id < c.running
    BY DEF SweepKnows, globals
  <2> QED BY <1>3, <1>8, <2>1 DEF WalkInv, SnapWalkInv, WriteWalkInv
<1>10. \A v \in Sessions : SnapInv(s, v)'
  BY <1>8 DEF SnapInv
<1>11. \A v \in Sessions : WriteInv(s, v)'
  <2> TAKE v \in Sessions
  <2>1. ScannedOldest(s)' = Least(c.pinned, c.running)
    BY <1>3 DEF ScannedOldest, Least
  <2> QED BY <1>3, <1>6, <2>1 DEF WriteInv, SweepKnows
<1>12. pc[s] # "prepare_id" /\ pc'[s] # "prepare_id"
  BY <1>2, <1>3 DEF QuietPcs, ScanPcs
<1>13. shared'[s].pinned_id = shared[s].pinned_id
  OBVIOUS
<1> QED BY <1>4, <1>5, <1>7, <1>9, <1>10, <1>11, <1>12, <1>13, WalkStep

\* The values a walk starts with.
LEMMA ScanStartType ==
    ASSUME TypeInv
    PROVE  /\ ScanStart \in ScanRec /\ ScanStart.slot = 1
           /\ ScanStart.oldest = oldest_id /\ ScanStart.running = current
           /\ ScanStart.metadata = IF ckpt.id = NONE THEN current ELSE ckpt.id
<1>1. 1 \in 1..(N + 1)
  BY SessionsAssumption
<1>2. PICK m : m = IF ckpt.id = NONE THEN current ELSE ckpt.id
  BY Zenon
<1>3. m \in Nat
  BY <1>2, CkptFields DEF TypeInv
<1>4. ScanStart = [NoScan EXCEPT !.oldest = oldest_id, !.running = current,
                                 !.pinned = current, !.metadata = m]
  BY <1>2 DEF ScanStart
<1> QED BY <1>1, <1>2, <1>3, <1>4 DEF NoScan, ScanRec, Ids, NONE, TypeInv

LEMMA SweepReadLockStep ==
    ASSUME TableInv, NEW s \in Sessions, SweepReadLock(s)
    PROVE  TableInv'
<1>1. TypeInv /\ LockInv
  BY DEF TableInv
<1>2. /\ pc[s] = "sweep_read" /\ pc' = [pc EXCEPT ![s] = "scan_id"]
      /\ scan' = [scan EXCEPT ![s] = ScanStart]
      /\ UNCHANGED <<globals, ckpt, shared, txn, ret, claimed>> /\ prev' = prev
      /\ writers = {} /\ writers' = writers /\ readers' = readers \cup {s}
  BY DEF SweepReadLock, Goto, rwlock!AcquireRead, rwlock!MayRead
<1>3. prev' \in [Sessions -> PrevRec] /\ readers' \in SUBSET Sessions
  BY <1>1, <1>2 DEF TypeInv
<1>4. s \notin writers' /\ writers' \subseteq writers \cup {s}
  BY <1>2
<1>5. LockInv'
  BY <1>1, <1>2 DEF LockInv, TypeInv, ScanPcs
<1>6. "scan_id" \in ScanPcs
  BY DEF ScanPcs
<1>7. SweepKnows(s, "scan_id", ScanStart)
  BY <1>4 DEF SweepKnows
<1>8. /\ ScanStart \in ScanRec /\ pc[s] \in ScanPcs \cup {"sweep_read", "sweep_write"}
      /\ "scan_id" \in ScanPcs \cup {"idle", "sweep_write"}
      /\ "scan_id" \notin {"idle", "scan_reread", "scan_pinned"}
  BY <1>1, <1>2, <1>6, ScanStartType
<1> QED BY <1>2, <1>3, <1>4, <1>5, <1>7, <1>8, SweepStep

LEMMA SweepDecideStep ==
    ASSUME TableInv, NEW s \in Sessions, SweepDecide(s)
    PROVE  TableInv'
<1>1. TypeInv /\ LockInv
  BY DEF TableInv
<1>2. /\ pc[s] = "scan_id" /\ s \in readers
      /\ UNCHANGED <<globals, ckpt, shared, txn, ret, claimed>>
      /\ writers' = writers /\ readers' = readers \ {s}
  BY DEF SweepDecide, rwlock!ReleaseRead
<1>3. PICK l, c : /\ pc' = [pc EXCEPT ![s] = l] /\ scan' = [scan EXCEPT ![s] = c]
                  /\ c \in ScanRec /\ prev' \in [Sessions -> PrevRec]
                  /\ l \in {"idle", "sweep_write"}
                  /\ l = "idle" => c.slot = 1
  <2>1. CASE pc' = [pc EXCEPT ![s] = "sweep_write"] /\ UNCHANGED <<scan, prev>>
    <3>1. /\ scan' = [scan EXCEPT ![s] = scan[s]] /\ scan[s] \in ScanRec
          /\ prev' \in [Sessions -> PrevRec]
      BY <1>1, <2>1 DEF TypeInv
    <3>2. "sweep_write" # "idle"
      OBVIOUS
    <3> WITNESS "sweep_write", scan[s]
    <3> QED BY <2>1, <3>1, <3>2
  <2>2. CASE /\ pc' = [pc EXCEPT ![s] = "idle"] /\ scan' = [scan EXCEPT ![s] = NoScan]
             /\ prev' = [prev EXCEPT ![s] = NoPrev]
    <3>1. prev' \in [Sessions -> PrevRec]
      BY <1>1, <2>2, NoPrevType DEF TypeInv
    <3> WITNESS "idle", NoScan
    <3> QED BY <2>2, <3>1, NoScanType
  <2> QED BY <2>1, <2>2 DEF SweepDecide, Goto
<1>4. s \notin writers' /\ writers' \subseteq writers \cup {s} /\ readers' \in SUBSET Sessions
  BY <1>1, <1>2 DEF LockInv, TypeInv
<1>5. LockInv'
  <2>1. pc'[s] \notin SnapHeld \cup ScanPcs
    BY <1>1, <1>3 DEF TypeInv, SnapHeld, ScanPcs
  <2>2. \A t \in Sessions : t # s => pc'[t] = pc[t]
    BY <1>1, <1>3 DEF TypeInv
  <2> QED BY <1>1, <1>2, <1>4, <2>1, <2>2 DEF LockInv
<1>6. /\ pc[s] \in ScanPcs \cup {"sweep_read", "sweep_write"}
      /\ l \in ScanPcs \cup {"idle", "sweep_write"}
      /\ l \notin {"scan_reread", "scan_pinned"}
  BY <1>2, <1>3 DEF ScanPcs
<1>7. SweepKnows(s, l, c)
  BY <1>4 DEF SweepKnows
<1> QED BY <1>2, <1>3, <1>4, <1>5, <1>6, <1>7, SweepStep

LEMMA SweepWriteLockStep ==
    ASSUME TableInv, NEW s \in Sessions, SweepWriteLock(s)
    PROVE  TableInv'
<1>1. TypeInv /\ LockInv /\ CkptInv
  BY DEF TableInv
<1>2. /\ pc[s] = "sweep_write"
      /\ UNCHANGED <<globals, ckpt, shared, txn, ret, claimed>>
  BY DEF SweepWriteLock
<1>3. CASE /\ UNCHANGED lock /\ pc' = [pc EXCEPT ![s] = "idle"]
           /\ scan' = [scan EXCEPT ![s] = NoScan] /\ prev' = [prev EXCEPT ![s] = NoPrev]
  <2>1. prev' \in [Sessions -> PrevRec]
    BY <1>1, <1>3, NoPrevType DEF TypeInv
  <2>2. pc[s] \in QuietPcs \ ScanPcs /\ "idle" \in QuietPcs \ ScanPcs
    BY <1>2 DEF QuietPcs, ScanPcs
  <2> QED BY <1>2, <1>3, <2>1, <2>2, NoScanType, QuietStep
<1>4. CASE /\ rwlock!AcquireWrite(s) /\ pc' = [pc EXCEPT ![s] = "scan_id"]
           /\ scan' = [scan EXCEPT ![s] = ScanStart] /\ prev' = prev
  <2>1. readers = {} /\ writers = {} /\ writers' = {s} /\ readers' = {}
    BY <1>4 DEF rwlock!AcquireWrite, rwlock!MayWrite
  <2>2. prev' \in [Sessions -> PrevRec] /\ readers' \in SUBSET Sessions
        /\ writers' \subseteq writers \cup {s}
    BY <1>1, <1>4, <2>1 DEF TypeInv
  <2>3. LockInv'
    <3>1. pc'[s] = "scan_id" /\ \A t \in Sessions : t # s => pc'[t] = pc[t]
      BY <1>1, <1>4 DEF TypeInv
    <3> QED BY <1>1, <2>1, <3>1 DEF LockInv, ScanPcs, SnapHeld
  <2>4. /\ "scan_id" \in ScanPcs /\ "scan_id" \notin {"idle", "scan_reread", "scan_pinned"}
        /\ pc[s] \in ScanPcs \cup {"sweep_read", "sweep_write"}
    BY <1>2 DEF ScanPcs
  <2>5. ckpt.session # 0 => ScanStart.metadata <= ckpt.id
    <3>1. ckpt.session # 0 => ckpt.session \in Sessions
      BY <1>1, CkptFields DEF TypeInv, Sessions
    <3>2. ckpt.session # 0 => ckpt.id # NONE /\ ckpt.id \in Nat
      BY <1>1, <3>1, CkptFields DEF TableInv, LocalInv, CkptOf, TypeInv
    <3> QED BY <1>1, <3>2, ScanStartType
  <2>6. /\ ScanStart \in ScanRec /\ ScanStart.oldest = oldest_id
        /\ ScanStart.running <= current
        /\ \A v \in Sessions : ~(v < ScanStart.slot)
    BY <1>1, ScanStartType DEF TypeInv, Sessions
  <2>7. SweepKnows(s, "scan_id", ScanStart)
    BY <2>4, <2>5, <2>6 DEF SweepKnows
  <2> QED BY <1>2, <1>4, <2>2, <2>3, <2>4, <2>6, <2>7, SweepStep
<1> QED BY <1>3, <1>4 DEF SweepWriteLock, Goto

\* What the walk knows already, where the session is and with its locals.
LEMMA WalkKnows ==
    ASSUME TableInv, NEW s \in Sessions, NEW v \in Sessions, s \in writers
    PROVE  /\ scan[s].oldest = oldest_id /\ scan[s].running <= current
           /\ ckpt.session # 0 => scan[s].metadata <= ckpt.id
           /\ \/ v < scan[s].slot
              \/ v = scan[s].slot /\ pc[s] = "scan_pinned"
              => (Active(v) /\ ckpt.session # v => scan[s].running <= txn[v].id)
           /\ v < scan[s].slot /\ txn[v].published =>
                /\ scan[s].pinned <= shared[v].pinned_id
                /\ \A id \in txn[v].snapshot :
                     id < shared[v].pinned_id => scan[s].metadata <= id
           /\ v < scan[s].slot /\ txn[v].ceiling # NONE =>
                Least(scan[s].pinned, scan[s].running) <= txn[v].ceiling
BY DEF TableInv, WalkInv, WriteWalkInv, PairInv, WriteInv, ScannedOldest

LEMMA ScanReadIdStep ==
    ASSUME TableInv, NEW s \in Sessions, ScanReadId(s)
    PROVE  TableInv'
<1>1. TypeInv /\ LockInv
  BY DEF TableInv
<1>2. scan[s] \in ScanRec /\ oldest_id \in Nat
  BY <1>1 DEF TypeInv
<1>3. PICK slot : slot = scan[s].slot
  BY Zenon
<1>4. pc[s] = "scan_id" /\ slot <= N /\ slot \in Nat /\ slot \in Sessions
  BY <1>2, <1>3, ScanFields DEF ScanReadId, Sessions
<1>5. shared[slot] \in SharedRec
  BY <1>1, <1>4 DEF TypeInv
<1>6. /\ UNCHANGED <<globals, ckpt, shared, txn, ret, claimed>>
      /\ prev' = prev /\ UNCHANGED lock /\ readers' = readers /\ writers' = writers
  BY DEF ScanReadId, lock
<1>7. prev' \in [Sessions -> PrevRec] /\ readers' \in SUBSET Sessions
      /\ writers' \subseteq writers \cup {s}
  BY <1>1, <1>6 DEF TypeInv
<1>8. /\ "scan_pinned" \in ScanPcs /\ "scan_reread" \in ScanPcs /\ pc[s] \in ScanPcs
      /\ "scan_pinned" # "idle" /\ "scan_reread" # "idle" /\ "scan_pinned" # "scan_reread"
      /\ SnapHeld \cap ScanPcs = {}
  BY <1>4 DEF ScanPcs, SnapHeld
<1>9. CASE /\ \/ shared[slot].id = NONE \/ shared[slot].id < scan[s].oldest
              \/ shared[slot].id >= scan[s].running
           /\ pc' = [pc EXCEPT ![s] = "scan_pinned"] /\ scan' = scan
  <2>1. scan' = [scan EXCEPT ![s] = scan[s]]
    BY <1>1, <1>9 DEF TypeInv
  <2>2. LockInv'
    <3>1. OnlyMine(s) /\ pc'[s] = "scan_pinned"
      BY <1>1, <1>6, <1>9 DEF OnlyMine, TypeInv
    <3> QED BY <1>6, <1>8, <3>1, LockKept
  <2>3. ASSUME NEW v \in Sessions, s \in writers, v = slot, Active(v), ckpt.session # v
        PROVE  scan[s].running <= txn[v].id
    <3>1. /\ shared[v].id # NONE /\ oldest_id <= shared[v].id
          /\ shared[v].id <= txn[v].id
      BY <2>3, ActiveSlot
    <3>2. txn[v] \in TxnRec /\ shared[v] \in SharedRec /\ scan[s].oldest = oldest_id
      BY <1>1, <2>3, WalkKnows DEF TypeInv
    <3> QED BY <1>2, <1>9, <2>3, <3>1, <3>2, TxnFields, SharedFields, ScanFields
  <2>4. \A v \in Sessions : s \in writers =>
          /\ \/ v < scan[s].slot
             \/ v = scan[s].slot
             => (Active(v) /\ ckpt.session # v => scan[s].running <= txn[v].id)
          /\ v < scan[s].slot /\ txn[v].published =>
               /\ scan[s].pinned <= shared[v].pinned_id
               /\ \A id \in txn[v].snapshot :
                    id < shared[v].pinned_id => scan[s].metadata <= id
          /\ v < scan[s].slot /\ txn[v].ceiling # NONE =>
               Least(scan[s].pinned, scan[s].running) <= txn[v].ceiling
    BY <1>3, <2>3, WalkKnows
  <2>5. s \in writers => /\ scan[s].oldest = oldest_id /\ scan[s].running <= current
                         /\ ckpt.session # 0 => scan[s].metadata <= ckpt.id
    BY WalkKnows
  <2>6. SweepKnows(s, "scan_pinned", scan[s])
    BY <1>6, <1>8, <2>4, <2>5 DEF SweepKnows
  <2>7. scan[s].slot <= N
    BY <1>3, <1>4
  <2> QED BY <1>2, <1>6, <1>7, <1>8, <1>9, <2>1, <2>2, <2>6, <2>7, SweepStep
<1>10. CASE /\ ~(\/ shared[slot].id = NONE \/ shared[slot].id < scan[s].oldest
                 \/ shared[slot].id >= scan[s].running)
            /\ pc' = [pc EXCEPT ![s] = "scan_reread"]
            /\ scan' = [scan EXCEPT ![s].id = shared[slot].id]
  <2>1. PICK c : c = [scan[s] EXCEPT !.id = shared[slot].id]
    BY Zenon
  <2>2. /\ c \in ScanRec /\ c.oldest = scan[s].oldest /\ c.running = scan[s].running
        /\ c.metadata = scan[s].metadata /\ c.pinned = scan[s].pinned
        /\ c.slot = slot /\ c.id = shared[slot].id
    BY <1>2, <1>3, <1>5, <2>1, SharedFields DEF ScanRec, Ids
  <2>3. scan' = [scan EXCEPT ![s] = c]
    BY <1>10, <2>1
  <2>4. LockInv'
    <3>1. OnlyMine(s) /\ pc'[s] = "scan_reread"
      BY <1>1, <1>6, <1>10, <2>3 DEF OnlyMine, TypeInv
    <3> QED BY <1>6, <1>8, <3>1, LockKept
  <2>5. c.id < c.running
    BY <1>2, <1>5, <1>10, <2>2, SharedFields, ScanFields
  <2>6. s \in writers => /\ c.oldest = oldest_id /\ c.running <= current
                         /\ ckpt.session # 0 => c.metadata <= ckpt.id
    BY <2>2, WalkKnows
  <2>7. \A v \in Sessions : s \in writers =>
          /\ v < c.slot => (Active(v) /\ ckpt.session # v => c.running <= txn[v].id)
          /\ v < c.slot /\ txn[v].published =>
               /\ c.pinned <= shared[v].pinned_id
               /\ \A id \in txn[v].snapshot :
                    id < shared[v].pinned_id => c.metadata <= id
          /\ v < c.slot /\ txn[v].ceiling # NONE =>
               Least(c.pinned, c.running) <= txn[v].ceiling
    BY <1>3, <2>2, WalkKnows
  <2>8. SweepKnows(s, "scan_reread", c)
    BY <1>6, <1>8, <2>5, <2>6, <2>7 DEF SweepKnows
  <2>9. c.slot <= N
    BY <1>4, <2>2
  <2> QED BY <1>6, <1>7, <1>8, <1>10, <2>2, <2>3, <2>4, <2>8, <2>9, SweepStep
<1> QED BY <1>3, <1>9, <1>10 DEF ScanReadId, Goto

LEMMA ScanRereadStep ==
    ASSUME TableInv, NEW s \in Sessions, ScanReread(s)
    PROVE  TableInv'
<1>1. TypeInv /\ LockInv /\ RetInv(s) /\ WriteWalkInv(s)
  BY DEF TableInv, LocalInv, WalkInv
<1>2. scan[s] \in ScanRec /\ current \in Nat
  BY <1>1 DEF TypeInv
<1>3. PICK slot, id : slot = scan[s].slot /\ id = scan[s].id
  BY Zenon
<1>4. pc[s] = "scan_reread"
  BY DEF ScanReread
<1>5. slot <= N /\ slot \in Nat /\ slot \in Sessions /\ id \in Nat
  BY <1>1, <1>2, <1>3, <1>4, ScanFields DEF RetInv, Sessions
<1>6. /\ UNCHANGED <<globals, ckpt, shared, txn, ret, claimed>>
      /\ prev' = prev /\ UNCHANGED lock /\ readers' = readers /\ writers' = writers
  BY DEF ScanReread, lock
<1>7. prev' \in [Sessions -> PrevRec] /\ readers' \in SUBSET Sessions
      /\ writers' \subseteq writers \cup {s}
  BY <1>1, <1>6 DEF TypeInv
<1>8. /\ "scan_pinned" \in ScanPcs /\ "scan_id" \in ScanPcs /\ pc[s] \in ScanPcs
      /\ "scan_pinned" # "idle" /\ "scan_pinned" # "scan_reread"
      /\ "scan_id" \notin {"idle", "scan_reread", "scan_pinned"}
      /\ SnapHeld \cap ScanPcs = {}
  BY <1>4 DEF ScanPcs, SnapHeld
<1>9. CASE /\ ~shared[slot].is_allocating /\ shared[slot].id = id
           /\ scan' = [scan EXCEPT ![s].running = id, ![s].id = NONE]
           /\ pc' = [pc EXCEPT ![s] = "scan_pinned"]
  <2>1. PICK c : c = [scan[s] EXCEPT !.running = id, !.id = NONE]
    BY Zenon
  <2>2. /\ c \in ScanRec /\ c.oldest = scan[s].oldest /\ c.running = id
        /\ c.metadata = scan[s].metadata /\ c.pinned = scan[s].pinned
        /\ c.slot = slot
    BY <1>2, <1>3, <1>5, <2>1 DEF ScanRec, Ids, NONE
  <2>3. scan' = [scan EXCEPT ![s] = c]
    BY <1>9, <2>1
  <2>4. LockInv'
    <3>1. OnlyMine(s) /\ pc'[s] = "scan_pinned"
      BY <1>1, <1>6, <1>9, <2>3 DEF OnlyMine, TypeInv
    <3> QED BY <1>6, <1>8, <3>1, LockKept
  <2>5. s \in writers => id < scan[s].running /\ scan[s].running \in Nat
    BY <1>1, <1>2, <1>3, <1>4, ScanFields DEF WriteWalkInv
  <2>6. s \in writers => /\ c.oldest = oldest_id /\ c.running <= current
                         /\ ckpt.session # 0 => c.metadata <= ckpt.id
    <3>1. s \in writers => /\ scan[s].oldest = oldest_id /\ scan[s].running <= current
                           /\ ckpt.session # 0 => scan[s].metadata <= ckpt.id
      BY WalkKnows
    <3> QED BY <1>2, <1>5, <2>2, <2>5, <3>1
  <2>7. \A v \in Sessions : s \in writers =>
          /\ \/ v < c.slot
             \/ v = c.slot
             => (Active(v) /\ ckpt.session # v => c.running <= txn[v].id)
          /\ v < c.slot /\ txn[v].published =>
               /\ c.pinned <= shared[v].pinned_id
               /\ \A i \in txn[v].snapshot :
                    i < shared[v].pinned_id => c.metadata <= i
          /\ v < c.slot /\ txn[v].ceiling # NONE =>
               Least(c.pinned, c.running) <= txn[v].ceiling
    <3> TAKE v \in Sessions
    <3>1. SUFFICES ASSUME s \in writers
                   PROVE  /\ \/ v < c.slot
                             \/ v = c.slot
                             => (Active(v) /\ ckpt.session # v => c.running <= txn[v].id)
                          /\ v < c.slot /\ txn[v].published =>
                               /\ c.pinned <= shared[v].pinned_id
                               /\ \A i \in txn[v].snapshot :
                                    i < shared[v].pinned_id => c.metadata <= i
                          /\ v < c.slot /\ txn[v].ceiling # NONE =>
                               Least(c.pinned, c.running) <= txn[v].ceiling
      OBVIOUS
    <3>2. txn[v] \in TxnRec /\ shared[v] \in SharedRec
      BY <1>1 DEF TypeInv
    <3>3. v = slot /\ Active(v) /\ ckpt.session # v => txn[v].id = id
      BY <1>9, ActiveSlot
    <3>4. v < slot /\ Active(v) /\ ckpt.session # v => id <= txn[v].id
      <4>1. v < slot /\ Active(v) /\ ckpt.session # v => scan[s].running <= txn[v].id
        BY <1>3, <3>1, WalkKnows
      <4> QED BY <1>5, <2>5, <3>1, <3>2, <4>1, TxnFields
    <3>5. v < slot /\ txn[v].ceiling # NONE => Least(c.pinned, c.running) <= txn[v].ceiling
      <4>1. v < slot /\ txn[v].ceiling # NONE =>
              Least(scan[s].pinned, scan[s].running) <= txn[v].ceiling
        BY <1>3, <3>1, WalkKnows
      <4> QED BY <1>2, <1>5, <2>2, <2>5, <3>1, <3>2, <4>1, TxnFields, ScanFields DEF Least
    <3>6. v < slot /\ txn[v].published =>
            /\ scan[s].pinned <= shared[v].pinned_id
            /\ \A i \in txn[v].snapshot :
                 i < shared[v].pinned_id => scan[s].metadata <= i
      BY <1>3, <3>1, WalkKnows
    <3> QED BY <1>5, <2>2, <3>2, <3>3, <3>4, <3>5, <3>6, TxnFields
  <2>8. SweepKnows(s, "scan_pinned", c)
    BY <1>6, <1>8, <2>6, <2>7 DEF SweepKnows
  <2>9. c.slot <= N
    BY <1>5, <2>2
  <2> QED BY <1>6, <1>7, <1>8, <1>9, <2>2, <2>3, <2>4, <2>8, <2>9, SweepStep
<1>10. CASE scan' = [scan EXCEPT ![s].id = NONE] /\ pc' = [pc EXCEPT ![s] = "scan_id"]
  <2>1. PICK c : c = [scan[s] EXCEPT !.id = NONE]
    BY Zenon
  <2>2. /\ c \in ScanRec /\ c.oldest = scan[s].oldest /\ c.running = scan[s].running
        /\ c.metadata = scan[s].metadata /\ c.pinned = scan[s].pinned
        /\ c.slot = slot
    BY <1>2, <1>3, <2>1 DEF ScanRec, Ids, NONE
  <2>3. scan' = [scan EXCEPT ![s] = c]
    BY <1>10, <2>1
  <2>4. LockInv'
    <3>1. OnlyMine(s) /\ pc'[s] = "scan_id"
      BY <1>1, <1>6, <1>10, <2>3 DEF OnlyMine, TypeInv
    <3> QED BY <1>6, <1>8, <3>1, LockKept
  <2>5. s \in writers => /\ c.oldest = oldest_id /\ c.running <= current
                         /\ ckpt.session # 0 => c.metadata <= ckpt.id
    BY <2>2, WalkKnows
  <2>6. \A v \in Sessions : s \in writers =>
          /\ v < c.slot => (Active(v) /\ ckpt.session # v => c.running <= txn[v].id)
          /\ v < c.slot /\ txn[v].published =>
               /\ c.pinned <= shared[v].pinned_id
               /\ \A i \in txn[v].snapshot :
                    i < shared[v].pinned_id => c.metadata <= i
          /\ v < c.slot /\ txn[v].ceiling # NONE =>
               Least(c.pinned, c.running) <= txn[v].ceiling
    BY <1>3, <2>2, WalkKnows
  <2>7. SweepKnows(s, "scan_id", c)
    BY <1>6, <1>8, <2>5, <2>6 DEF SweepKnows
  <2> QED BY <1>6, <1>7, <1>8, <1>10, <2>2, <2>3, <2>4, <2>7, SweepStep
<1> QED BY <1>3, <1>9, <1>10 DEF ScanReread, Goto

LEMMA ScanPinnedStep ==
    ASSUME TableInv, NEW s \in Sessions, ScanPinned(s)
    PROVE  TableInv'
<1>1. TypeInv /\ LockInv /\ OrderInv /\ RetInv(s) /\ CkptInv
  BY DEF TableInv, LocalInv
<1>2. /\ scan[s] \in ScanRec /\ ckpt \in CkptRec /\ current \in Nat /\ oldest_id \in Nat
      /\ metadata_pinned \in Nat
  BY <1>1 DEF TypeInv
<1>3. PICK slot : slot = scan[s].slot
  BY Zenon
<1>4. pc[s] = "scan_pinned"
  BY DEF ScanPinned
<1>5. slot <= N /\ slot \in Nat /\ slot \in Sessions
  BY <1>1, <1>2, <1>3, <1>4, ScanFields DEF RetInv, Sessions
<1>6. shared[slot] \in SharedRec
  BY <1>1, <1>5 DEF TypeInv
<1>7. /\ UNCHANGED <<globals, ckpt, shared, txn, ret, claimed>>
      /\ prev' = prev /\ UNCHANGED lock /\ readers' = readers /\ writers' = writers
      /\ pc' = [pc EXCEPT ![s] = "scan_id"]
  BY DEF ScanPinned, lock, Goto
<1>8. prev' \in [Sessions -> PrevRec] /\ readers' \in SUBSET Sessions
      /\ writers' \subseteq writers \cup {s}
  BY <1>1, <1>7 DEF TypeInv
<1>9. /\ "scan_id" \in ScanPcs /\ pc[s] \in ScanPcs
      /\ "scan_id" \notin {"idle", "scan_reread", "scan_pinned"}
      /\ SnapHeld \cap ScanPcs = {}
  BY <1>4 DEF ScanPcs, SnapHeld
<1> DEFINE Lower(a, b) == IF b # NONE /\ b < a THEN b ELSE a
<1>10. PICK m, p : /\ m = Lower(scan[s].metadata, shared[slot].metadata_pinned)
                   /\ p = Lower(scan[s].pinned, shared[slot].pinned_id)
  BY Zenon
<1>11. /\ m \in Nat /\ p \in Nat /\ m <= scan[s].metadata /\ p <= scan[s].pinned
       /\ shared[slot].metadata_pinned # NONE => m <= shared[slot].metadata_pinned
       /\ shared[slot].pinned_id # NONE => p <= shared[slot].pinned_id
  BY <1>2, <1>6, <1>10, ScanFields, SharedFields
<1>12. PICK c : c = [scan[s] EXCEPT !.slot = slot + 1, !.metadata = m, !.pinned = p]
  BY Zenon
<1>13. /\ c \in ScanRec /\ c.oldest = scan[s].oldest /\ c.running = scan[s].running
       /\ c.metadata = m /\ c.pinned = p /\ c.slot = slot + 1
  <2>1. slot + 1 \in 1..(N + 1) /\ m \in Ids /\ p \in Ids
    BY <1>5, <1>11, SessionsAssumption DEF Ids
  <2> QED BY <1>2, <1>12, <2>1 DEF ScanRec
<1>14. scan' = [scan EXCEPT ![s] = c]
  BY <1>3, <1>10, <1>12 DEF ScanPinned
<1>15. LockInv'
  <2>1. OnlyMine(s) /\ pc'[s] = "scan_id"
    BY <1>1, <1>7, <1>14 DEF OnlyMine, TypeInv
  <2> QED BY <1>7, <1>9, <2>1, LockKept
<1>16. s \in writers => /\ c.oldest = oldest_id /\ c.running <= current
                        /\ ckpt.session # 0 => c.metadata <= ckpt.id
  <2>1. s \in writers => /\ scan[s].oldest = oldest_id /\ scan[s].running <= current
                         /\ ckpt.session # 0 => scan[s].metadata <= ckpt.id
    BY WalkKnows
  <2> QED BY <1>2, <1>11, <1>13, <2>1, ScanFields, CkptFields
<1>17. \A v \in Sessions : s \in writers =>
         /\ v < c.slot => (Active(v) /\ ckpt.session # v => c.running <= txn[v].id)
         /\ v < c.slot /\ txn[v].published =>
              /\ c.pinned <= shared[v].pinned_id
              /\ \A i \in txn[v].snapshot :
                   i < shared[v].pinned_id => c.metadata <= i
         /\ v < c.slot /\ txn[v].ceiling # NONE =>
              Least(c.pinned, c.running) <= txn[v].ceiling
  <2> TAKE v \in Sessions
  <2>1. SUFFICES ASSUME s \in writers, v < c.slot
                 PROVE  /\ Active(v) /\ ckpt.session # v => c.running <= txn[v].id
                        /\ txn[v].published =>
                             /\ c.pinned <= shared[v].pinned_id
                             /\ \A i \in txn[v].snapshot :
                                  i < shared[v].pinned_id => c.metadata <= i
                        /\ txn[v].ceiling # NONE =>
                             Least(c.pinned, c.running) <= txn[v].ceiling
    OBVIOUS
  <2>2. v < slot \/ v = slot
    BY <1>5, <1>13, <2>1 DEF Sessions
  <2>3. /\ txn[v] \in TxnRec /\ shared[v] \in SharedRec /\ PubInv(v) /\ PinInv(v)
    BY <1>1 DEF TypeInv, TableInv, LocalInv
  <2>4. Active(v) /\ ckpt.session # v => c.running <= txn[v].id
    BY <1>3, <1>4, <1>13, <2>1, <2>2, WalkKnows
  <2>5. CASE v < slot
    <3>1. /\ txn[v].published =>
               /\ scan[s].pinned <= shared[v].pinned_id
               /\ \A i \in txn[v].snapshot :
                    i < shared[v].pinned_id => scan[s].metadata <= i
          /\ txn[v].ceiling # NONE =>
               Least(scan[s].pinned, scan[s].running) <= txn[v].ceiling
      BY <1>3, <2>1, <2>5, WalkKnows
    <3>2. txn[v].published =>
            /\ c.pinned <= shared[v].pinned_id
            /\ \A i \in txn[v].snapshot : i < shared[v].pinned_id => c.metadata <= i
      BY <1>2, <1>11, <1>13, <2>3, <3>1, ScanFields, SharedFields, TxnFields
    <3>3. txn[v].ceiling # NONE => Least(c.pinned, c.running) <= txn[v].ceiling
      BY <1>2, <1>11, <1>13, <2>3, <3>1, ScanFields, TxnFields DEF Least
    <3> QED BY <2>4, <3>2, <3>3
  <2>6. CASE v = slot
    <3>1. /\ metadata_pinned >= 1 /\ oldest_id >= 1
      BY <1>1, <1>2 DEF OrderInv, FIRST
    <3>2. ASSUME txn[v].published
          PROVE  /\ c.pinned <= shared[v].pinned_id
                 /\ \A i \in txn[v].snapshot : i < shared[v].pinned_id => c.metadata <= i
      <4>1. /\ oldest_id <= shared[v].pinned_id
            /\ \A id \in txn[v].snapshot :
                 \/ shared[v].pinned_id <= id
                 \/ id = shared[v].metadata_pinned /\ metadata_pinned <= id
        BY <2>3, <3>2 DEF PubInv
      <4>2. c.pinned <= shared[v].pinned_id
        BY <1>2, <1>11, <1>13, <2>3, <2>6, <3>1, <4>1, SharedFields DEF NONE
      <4>3. ASSUME NEW i \in txn[v].snapshot, i < shared[v].pinned_id
            PROVE  c.metadata <= i
        <5>1. i \in Nat /\ shared[v].pinned_id \in Nat
          BY <2>3, TxnFields, SharedFields
        <5>2. i = shared[v].metadata_pinned /\ metadata_pinned <= i
          BY <4>1, <4>3, <5>1
        <5> QED BY <1>2, <1>11, <1>13, <2>6, <3>1, <5>1, <5>2 DEF NONE
      <4> QED BY <4>2, <4>3
    <3>3. ASSUME txn[v].ceiling # NONE
          PROVE  Least(c.pinned, c.running) <= txn[v].ceiling
      <4>1. shared[v].pinned_id # NONE /\ shared[v].pinned_id <= txn[v].ceiling
        BY <2>3, <3>3 DEF PinInv
      <4>2. c.pinned <= txn[v].ceiling
        BY <1>11, <1>13, <2>3, <2>6, <4>1, SharedFields, TxnFields
      <4>3. c.pinned \in Nat /\ c.running \in Nat /\ txn[v].ceiling \in Nat
        BY <1>13, <2>3, ScanFields, TxnFields
      <4> QED BY <4>2, <4>3 DEF Least
    <3> QED BY <2>4, <3>2, <3>3
  <2> QED BY <2>2, <2>5, <2>6
<1>18. SweepKnows(s, "scan_id", c)
  BY <1>7, <1>8, <1>9, <1>16, <1>17 DEF SweepKnows
<1> QED BY <1>7, <1>8, <1>9, <1>13, <1>14, <1>15, <1>18, SweepStep

-----------------------------------------------------------------------------
(* Steps that move what all sessions depend on. *)

\* The ids move forward, by no more than what the finished walk knows.
LEMMA SweepUpdateStep ==
    ASSUME TableInv, NEW s \in Sessions, SweepUpdate(s)
    PROVE  TableInv'
<1>1. TypeInv /\ LockInv /\ OrderInv /\ CkptInv
  BY DEF TableInv
<1>2. /\ scan[s] \in ScanRec /\ ckpt \in CkptRec /\ current \in Nat /\ oldest_id \in Nat
      /\ metadata_pinned \in Nat /\ last_running \in Nat /\ claimed \in Nat
  BY <1>1 DEF TypeInv
<1>3. /\ pc[s] = "scan_id" /\ scan[s].slot = N + 1 /\ s \in writers
      /\ metadata_pinned' = Greatest(metadata_pinned, ScannedMetadata(s))
      /\ oldest_id' = Greatest(oldest_id, ScannedOldest(s))
      /\ last_running' = Greatest(last_running, scan[s].running)
      /\ writers' = writers \ {s} /\ readers' = readers
      /\ pc' = [pc EXCEPT ![s] = "idle"] /\ scan' = [scan EXCEPT ![s] = NoScan]
      /\ prev' = [prev EXCEPT ![s] = NoPrev]
      /\ current' = current /\ ckpt' = ckpt /\ shared' = shared /\ txn' = txn
      /\ ret' = ret /\ claimed' = claimed
  BY DEF SweepUpdate, Goto, rwlock!ReleaseWrite
<1>4. /\ readers = {} /\ readers' = {} /\ writers' = {}
      /\ \A t \in Sessions : pc[t] \notin SnapHeld
  BY <1>1, <1>3 DEF LockInv
<1>5. PICK o, m, r : /\ o = ScannedOldest(s) /\ m = ScannedMetadata(s)
                     /\ r = scan[s].running
  BY Zenon
<1>6. /\ o \in Nat /\ m \in Nat /\ r \in Nat /\ o <= scan[s].pinned /\ o <= r
      /\ m <= scan[s].metadata /\ m <= o
  BY <1>2, <1>5, ScanFields DEF ScannedOldest, ScannedMetadata, Least
<1>7. \A t \in Sessions :
        /\ r <= current
        /\ ckpt.session # 0 => scan[s].metadata <= ckpt.id
        /\ Active(t) /\ ckpt.session # t => r <= txn[t].id
        /\ txn[t].published =>
             /\ scan[s].pinned <= shared[t].pinned_id
             /\ \A id \in txn[t].snapshot :
                  id < shared[t].pinned_id => scan[s].metadata <= id
        /\ txn[t].ceiling # NONE => o <= txn[t].ceiling
  <2> TAKE t \in Sessions
  <2>1. t < scan[s].slot
    BY <1>3, SessionsAssumption DEF Sessions
  <2> QED BY <1>3, <1>5, <2>1, WalkKnows DEF ScannedOldest
<1>8. /\ oldest_id' \in Nat /\ oldest_id <= oldest_id' /\ oldest_id' \in {oldest_id, o}
      /\ last_running' \in Nat /\ last_running <= last_running'
      /\ last_running' \in {last_running, r}
      /\ metadata_pinned' \in Nat /\ metadata_pinned <= metadata_pinned'
      /\ metadata_pinned' \in {metadata_pinned, m}
      /\ o <= oldest_id' /\ r <= last_running'
  BY <1>2, <1>3, <1>5, <1>6 DEF Greatest
<1>9. OrderInv'
  <2>1. r <= current
    BY <1>7
  <2> QED BY <1>1, <1>2, <1>3, <1>6, <1>8, <2>1 DEF OrderInv, FIRST
<1>10. /\ pc'[s] = "idle" /\ scan'[s] = NoScan /\ "idle" \in Labels
       /\ \A t \in Sessions : t # s => pc'[t] = pc[t] /\ scan'[t] = scan[t]
       /\ \A t \in Sessions : pc'[t] \notin SnapHeld
  BY <1>1, <1>3, <1>4 DEF TypeInv, Labels, SnapHeld
<1>11. TypeInv'
  BY <1>1, <1>2, <1>3, <1>4, <1>8, <1>10, NoScanType, NoPrevType DEF TypeInv
<1>12. LockInv'
  BY <1>1, <1>3, <1>4, <1>10 DEF LockInv, ScanPcs
<1>13. \A t \in Sessions : Active(t)' <=> Active(t)
  BY <1>3, <1>10 DEF Active
<1>14. \A t \in Sessions : LocalInv(t)'
  <2> TAKE t \in Sessions
  <2>1. /\ LocalInv(t) /\ txn[t] \in TxnRec /\ shared[t] \in SharedRec /\ scan[t] \in ScanRec
    BY <1>1 DEF TableInv, TypeInv
  <2>2. RetInv(t)'
    <3>1. CASE t = s
      BY <1>3, <1>10, <2>1, <3>1, NoScanType
         DEF LocalInv, RetInv, SnapPcs, SnapHeld, AllocPcs, ScanPcs
    <3>2. CASE t # s
      BY <1>3, <1>10, <2>1, <3>2 DEF LocalInv, RetInv
    <3> QED BY <3>1, <3>2
  <2>3. TxnInv(t)'
    <3>1. CASE t = s
      BY <1>3, <1>10, <2>1, <3>1
         DEF LocalInv, TxnInv, SnapPcs, SnapHeld, AllocPcs, ScanPcs, QuietPcs
    <3>2. CASE t # s
      <4>1. /\ scan[t].id <= last_running => scan[t].id <= last_running'
            /\ scan[t].id <= oldest_id => scan[t].id <= oldest_id'
        BY <1>2, <1>8, <2>1, ScanFields
      <4> QED BY <1>3, <1>10, <2>1, <3>2, <4>1 DEF LocalInv, TxnInv
    <3> QED BY <3>1, <3>2
  <2>4. SlotInv(t)'
    <3>1. CASE t = s
      BY <1>3, <1>10, <1>13, <2>1, <3>1 DEF LocalInv, SlotInv, AllocPcs
    <3>2. CASE t # s
      BY <1>3, <1>10, <1>13, <2>1, <3>2 DEF LocalInv, SlotInv
    <3> QED BY <3>1, <3>2
  <2>5. PubInv(t)'
    <3>1. SUFFICES ASSUME txn[t].published
                   PROVE  PubInv(t)'
      BY <1>3 DEF PubInv
    <3>2. PubInv(t)
      BY <2>1 DEF LocalInv
    <3>3. /\ txn[t].has_snapshot /\ oldest_id <= shared[t].pinned_id
          /\ shared[t].pinned_id <= txn[t].snap_max
          /\ \A id \in txn[t].snapshot :
               \/ shared[t].pinned_id <= id
               \/ id = shared[t].metadata_pinned /\ metadata_pinned <= id
      BY <3>1, <3>2 DEF PubInv
    <3>4. oldest_id' <= shared[t].pinned_id
      <4>1. scan[s].pinned <= shared[t].pinned_id
        BY <1>7, <3>1
      <4> QED BY <1>2, <1>6, <1>8, <2>1, <3>3, <4>1, ScanFields, SharedFields
    <3>5. ASSUME NEW id \in txn[t].snapshot
          PROVE  \/ shared[t].pinned_id <= id
                 \/ id = shared[t].metadata_pinned /\ metadata_pinned' <= id
      <4>1. id \in Nat /\ shared[t].pinned_id \in Nat
        BY <2>1, TxnFields, SharedFields
      <4>2. id < shared[t].pinned_id => scan[s].metadata <= id
        BY <1>7, <3>1
      <4> QED BY <1>2, <1>6, <1>8, <3>3, <4>1, <4>2, ScanFields
    <3>6. /\ pc'[t] \in {"ckpt_alloc", "ckpt_share"} => pc[t] \in {"ckpt_alloc", "ckpt_share"}
          /\ pc'[t] \in AllocPcs => pc[t] \in AllocPcs
      BY <1>10 DEF AllocPcs
    <3>7. \/ pc'[t] \in {"ckpt_alloc", "ckpt_share"}
          \/ pc'[t] \in AllocPcs /\ ret'[t] = "ckpt_share"
          => \A id \in txn[t].snapshot : shared[t].pinned_id <= id
      BY <1>3, <3>1, <3>2, <3>6 DEF PubInv
    <3> QED BY <1>3, <3>3, <3>4, <3>5, <3>7 DEF PubInv
  <2>6. PinInv(t)'
    <3>1. txn[t].ceiling # NONE => oldest_id' <= txn[t].ceiling
      BY <1>7, <1>8, <2>1 DEF LocalInv, PinInv
    <3>2. pc[t] \in QuietPcs \cup {"release"} => pc'[t] \in QuietPcs \cup {"release"}
      BY <1>10 DEF QuietPcs
    <3> QED BY <1>3, <2>1, <3>1, <3>2 DEF LocalInv, PinInv
  <2>7. RunInv(t)'
    <3>1. SUFFICES ASSUME Active(t), ckpt.session # t
                   PROVE  oldest_id' <= txn[t].id /\ last_running' <= txn[t].id
      BY <1>3, <1>13 DEF RunInv
    <3>2. oldest_id <= txn[t].id /\ last_running <= txn[t].id /\ r <= txn[t].id
      BY <1>7, <2>1, <3>1 DEF LocalInv, RunInv
    <3> QED BY <1>6, <1>8, <2>1, <3>2, TxnFields
  <2>8. CkptOf(t)'
    <3>1. SUFFICES ASSUME ckpt.session = t
                   PROVE  CkptOf(t)'
      BY <1>3 DEF CkptOf
    <3>2. t # s
      BY <1>3, <2>1, <3>1 DEF LocalInv, CkptOf, SnapPcs, SnapHeld
    <3>3. metadata_pinned' <= ckpt.id
      <4>1. ckpt.session # 0
        BY <3>1 DEF Sessions
      <4>2. scan[s].metadata <= ckpt.id /\ metadata_pinned <= ckpt.id
        BY <1>7, <2>1, <3>1, <4>1 DEF LocalInv, CkptOf
      <4> QED BY <1>2, <1>6, <1>8, <4>2, ScanFields, CkptFields
    <3> QED BY <1>3, <1>10, <2>1, <3>1, <3>2, <3>3 DEF LocalInv, CkptOf
  <2> QED BY <2>2, <2>3, <2>4, <2>5, <2>6, <2>7, <2>8 DEF LocalInv
<1>15. \A t \in Sessions : WalkInv(t)'
  BY <1>4, <1>10 DEF WalkInv, SnapWalkInv, WriteWalkInv
<1>16. \A u, v \in Sessions : PairInv(u, v)'
  <2> TAKE u, v \in Sessions
  <2>1. SnapInv(u, v)' /\ WriteInv(u, v)'
    BY <1>4, <1>10 DEF SnapInv, WriteInv
  <2>2. ExclInv(u, v)
    BY DEF TableInv, PairInv
  <2>3. ExclInv(u, v)'
    BY <1>3, <1>13, <2>2 DEF ExclInv, VisibleInSnapshot
  <2> QED BY <2>1, <2>3 DEF PairInv
<1>17. CkptInv'
  BY <1>1, <1>3 DEF CkptInv
<1> QED BY <1>9, <1>11, <1>12, <1>14, <1>15, <1>16, <1>17 DEF TableInv

\* What __wt_txn_oldest_id reports is not above the oldest id, nor above what the
\* checkpoint pins.
LEMMA OldestIdCheckpointStep ==
    ASSUME TableInv, NEW s \in Sessions, OldestIdCheckpoint(s)
    PROVE  TableInv'
<1>1. TypeInv /\ LockInv /\ OrderInv /\ CkptInv /\ LocalInv(s)
  BY DEF TableInv
<1>2. /\ scan[s] \in ScanRec /\ ckpt \in CkptRec /\ oldest_id \in Nat /\ claimed \in Nat
  BY <1>1 DEF TypeInv
<1>3. PICK id : id = IF ckpt.pinned_id = NONE THEN scan[s].id
                     ELSE Least(scan[s].id, ckpt.pinned_id)
  BY Zenon
<1>4. PICK c : c = [scan[s] EXCEPT !.id = NONE]
  BY Zenon
<1>5. c \in ScanRec /\ c.slot = scan[s].slot
  BY <1>2, <1>4 DEF ScanRec, Ids, NONE
<1>6. /\ pc[s] = "oldest_ckpt" /\ claimed' = Greatest(claimed, id)
      /\ scan' = [scan EXCEPT ![s] = c] /\ pc' = [pc EXCEPT ![s] = "idle"]
      /\ UNCHANGED <<globals, ckpt, shared, lock, txn, ret, prev>>
      /\ oldest_id' = oldest_id /\ metadata_pinned' = metadata_pinned /\ current' = current
      /\ last_running' = last_running /\ readers' = readers /\ writers' = writers
  BY <1>3, <1>4 DEF OldestIdCheckpoint, Goto, globals, lock
<1>7. /\ scan[s].id <= oldest_id /\ scan[s].slot = 1
  BY <1>1, <1>6 DEF LocalInv, TxnInv, RetInv, ScanPcs
<1>8. /\ claimed' \in Nat /\ claimed' \in {claimed, id} /\ id \in Nat /\ id <= oldest_id
      /\ ckpt.pinned_id # NONE => id <= ckpt.pinned_id
  BY <1>2, <1>3, <1>6, <1>7, ScanFields, CkptFields DEF Least, Greatest
<1>9. /\ pc'[s] = "idle" /\ scan'[s] = c /\ "idle" \in Labels
      /\ \A t \in Sessions : t # s => pc'[t] = pc[t] /\ scan'[t] = scan[t]
  BY <1>1, <1>6 DEF TypeInv, Labels
<1>10. TypeInv'
  BY <1>1, <1>5, <1>6, <1>8, <1>9 DEF TypeInv
<1>11. OrderInv'
  BY <1>1, <1>6, <1>8 DEF OrderInv
<1>12. LockInv'
  <2>1. OnlyMine(s)
    BY <1>6, <1>9 DEF OnlyMine
  <2> QED BY <1>6, <1>9, <2>1, LockKept DEF SnapHeld, ScanPcs
<1>13. \A t \in Sessions : Active(t)' <=> Active(t)
  BY <1>6, <1>9 DEF Active
<1>14. ASSUME NEW t \in Sessions
       PROVE  CkptOf(t)'
  <2>1. SUFFICES ASSUME ckpt.session = t
                 PROVE  CkptOf(t)'
    BY <1>6 DEF CkptOf
  <2>2. CkptOf(t)
    BY DEF TableInv, LocalInv
  <2>3. t # s
    BY <1>6, <2>1, <2>2 DEF CkptOf, SnapPcs, SnapHeld
  <2>4. txn[t].has_snapshot => claimed' <= ckpt.pinned_id
    BY <1>8, <2>1, <2>2 DEF CkptOf
  <2> QED BY <1>6, <1>9, <2>1, <2>2, <2>3, <2>4 DEF CkptOf
<1>15. LocalInv(s)'
  <2>1. RetInv(s)'
    BY <1>1, <1>5, <1>6, <1>7, <1>9
       DEF LocalInv, RetInv, SnapPcs, SnapHeld, AllocPcs, ScanPcs
  <2>2. TxnInv(s)'
    BY <1>1, <1>6, <1>9
       DEF LocalInv, TxnInv, SnapPcs, SnapHeld, AllocPcs, ScanPcs, QuietPcs
  <2>3. SlotInv(s)'
    BY <1>1, <1>6, <1>9, <1>13 DEF LocalInv, SlotInv, AllocPcs
  <2>4. PubInv(s)' /\ RunInv(s)'
    BY <1>1, <1>6, <1>9, <1>13 DEF LocalInv, PubInv, RunInv, AllocPcs
  <2>5. PinInv(s)'
    BY <1>1, <1>6, <1>9 DEF LocalInv, PinInv, QuietPcs
  <2> QED BY <1>14, <2>1, <2>2, <2>3, <2>4, <2>5 DEF LocalInv
<1>16. ASSUME NEW t \in Sessions, t # s
       PROVE  LocalInv(t)'
  <2>1. LocalInv(t) /\ pc'[t] = pc[t] /\ scan'[t] = scan[t]
    BY <1>9, <1>16 DEF TableInv
  <2>2. RetInv(t)' /\ TxnInv(t)' /\ SlotInv(t)'
    BY <1>6, <1>13, <2>1 DEF LocalInv, RetInv, TxnInv, SlotInv
  <2>3. PubInv(t)' /\ PinInv(t)' /\ RunInv(t)'
    BY <1>6, <1>13, <2>1 DEF LocalInv, PubInv, PinInv, RunInv
  <2> QED BY <1>14, <2>2, <2>3 DEF LocalInv
<1>17. \A t \in Sessions : WalkInv(t)'
  <2> TAKE t \in Sessions
  <2>1. CASE t = s
    <3>1. s \notin writers'
      BY <1>1, <1>6 DEF LockInv, ScanPcs
    <3> QED BY <1>9, <2>1, <3>1 DEF WalkInv, SnapWalkInv, WriteWalkInv, SnapHeld
  <2>2. CASE t # s
    BY <1>6, <1>9, <2>2 DEF TableInv, WalkInv, SnapWalkInv, WriteWalkInv
  <2> QED BY <2>1, <2>2
<1>18. \A u, v \in Sessions : PairInv(u, v)'
  <2> TAKE u, v \in Sessions
  <2>1. SnapInv(u, v) /\ WriteInv(u, v) /\ ExclInv(u, v)
    BY DEF TableInv, PairInv
  <2>2. ExclInv(u, v)'
    BY <1>6, <1>13, <2>1 DEF ExclInv, VisibleInSnapshot
  <2>3. CASE u = s
    <3>1. s \notin writers'
      BY <1>1, <1>6 DEF LockInv, ScanPcs
    <3> QED BY <1>9, <2>2, <2>3, <3>1 DEF PairInv, SnapInv, WriteInv, SnapHeld
  <2>4. CASE u # s
    <3>1. pc'[u] = pc[u] /\ scan'[u] = scan[u]
      BY <1>9, <2>4
    <3>2. SnapInv(u, v)'
      BY <1>6, <1>13, <2>1, <3>1 DEF SnapInv
    <3>3. WriteInv(u, v)'
      BY <1>6, <1>13, <2>1, <3>1 DEF WriteInv, ScannedOldest
    <3> QED BY <2>2, <3>2, <3>3 DEF PairInv
  <2> QED BY <2>3, <2>4
<1>19. CkptInv'
  BY <1>1, <1>6 DEF CkptInv
<1> QED BY <1>10, <1>11, <1>12, <1>15, <1>16, <1>17, <1>18, <1>19 DEF TableInv

\* A new commit generation only makes snapshots stale.
LEMMA GenNextStep ==
    ASSUME TableInv, NEW s \in Sessions, GenNext(s)
    PROVE  TableInv'
<1>1. TypeInv /\ LockInv /\ OrderInv /\ CkptInv /\ LocalInv(s)
  BY DEF TableInv
<1>2. /\ pc[s] = "gen_next" /\ pc' = [pc EXCEPT ![s] = "idle"]
      /\ txn' = [t \in Sessions |-> [txn[t] EXCEPT !.fresh = FALSE]]
      /\ UNCHANGED <<globals, ckpt, shared, lock, locals, claimed>>
      /\ oldest_id' = oldest_id /\ metadata_pinned' = metadata_pinned /\ current' = current
      /\ last_running' = last_running /\ readers' = readers /\ writers' = writers
      /\ ret' = ret /\ scan' = scan /\ prev' = prev
  <2>1. /\ pc[s] = "gen_next" /\ pc' = [pc EXCEPT ![s] = "idle"]
        /\ txn' = [t \in Sessions |-> [txn[t] EXCEPT !.fresh = FALSE]]
        /\ UNCHANGED <<globals, ckpt, shared, lock, locals, claimed>>
    BY Zenon DEF GenNext, Goto
  <2>2. UNCHANGED globals /\ UNCHANGED lock /\ UNCHANGED locals
    BY <2>1
  <2> QED BY <2>1, <2>2 DEF globals, lock, locals
<1>3. /\ pc'[s] = "idle" /\ "idle" \in Labels
      /\ \A t \in Sessions : t # s => pc'[t] = pc[t]
  BY <1>1, <1>2 DEF TypeInv, Labels
<1>4. \A t \in Sessions :
        /\ txn'[t] \in TxnRec
        /\ txn'[t].state = txn[t].state /\ txn'[t].isolation = txn[t].isolation
        /\ txn'[t].id = txn[t].id /\ txn'[t].has_snapshot = txn[t].has_snapshot
        /\ txn'[t].published = txn[t].published /\ txn'[t].snapshot = txn[t].snapshot
        /\ txn'[t].snap_max = txn[t].snap_max /\ txn'[t].ceiling = txn[t].ceiling
  <2> TAKE t \in Sessions
  <2>1. PICK x : x = [txn[t] EXCEPT !.fresh = FALSE]
    BY Zenon
  <2>2. txn[t] \in TxnRec /\ txn'[t] = x
    BY <1>1, <1>2, <2>1 DEF TypeInv
  <2>3. PICK u \in TxnRec : u = txn[t]
    BY <2>2
  <2>4. x = [u EXCEPT !.fresh = FALSE]
    BY <2>1, <2>3
  <2>5. /\ x \in TxnRec /\ x.state = u.state /\ x.isolation = u.isolation /\ x.id = u.id
        /\ x.has_snapshot = u.has_snapshot /\ x.published = u.published
        /\ x.snapshot = u.snapshot /\ x.snap_max = u.snap_max /\ x.ceiling = u.ceiling
    BY <2>4 DEF TxnRec
  <2> QED BY <2>2, <2>3, <2>5
<1>5. TypeInv'
  <2>1. txn' \in [Sessions -> TxnRec]
    BY <1>2, <1>4
  <2> QED BY <1>1, <1>2, <1>3, <2>1 DEF TypeInv
<1>6. OrderInv' /\ CkptInv'
  BY <1>1, <1>2 DEF OrderInv, CkptInv
<1>7. LockInv'
  BY <1>1, <1>2, <1>3 DEF LockInv, SnapHeld, ScanPcs
<1>8. \A t \in Sessions : Active(t)' <=> Active(t)
  BY <1>2, <1>3, <1>4 DEF Active
<1>9. \A t \in Sessions : LocalInv(t)'
  <2> TAKE t \in Sessions
  <2>1. LocalInv(t)
    BY DEF TableInv
  <2>2. CASE t = s
    <3>1. RetInv(s)'
      BY <1>1, <1>2, <1>3 DEF LocalInv, RetInv, SnapPcs, SnapHeld, AllocPcs, ScanPcs
    <3>2. TxnInv(s)'
      BY <1>1, <1>2, <1>3, <1>4
         DEF LocalInv, TxnInv, SnapPcs, SnapHeld, AllocPcs, ScanPcs, QuietPcs
    <3>3. SlotInv(s)'
      BY <1>1, <1>2, <1>3, <1>4, <1>8 DEF LocalInv, SlotInv, AllocPcs
    <3>4. PubInv(s)' /\ RunInv(s)'
      BY <1>1, <1>2, <1>3, <1>4, <1>8 DEF LocalInv, PubInv, RunInv, AllocPcs
    <3>5. PinInv(s)'
      BY <1>1, <1>2, <1>3, <1>4 DEF LocalInv, PinInv, QuietPcs, ScanPcs
    <3>6. CkptOf(s)'
      BY <1>1, <1>2, <1>3 DEF LocalInv, CkptOf, SnapPcs, SnapHeld
    <3> QED BY <2>2, <3>1, <3>2, <3>3, <3>4, <3>5, <3>6 DEF LocalInv
  <2>3. CASE t # s
    <3>1. pc'[t] = pc[t]
      BY <1>3, <2>3
    <3>2. RetInv(t)' /\ TxnInv(t)'
      BY <1>2, <1>4, <2>1, <3>1 DEF LocalInv, RetInv, TxnInv
    <3>3. SlotInv(t)' /\ PubInv(t)'
      BY <1>2, <1>4, <1>8, <2>1, <3>1 DEF LocalInv, SlotInv, PubInv
    <3>4. PinInv(t)' /\ RunInv(t)' /\ CkptOf(t)'
      BY <1>2, <1>4, <1>8, <2>1, <3>1 DEF LocalInv, PinInv, RunInv, CkptOf
    <3> QED BY <3>2, <3>3, <3>4 DEF LocalInv
  <2> QED BY <2>2, <2>3
<1>10. \A t \in Sessions : WalkInv(t)'
  <2> TAKE t \in Sessions
  <2>1. SnapWalkInv(t) /\ WriteWalkInv(t)
    BY DEF TableInv, WalkInv
  <2>2. CASE t = s
    <3>1. s \notin writers'
      BY <1>1, <1>2 DEF LockInv, ScanPcs
    <3> QED BY <1>3, <2>2, <3>1 DEF WalkInv, SnapWalkInv, WriteWalkInv, SnapHeld
  <2>3. CASE t # s
    BY <1>2, <1>3, <2>1, <2>3 DEF WalkInv, SnapWalkInv, WriteWalkInv
  <2> QED BY <2>2, <2>3
<1>11. \A u, v \in Sessions : PairInv(u, v)'
  <2> TAKE u, v \in Sessions
  <2>1. SnapInv(u, v) /\ WriteInv(u, v) /\ ExclInv(u, v)
    BY DEF TableInv, PairInv
  <2>2. ExclInv(u, v)'
    BY <1>4, <1>8, <2>1 DEF ExclInv, VisibleInSnapshot
  <2>3. CASE u = s
    <3>1. s \notin writers'
      BY <1>1, <1>2 DEF LockInv, ScanPcs
    <3> QED BY <1>3, <2>2, <2>3, <3>1 DEF PairInv, SnapInv, WriteInv, SnapHeld
  <2>4. CASE u # s
    <3>1. pc'[u] = pc[u]
      BY <1>3, <2>4
    <3>2. SnapInv(u, v)'
      BY <1>2, <1>4, <1>8, <2>1, <3>1 DEF SnapInv
    <3>3. WriteInv(u, v)'
      BY <1>2, <1>4, <1>8, <2>1, <3>1 DEF WriteInv, ScannedOldest
    <3> QED BY <2>2, <3>2, <3>3 DEF PairInv
  <2> QED BY <2>3, <2>4
<1> QED BY <1>5, <1>6, <1>7, <1>9, <1>10, <1>11 DEF TableInv

\* The smallest id a snapshot depends on.
LEMMA SnapMinLeast ==
    ASSUME NEW s \in Sessions, txn[s] \in TxnRec
    PROVE  /\ SnapMin(s) \in txn[s].snapshot \cup {txn[s].snap_max}
           /\ SnapMin(s) <= txn[s].snap_max
           /\ \A id \in txn[s].snapshot : SnapMin(s) <= id
<1> DEFINE below == {id \in txn[s].snapshot : id <= txn[s].snap_max}
<1>1. /\ txn[s].snap_max \in Nat /\ \A id \in txn[s].snapshot : id \in Nat
      /\ below \subseteq Nat
  BY TxnFields
<1>2. CASE below = {}
  <2>1. SnapMin(s) = txn[s].snap_max
    BY <1>2 DEF SnapMin
  <2> QED BY <1>1, <1>2, <2>1
<1>3. CASE below # {}
  <2>1. PICK x \in below : \A y \in below : ~ (<<y, x>> \in OpToRel(<, Nat))
    BY <1>1, <1>3, NatLessThanWellFounded, WFMin
  <2>2. ASSUME NEW y \in below
        PROVE  x <= y
    <3>1. x \in Nat /\ y \in Nat
      BY <1>1
    <3>2. ASSUME y < x
          PROVE  <<y, x>> \in OpToRel(<, Nat)
      <4>1. <<y, x>> \in Nat \X Nat /\ <<y, x>>[1] < <<y, x>>[2]
        BY <3>1, <3>2
      <4> QED BY <4>1, Zenon DEF OpToRel
    <3>3. ~ (y < x)
      BY <2>1, <3>2, Zenon
    <3> QED BY <3>1, <3>3
  <2>3. SnapMin(s) = CHOOSE id \in below : \A other \in below : id <= other
    BY <1>3 DEF SnapMin
  <2>4. SnapMin(s) \in below /\ \A other \in below : SnapMin(s) <= other
    BY <2>2, <2>3, Zenon
  <2> QED BY <1>1, <2>4
<1> QED BY <1>2, <1>3

\* The checkpoint's entry leaves the table while nobody walks.
LEMMA CkptShareStep ==
    ASSUME TableInv, NEW s \in Sessions, CkptShare(s)
    PROVE  TableInv'
<1>1. TypeInv /\ LockInv /\ OrderInv /\ CkptInv /\ LocalInv(s)
  BY DEF TableInv
<1>2. /\ txn[s] \in TxnRec /\ shared[s] \in SharedRec /\ ckpt \in CkptRec
      /\ oldest_id \in Nat /\ claimed \in Nat /\ metadata_pinned \in Nat
  BY <1>1 DEF TypeInv
<1>3. PICK low : low = SnapMin(s)
  BY Zenon
<1>4. PICK k : k = [session |-> s, id |-> shared[s].id, pinned_id |-> low]
  BY Zenon
<1>5. PICK x : x = [txn[s] EXCEPT !.published = FALSE]
  BY Zenon
<1>6. PICK h : h = [Unpinned(s)[s] EXCEPT !.id = NONE]
  BY Zenon
<1>7. /\ Unpinned(s) \in [Sessions -> SharedRec]
      /\ \A u \in Sessions : u # s => Unpinned(s)[u] = shared[u]
      /\ Unpinned(s)[s].is_allocating = shared[s].is_allocating
  BY <1>1, UnpinnedEffect DEF TypeInv
<1>8. /\ pc[s] = "ckpt_share" /\ readers = {} /\ writers = {}
      /\ ckpt' = k /\ txn' = [txn EXCEPT ![s] = x]
      /\ pc' = [pc EXCEPT ![s] = "ckpt_bump"]
      /\ UNCHANGED <<globals, lock, locals, claimed>>
      /\ oldest_id' = oldest_id /\ metadata_pinned' = metadata_pinned /\ current' = current
      /\ last_running' = last_running /\ readers' = readers /\ writers' = writers
      /\ ret' = ret /\ scan' = scan /\ prev' = prev /\ claimed' = claimed
  BY <1>3, <1>4, <1>5 DEF CkptShare, Goto, globals, lock, locals, rwlock!MayWrite
<1>9. shared' = [Unpinned(s) EXCEPT ![s] = h]
  BY <1>6 DEF CkptShare
<1>10. /\ h \in SharedRec /\ h.id = NONE /\ h.is_allocating = shared[s].is_allocating
  <2>1. Unpinned(s)[s] \in SharedRec
    BY <1>7
  <2> QED BY <1>6, <1>7, <2>1 DEF SharedRec, Ids, NONE
<1>11. /\ x \in TxnRec /\ x.state = txn[s].state /\ x.isolation = txn[s].isolation
       /\ x.id = txn[s].id /\ x.has_snapshot = txn[s].has_snapshot
       /\ x.published = FALSE /\ x.snapshot = txn[s].snapshot
       /\ x.snap_max = txn[s].snap_max /\ x.ceiling = txn[s].ceiling
  BY <1>2, <1>5 DEF TxnRec
<1>12. /\ pc'[s] = "ckpt_bump" /\ "ckpt_bump" \in Labels
       /\ txn'[s] = x /\ shared'[s] = h
       /\ \A t \in Sessions : t # s => /\ pc'[t] = pc[t] /\ txn'[t] = txn[t]
                                       /\ shared'[t] = shared[t]
  BY <1>1, <1>7, <1>8, <1>9 DEF TypeInv, Labels
<1>13. s \in Checkpointers /\ ckpt.session = 0
  <2>1. s \in Checkpointers
    BY <1>1, <1>8 DEF LocalInv, RetInv
  <2>2. ckpt.session # s
    BY <1>1, <1>8 DEF LocalInv, CkptOf, SnapPcs, SnapHeld
  <2> QED BY <1>1, <2>1, <2>2, RolesAssumption DEF CkptInv
<1>14. ckpt.session # s /\ \A t \in Sessions : ckpt.session # t
  BY <1>13 DEF Sessions
<1>15. /\ txn[s].state = "running" /\ txn[s].published /\ txn[s].id # NONE
       /\ txn[s].has_snapshot /\ oldest_id <= shared[s].pinned_id
       /\ shared[s].pinned_id <= txn[s].snap_max
       /\ \A id \in txn[s].snapshot : shared[s].pinned_id <= id
  BY <1>1, <1>8 DEF LocalInv, TxnInv, PubInv
<1>16. Active(s) /\ shared[s].id = txn[s].id /\ oldest_id <= txn[s].id
  BY <1>1, <1>8, <1>14, <1>15 DEF LocalInv, SlotInv, RunInv, Active, AllocPcs
<1>17. /\ low \in Nat /\ oldest_id <= low /\ low <= txn[s].snap_max
       /\ \A id \in txn[s].snapshot : low <= id
       /\ low # NONE /\ claimed <= low
  <2>1. /\ low \in txn[s].snapshot \cup {txn[s].snap_max} /\ low <= txn[s].snap_max
        /\ \A id \in txn[s].snapshot : low <= id
    BY <1>2, <1>3, SnapMinLeast
  <2>2. low \in Nat /\ shared[s].pinned_id \in Nat
    BY <1>2, <2>1, TxnFields, SharedFields
  <2>3. shared[s].pinned_id <= low
    BY <1>15, <2>1
  <2> QED BY <1>1, <1>2, <1>15, <2>1, <2>2, <2>3 DEF OrderInv, FIRST, NONE
<1>18. k \in CkptRec /\ k.session = s /\ k.id = txn[s].id /\ k.pinned_id = low
  <2>1. s \in 0..N
    BY DEF Sessions
  <2> QED BY <1>2, <1>4, <1>16, <1>17, <2>1, SharedFields DEF CkptRec, Ids
<1>19. TypeInv'
  BY <1>1, <1>7, <1>8, <1>9, <1>10, <1>11, <1>12, <1>18 DEF TypeInv
<1>20. OrderInv' /\ CkptInv'
  BY <1>1, <1>8, <1>13, <1>14, <1>18, SessionsAssumption DEF OrderInv, CkptInv, Sessions
<1>21. LockInv'
  BY <1>1, <1>8, <1>12 DEF LockInv, SnapHeld, ScanPcs
<1>22. /\ \A t \in Sessions : Active(t)' <=> Active(t)
       /\ \A t \in Sessions : pc'[t] \notin SnapHeld
  BY <1>1, <1>8, <1>11, <1>12 DEF Active, LockInv, SnapHeld
<1>23. LocalInv(s)'
  <2>1. RetInv(s)'
    BY <1>1, <1>8, <1>12, <1>13 DEF LocalInv, RetInv, SnapPcs, SnapHeld, AllocPcs, ScanPcs
  <2>2. TxnInv(s)'
    BY <1>1, <1>8, <1>11, <1>12
       DEF LocalInv, TxnInv, SnapPcs, SnapHeld, AllocPcs, ScanPcs, QuietPcs
  <2>3. SlotInv(s)'
    BY <1>1, <1>8, <1>10, <1>12, <1>18 DEF LocalInv, SlotInv, AllocPcs
  <2>4. PubInv(s)' /\ RunInv(s)'
    BY <1>8, <1>11, <1>12, <1>18 DEF PubInv, RunInv
  <2>5. PinInv(s)'
    BY <1>1, <1>8, <1>11, <1>12 DEF LocalInv, PinInv, QuietPcs, ScanPcs
  <2>6. CkptOf(s)'
    <3>1. metadata_pinned <= txn[s].id
      BY <1>1, <1>2, <1>16, TxnFields DEF OrderInv
    <3> QED BY <1>8, <1>11, <1>12, <1>15, <1>17, <1>18, <3>1 DEF CkptOf
  <2> QED BY <2>1, <2>2, <2>3, <2>4, <2>5, <2>6 DEF LocalInv
<1>24. ASSUME NEW t \in Sessions, t # s
       PROVE  LocalInv(t)'
  <2>1. /\ LocalInv(t) /\ pc'[t] = pc[t] /\ txn'[t] = txn[t] /\ shared'[t] = shared[t]
        /\ ckpt.session # t /\ ckpt'.session # t
    BY <1>8, <1>12, <1>14, <1>18, <1>24 DEF TableInv
  <2>2. RetInv(t)' /\ TxnInv(t)' /\ SlotInv(t)'
    BY <1>8, <1>22, <2>1 DEF LocalInv, RetInv, TxnInv, SlotInv
  <2>3. PubInv(t)' /\ PinInv(t)' /\ RunInv(t)' /\ CkptOf(t)'
    BY <1>8, <1>22, <2>1 DEF LocalInv, PubInv, PinInv, RunInv, CkptOf
  <2> QED BY <2>2, <2>3 DEF LocalInv
<1>25. \A t \in Sessions : WalkInv(t)'
  BY <1>8, <1>22 DEF WalkInv, SnapWalkInv, WriteWalkInv
<1>26. \A u, v \in Sessions : PairInv(u, v)'
  <2> TAKE u, v \in Sessions
  <2>1. SnapInv(u, v)' /\ WriteInv(u, v)'
    BY <1>8, <1>22 DEF SnapInv, WriteInv
  <2>2. \A t \in Sessions :
          /\ txn'[t].id = txn[t].id /\ txn'[t].has_snapshot = txn[t].has_snapshot
          /\ txn'[t].snapshot = txn[t].snapshot /\ txn'[t].snap_max = txn[t].snap_max
    BY <1>11, <1>12
  <2>3. ExclInv(u, v)
    BY DEF TableInv, PairInv
  <2>4. ExclInv(u, v)'
    BY <1>22, <2>2, <2>3 DEF ExclInv, VisibleInSnapshot
  <2> QED BY <2>1, <2>4 DEF PairInv
<1> QED BY <1>19, <1>20, <1>21, <1>23, <1>24, <1>25, <1>26 DEF TableInv

-----------------------------------------------------------------------------
(* The invariant holds, and what follows from it. *)

LEMMA InitInv == Init => TableInv
<1> SUFFICES ASSUME Init
             PROVE  TableInv
  OBVIOUS
<1>1. NoTxn \in TxnRec /\ NoScan \in ScanRec /\ NoPrev \in PrevRec
  <2>1. NoTxn \in TxnRec
    BY DEF NoTxn, TxnRec, Ids, NONE
  <2> QED BY <2>1, NoScanType, NoPrevType
<1>2. PICK k : k = [session |-> 0, id |-> NONE, pinned_id |-> NONE]
  BY Zenon
<1>3. k \in CkptRec /\ k.session = 0 /\ k.id = NONE
  BY <1>2, SessionsAssumption DEF CkptRec, Ids, NONE
<1>4. PICK h : h = [id |-> NONE, pinned_id |-> NONE, metadata_pinned |-> NONE,
                    is_allocating |-> FALSE]
  BY Zenon
<1>5. h \in SharedRec /\ h.id = NONE /\ h.is_allocating = FALSE
  BY <1>4 DEF SharedRec, Ids, NONE
<1>6. /\ current = 1 /\ oldest_id = 1 /\ last_running = 1 /\ metadata_pinned = 1
      /\ claimed = NONE /\ readers = {} /\ writers = {}
      /\ ckpt = k /\ shared = [s \in Sessions |-> h] /\ txn = [s \in Sessions |-> NoTxn]
      /\ pc = [s \in Sessions |-> "idle"] /\ ret = [s \in Sessions |-> "idle"]
      /\ scan = [s \in Sessions |-> NoScan] /\ prev = [s \in Sessions |-> NoPrev]
  BY <1>2, <1>4 DEF Init, FIRST, rwlock!Init
<1>7. /\ NoTxn.state = "none" /\ NoTxn.isolation = "snapshot" /\ NoTxn.id = NONE
      /\ NoTxn.has_snapshot = FALSE /\ NoTxn.published = FALSE /\ NoTxn.ceiling = NONE
  BY DEF NoTxn
<1>8. \A s \in Sessions :
        /\ pc[s] = "idle" /\ ret[s] = "idle" /\ txn[s] = NoTxn /\ shared[s] = h
        /\ scan[s] = NoScan /\ ckpt.session # s
  BY <1>3, <1>6 DEF Sessions
<1>9. TypeInv
  <2>1. "idle" \in Labels
    BY DEF Labels
  <2> QED BY <1>1, <1>3, <1>5, <1>6, <2>1 DEF TypeInv, NONE
<1>10. OrderInv /\ CkptInv
  BY <1>3, <1>6 DEF OrderInv, CkptInv, FIRST, NONE
<1>11. LockInv
  BY <1>6, <1>8 DEF LockInv, SnapHeld, ScanPcs
<1>12. \A s \in Sessions : LocalInv(s)
  <2> TAKE s \in Sessions
  <2>1. RetInv(s)
    BY <1>8, NoScanType DEF RetInv, SnapPcs, SnapHeld, AllocPcs, ScanPcs
  <2>2. TxnInv(s)
    BY <1>7, <1>8 DEF TxnInv, SnapPcs, SnapHeld, AllocPcs, ScanPcs, QuietPcs
  <2>3. SlotInv(s)
    BY <1>5, <1>7, <1>8 DEF SlotInv, AllocPcs, Active
  <2>4. PubInv(s) /\ PinInv(s) /\ RunInv(s) /\ CkptOf(s)
    BY <1>7, <1>8 DEF PubInv, PinInv, RunInv, CkptOf, Active
  <2> QED BY <2>1, <2>2, <2>3, <2>4 DEF LocalInv
<1>13. \A s \in Sessions : WalkInv(s)
  BY <1>6, <1>8 DEF WalkInv, SnapWalkInv, WriteWalkInv, SnapHeld
<1>14. \A s, t \in Sessions : PairInv(s, t)
  BY <1>6, <1>7, <1>8 DEF PairInv, SnapInv, WriteInv, ExclInv, SnapHeld
<1> QED BY <1>9, <1>10, <1>11, <1>12, <1>13, <1>14 DEF TableInv

LEMMA StutterInv ==
    ASSUME TableInv, UNCHANGED vars
    PROVE  TableInv'
<1> USE DEF vars, globals, lock, locals
<1>1. TypeInv' /\ OrderInv' /\ LockInv' /\ CkptInv'
  BY DEF TableInv, TypeInv, OrderInv, LockInv, CkptInv
<1>2. \A t \in Sessions : Active(t)' <=> Active(t)
  BY DEF Active
<1>3. \A t \in Sessions : LocalInv(t)'
  <2> TAKE t \in Sessions
  <2>1. LocalInv(t)
    BY DEF TableInv
  <2>2. RetInv(t)' /\ TxnInv(t)' /\ SlotInv(t)'
    BY <1>2, <2>1 DEF LocalInv, RetInv, TxnInv, SlotInv
  <2>3. PubInv(t)' /\ PinInv(t)' /\ RunInv(t)' /\ CkptOf(t)'
    BY <1>2, <2>1 DEF LocalInv, PubInv, PinInv, RunInv, CkptOf
  <2> QED BY <2>2, <2>3 DEF LocalInv
<1>4. \A t \in Sessions : WalkInv(t)'
  BY DEF TableInv, WalkInv, SnapWalkInv, WriteWalkInv
<1>5. \A u, v \in Sessions : PairInv(u, v)'
  <2> TAKE u, v \in Sessions
  <2>1. SnapInv(u, v) /\ WriteInv(u, v) /\ ExclInv(u, v)
    BY DEF TableInv, PairInv
  <2>2. SnapInv(u, v)' /\ WriteInv(u, v)'
    BY <1>2, <2>1 DEF SnapInv, WriteInv, ScannedOldest
  <2>3. ExclInv(u, v)'
    BY <1>2, <2>1 DEF ExclInv, VisibleInSnapshot
  <2> QED BY <2>2, <2>3 DEF PairInv
<1> QED BY <1>1, <1>3, <1>4, <1>5 DEF TableInv

\* Every way a transaction leaves the table.
LEMMA LeavingStep ==
    ASSUME TableInv, NEW s \in Sessions,
           CommitRelease(s) \/ CommitFail(s) \/ Rollback(s) \/ CkptFail(s)
    PROVE  TableInv'
<1>1. PICK label \in {"idle", "gen_next"} : LeaveTable(s, label)
  BY DEF CommitRelease, CommitFail, Rollback, CkptFail
<1>2. pc[s] \in {"idle", "commit", "ckpt_alloc", "ckpt_share", "ckpt_running", "ckpt_sync"}
  BY DEF CommitRelease, CommitFail, Rollback, CkptFail
<1> QED BY <1>1, <1>2, LeaveTableStep

\* The invariant is inductive.
LEMMA CallStep ==
    ASSUME TableInv, NEW s \in Sessions, Call(s)
    PROVE  TableInv'
<1>1. ASSUME NEW isolation \in Isolations[s], Begin(s, isolation)
      PROVE  TableInv'
  <2>1. isolation \in {"snapshot", "read-committed", "read-uncommitted"}
    BY IsolationsAssumption
  <2> QED BY <1>1, <2>1, BeginStep
<1>2. ASSUME NEW mode \in SweepModes, UpdateOldest(s, mode[1], mode[2])
      PROVE  TableInv'
  <2>1. mode[1] \in BOOLEAN /\ mode[2] \in BOOLEAN
    BY RolesAssumption
  <2> QED BY <1>2, <2>1, UpdateOldestStep
<1>3. CASE CursorOp(s)
  BY <1>3, CursorOpStep
<1>4. CASE CursorOpUncommitted(s)
  BY <1>4, CursorOpUncommittedStep
<1>5. CASE ReadLast(s)
  BY <1>5, ReadLastStep
<1>6. CASE ResetSnapshot(s)
  BY <1>6, ResetSnapshotStep
<1>7. CASE Modify(s)
  BY <1>7, ModifyStep
<1>8. CASE Commit(s)
  BY <1>8, CommitStep
<1>9. CASE Rollback(s)
  BY <1>9, LeavingStep
<1>10. CASE Prepare(s)
  BY <1>10, PrepareStep
<1>11. CASE OldestIdRead(s)
  BY <1>11, OldestIdReadStep
<1>12. CASE EvictSnapshot(s)
  BY <1>12, EvictSnapshotStep
<1>13. CASE CkptBegin(s)
  BY <1>13, CkptBeginStep
<1> QED
  BY <1>1, <1>2, <1>3, <1>4, <1>5, <1>6, <1>7, <1>8, <1>9, <1>10, <1>11, <1>12, <1>13
     DEF Call

LEMMA ContinueStep ==
    ASSUME TableInv, NEW s \in Sessions, Continue(s)
    PROVE  TableInv'
<1>1. CASE PinUncommitted(s)
  BY <1>1, PinUncommittedStep
<1>2. CASE Snapshotting(s)
  <2>1. CASE SnapLock(s)
    BY <2>1, SnapLockStep
  <2>2. CASE SnapCheckpoint(s)
    BY <2>2, SnapCheckpointStep
  <2>3. CASE SnapReadId(s)
    BY <2>3, SnapReadIdStep
  <2>4. CASE SnapReread(s)
    BY <2>4, SnapRereadStep
  <2>5. CASE SnapPublish(s)
    BY <2>5, SnapPublishStep
  <2> QED BY <1>2, <2>1, <2>2, <2>3, <2>4, <2>5 DEF Snapshotting
<1>3. CASE Allocating(s)
  <2>1. CASE AllocPublish(s)
    BY <2>1, AllocPublishStep
  <2>2. CASE AllocAdd(s)
    BY <2>2, AllocAddStep
  <2>3. CASE AllocPublishId(s)
    BY <2>3, AllocPublishIdStep
  <2>4. CASE AllocEnd(s)
    BY <2>4, AllocEndStep
  <2> QED BY <1>3, <2>1, <2>2, <2>3, <2>4 DEF Allocating
<1>4. CASE Finishing(s)
  <2>1. CASE CommitRelease(s) \/ CommitFail(s)
    BY <2>1, LeavingStep
  <2>2. CASE ReleaseSnapshot(s)
    BY <2>2, ReleaseSnapshotStep
  <2>3. CASE GenNext(s)
    BY <2>3, GenNextStep
  <2>4. CASE PrepareRemoveId(s)
    BY <2>4, PrepareRemoveIdStep
  <2> QED BY <1>4, <2>1, <2>2, <2>3, <2>4 DEF Finishing
<1>5. CASE Sweep(s)
  <2>1. CASE SweepBusy(s)
    BY <2>1, SweepBusyStep
  <2>2. CASE SweepReadLock(s)
    BY <2>2, SweepReadLockStep
  <2>3. CASE SweepWriteLock(s)
    BY <2>3, SweepWriteLockStep
  <2>4. CASE ScanReadId(s)
    BY <2>4, ScanReadIdStep
  <2>5. CASE ScanReread(s)
    BY <2>5, ScanRereadStep
  <2>6. CASE ScanPinned(s)
    BY <2>6, ScanPinnedStep
  <2>7. CASE SweepDecide(s)
    BY <2>7, SweepDecideStep
  <2>8. CASE SweepUpdate(s)
    BY <2>8, SweepUpdateStep
  <2>9. CASE OldestIdCheckpoint(s)
    BY <2>9, OldestIdCheckpointStep
  <2>10. CASE EvictReleaseSnapshot(s)
    BY <2>10, EvictReleaseSnapshotStep
  <2> QED
    BY <1>5, <2>1, <2>2, <2>3, <2>4, <2>5, <2>6, <2>7, <2>8, <2>9, <2>10 DEF Sweep
<1>6. CASE Checkpointing(s)
  <2>1. CASE CkptAllocate(s)
    BY <2>1, CkptAllocateStep
  <2>2. CASE CkptShare(s)
    BY <2>2, CkptShareStep
  <2>3. CASE CkptBump(s)
    BY <2>3, CkptBumpStep
  <2>4. CASE CkptReleaseSnapshot(s)
    BY <2>4, CkptReleaseSnapshotStep
  <2>5. CASE CkptFail(s)
    BY <2>5, LeavingStep
  <2> QED BY <1>6, <2>1, <2>2, <2>3, <2>4, <2>5 DEF Checkpointing
<1> QED BY <1>1, <1>2, <1>3, <1>4, <1>5, <1>6 DEF Continue

LEMMA TableInvHolds == Spec => []TableInv
<1>1. Init => TableInv
  BY InitInv
<1>2. TableInv /\ [Next]_vars => TableInv'
  <2> SUFFICES ASSUME TableInv, [Next]_vars
               PROVE  TableInv'
    OBVIOUS
  <2>1. ASSUME NEW s \in Sessions, Call(s) \/ Continue(s)
        PROVE  TableInv'
    BY <2>1, CallStep, ContinueStep
  <2>2. CASE UNCHANGED vars
    BY <2>2, StutterInv
  <2> QED BY <2>1, <2>2 DEF Next
<1> QED BY <1>1, <1>2, PTL DEF Spec

-----------------------------------------------------------------------------
(* What the transaction table promises, for any number of sessions. *)

\* Every variable keeps its type, whatever sessions read, allocate and sweep.
THEOREM TableTypes == Spec => []TypeOK
<1>1. TableInv => TypeOK
  BY TypeOKIsTypeInv DEF TableInv
<1> QED BY <1>1, TableInvHolds, PTL

\* No snapshot that __txn_get_snapshot_int builds shows a transaction that is
\* still running, although ids are allocated, published and moved to the
\* checkpoint's entry without the lock the snapshot's walk holds.
THEOREM SnapshotsExcludeRunning == Spec => []SnapshotExcludesRunning
<1>1. TableInv => SnapshotExcludesRunning
  BY DEF TableInv, PairInv, ExclInv, SnapshotExcludesRunning, Running, Active
<1> QED BY <1>1, TableInvHolds, PTL

\* The oldest and the oldest running id that __wt_txn_update_oldest computes do
\* not pass a running transaction, even one that is allocating its id meanwhile.
THEOREM RunningNeverPassed == Spec => []RunningNotPassed
<1>1. TableInv => RunningNotPassed
  BY DEF TableInv, LocalInv, RunInv, RunningNotPassed, Running, Active
<1> QED BY <1>1, TableInvHolds, PTL

\* What is older than the oldest id is visible in every published snapshot but
\* for a checkpoint's id, and what is older than the metadata's pinned id is
\* without exception: a sweep never overtakes a pin.
THEOREM OldestVisibleToAll == Spec => []GloballyVisible
<1>1. TableInv => GloballyVisible
  <2> SUFFICES ASSUME TableInv, NEW s \in Sessions, txn[s].published
               PROVE  /\ oldest_id <= txn[s].snap_max
                      /\ \A id \in txn[s].snapshot :
                           id < oldest_id => id = shared[s].metadata_pinned
                      /\ \A id \in FIRST..(metadata_pinned - 1) : VisibleInSnapshot(s, id)
    BY DEF GloballyVisible
  <2>1. /\ oldest_id <= shared[s].pinned_id
        /\ shared[s].pinned_id <= txn[s].snap_max
        /\ \A id \in txn[s].snapshot :
             \/ shared[s].pinned_id <= id
             \/ id = shared[s].metadata_pinned /\ metadata_pinned <= id
        /\ metadata_pinned <= oldest_id
    BY DEF TableInv, LocalInv, PubInv, OrderInv
  <2>2. /\ txn[s] \in TxnRec /\ shared[s] \in SharedRec
        /\ oldest_id \in Nat /\ metadata_pinned \in Nat
    BY DEF TableInv, TypeInv
  <2>3. /\ txn[s].snap_max \in Nat /\ shared[s].pinned_id \in Nat
        /\ \A id \in txn[s].snapshot : id \in Nat
    BY <2>2, TxnFields, SharedFields
  <2>4. \A id \in txn[s].snapshot : metadata_pinned <= id
    BY <2>1, <2>2, <2>3
  <2>5. ASSUME NEW id \in FIRST..(metadata_pinned - 1)
        PROVE  VisibleInSnapshot(s, id)
    <3>1. id \in Int /\ id < metadata_pinned
      BY <2>2 DEF FIRST
    <3> QED BY <2>1, <2>2, <2>3, <2>4, <3>1 DEF VisibleInSnapshot
  <2> QED BY <2>1, <2>2, <2>3, <2>5
<1> QED BY <1>1, TableInvHolds, PTL

\* What __wt_txn_oldest_id reported as visible to everybody is visible in the
\* snapshot of a checkpoint that left the table: reading the oldest id before the
\* checkpoint's pin is the safe order.
THEOREM CheckpointsKeepVersions == Spec => []CheckpointKeepsVersions
<1>1. TableInv => CheckpointKeepsVersions
  <2> SUFFICES ASSUME TableInv, NEW s \in Sessions, ckpt.session = s, txn[s].has_snapshot,
                      NEW id \in FIRST..(claimed - 1)
               PROVE  VisibleInSnapshot(s, id)
    BY DEF CheckpointKeepsVersions
  <2>1. /\ claimed <= ckpt.pinned_id /\ ckpt.pinned_id <= txn[s].snap_max
        /\ \A i \in txn[s].snapshot : ckpt.pinned_id <= i
    BY DEF TableInv, LocalInv, CkptOf
  <2>2. /\ txn[s] \in TxnRec /\ ckpt \in CkptRec /\ claimed \in Nat
    BY DEF TableInv, TypeInv
  <2>3. id \in Int /\ id < claimed
    BY <2>2 DEF FIRST
  <2> QED BY <2>1, <2>2, <2>3, TxnFields, CkptFields DEF VisibleInSnapshot
<1> QED BY <1>1, TableInvHolds, PTL

\* A read-uncommitted operation's pin, published without the lock, holds against
\* every sweep but the one that was walking the table at that time, and against
\* that one from where it had got to.
THEOREM UncommittedPinsHold == Spec => []UncommittedPinHolds
<1>1. TableInv => UncommittedPinHolds
  BY DEF TableInv, LocalInv, PinInv, UncommittedPinHolds
<1> QED BY <1>1, TableInvHolds, PTL
====
