----------------------------- MODULE Timestamp -----------------------------
(* Global and per-transaction timestamps: txn/txn_timestamp.c, with what commit,    *)
(* release and a checkpoint's start do to them (txn/txn.c, txn/txn_ckpt.c).         *)
(*                                                                                  *)
(* Sessions write (with or without preparing), read at a timestamp, take            *)
(* checkpoints, move the global timestamps and ask which history may be dropped.    *)
(* Timestamp 0 is WT_TS_NONE; the has_..._timestamp flags say that a value is not   *)
(* 0. A snapshot is the set of ids it shows; that taking one is not atomic is the   *)
(* subject of TxnGlobal. The table's lock is held for writing only within one step, *)
(* and for reading by the sessions that walk the table.                             *)
EXTENDS Integers, FiniteSetsExt

CONSTANTS
    N,          \* slots of the table, conn->session_cnt
    Writers,    \* sessions that run transactions with a commit timestamp
    Preparing,  \* writers that also prepare them
    Readers,    \* sessions that read at a timestamp
    Setters,    \* threads that query all_durable and set the global timestamps
    Asking,     \* sessions that ask which history everybody is past
    Checkpointers,  \* the session that takes checkpoints, one at a time
    Start,      \* the global timestamps at the start, 0: never set
    MaxTs,      \* bound on timestamps
    MaxId       \* bound on transaction ids

Sessions == 1..N

ASSUME RolesAssumption ==
    /\ N \in Nat
    /\ Writers \cup Readers \cup Setters \cup Asking \cup Checkpointers \subseteq Sessions
    /\ Preparing \subseteq Writers
    /\ \A s, t \in Checkpointers : s = t
ASSUME StartAssumption == Start \in Nat /\ MaxTs \in Nat /\ MaxId \in Nat

VARIABLES
    oldest, stable, durable,    \* txn_global->..._timestamp
    pinned,             \* txn_global->pinned_timestamp
    oldest_is_pinned,
    ckpt_ts,            \* txn_global->checkpoint_timestamp
    read_ts,            \* txn_shared->read_timestamp, by session
    pinned_durable,     \* txn_shared->pinned_durable_timestamp
    table,              \* txn_shared->id, 0 if the session is not in the table
    current,            \* next transaction id
    commit_gen,         \* the commit generation of the connection
    txn,                \* session->txn
    pc, my,             \* where each session is, and its locals
    given,              \* history: durable timestamps the application gave, by id
    over,               \* history: ids of transactions that committed or rolled back
    answer,             \* history: largest all_durable the application was told
    claimed             \* history: largest result of __wt_txn_pinned_timestamp

global == <<oldest, stable, durable, pinned, oldest_is_pinned, ckpt_ts>>
shared == <<read_ts, pinned_durable, table, current, commit_gen>>
history == <<given, over, answer, claimed>>
vars == <<global, shared, txn, pc, my, history>>

NONE == 0    \* WT_TS_NONE, WT_TXN_NONE

NoTxn == [state |-> "none", id |-> NONE, durable |-> NONE, commit |-> FALSE,
          gen |-> 0, seen |-> {}]
NoLocals == [slot |-> 0, ts |-> NONE, oldest |-> NONE, stable |-> NONE]

Init ==
    /\ oldest = Start /\ stable = Start /\ durable = Start
    /\ pinned = Start /\ oldest_is_pinned = (Start # NONE)
    /\ ckpt_ts = NONE
    /\ read_ts = [s \in Sessions |-> NONE]
    /\ pinned_durable = [s \in Sessions |-> NONE]
    /\ table = [s \in Sessions |-> NONE]
    /\ current = 1
    /\ commit_gen = 1
    /\ txn = [s \in Sessions |-> NoTxn]
    /\ pc = [s \in Sessions |-> "idle"]
    /\ my = [s \in Sessions |-> NoLocals]
    /\ given = [i \in 1..MaxId |-> NONE]
    /\ over = {}
    /\ answer = Start
    /\ claimed = NONE

Goto(s, label) == pc' = [pc EXCEPT ![s] = label]

\* Nobody holds the table's lock for reading.
Unlocked == \A s \in Sessions : pc[s] \notin {"query", "scan"}

----------------------------------------------------------------------------
(* Snapshots *)

\* What a new snapshot shows: all transactions that left the table.
Visible == (1 .. current - 1) \ {table[s] : s \in Sessions}

\* __txn_get_snapshot_int: nothing to do if nobody committed since the last one.
Snapshot(t) ==
    IF t.state # "none" /\ t.gen = commit_gen
    THEN t ELSE [t EXCEPT !.gen = commit_gen, !.seen = Visible]

----------------------------------------------------------------------------
(* Writers *)

Begin(s) ==
    /\ pc[s] = "idle" /\ s \in Writers /\ txn[s].state = "none"
    /\ current <= MaxId
    /\ txn' = [txn EXCEPT ![s] = [NoTxn EXCEPT !.state = "running", !.id = current]]
    /\ table' = [table EXCEPT ![s] = current]
    /\ current' = current + 1
    /\ UNCHANGED <<global, read_ts, pinned_durable, commit_gen, pc, my, history>>

\* The application gives timestamps in increasing order, and the next one only when
\* the one before is published (or its transaction failed).
NextTs == 1 + Max({Start} \cup {given[i] : i \in 1..MaxId})
InOrder == NextTs <= MaxTs /\ \A s \in Sessions : pc[s] # "publish"

\* __wt_txn_set_commit_timestamp, or the durable timestamp of a prepared transaction
\* as it commits: compared with the global timestamps without a lock.
SetTimestamp(s, state) ==
    /\ pc[s] = "idle" /\ txn[s].state = state /\ ~txn[s].commit
    /\ InOrder
    /\ NextTs >= oldest /\ NextTs > stable
    /\ txn' = [txn EXCEPT ![s].durable = NextTs, ![s].commit = TRUE]
    /\ given' = [given EXCEPT ![txn[s].id] = NextTs]
    /\ Goto(s, "publish")
    /\ UNCHANGED <<global, shared, my, over, answer, claimed>>

SetCommitTimestamp(s) == SetTimestamp(s, "running")
CommitPrepared(s) == SetTimestamp(s, "prepared")

\* __wt_txn_publish_durable_timestamp. A prepared transaction then resolves its updates.
PublishTimestamp(s) ==
    /\ pc[s] = "publish"
    /\ pinned_durable' = [pinned_durable EXCEPT ![s] = txn[s].durable]
    /\ Goto(s, IF txn[s].state = "prepared" THEN "resolve" ELSE "idle")
    /\ UNCHANGED <<global, read_ts, table, current, commit_gen, txn, my, history>>

\* __wt_txn_prepare: the transaction leaves the table before its outcome is known.
Prepare(s) ==
    /\ pc[s] = "idle" /\ s \in Preparing
    /\ txn[s].state = "running" /\ ~txn[s].commit
    /\ txn' = [txn EXCEPT ![s].state = "prepared"]
    /\ table' = [table EXCEPT ![s] = NONE]
    /\ UNCHANGED <<global, read_ts, pinned_durable, current, commit_gen, pc, my, history>>

\* __wt_txn_commit. The timestamps are compared again; then the transaction leaves
\* the table, which makes its updates visible.
Commit(s) ==
    /\ pc[s] = "idle" /\ txn[s].state = "running" /\ txn[s].commit
    /\ txn[s].durable >= oldest /\ txn[s].durable > stable
    /\ table' = [table EXCEPT ![s] = NONE]
    /\ over' = over \cup {txn[s].id}
    /\ Goto(s, "clear")
    /\ UNCHANGED <<global, read_ts, pinned_durable, current, commit_gen, txn, my,
                   given, answer, claimed>>

\* A prepared transaction's updates get their timestamps.
Resolve(s) ==
    /\ pc[s] = "resolve"
    /\ over' = over \cup {txn[s].id}
    /\ Goto(s, "clear")
    /\ UNCHANGED <<global, shared, txn, my, given, answer, claimed>>

\* __wt_txn_rollback, up to the release of the id.
Rollback(s) ==
    /\ pc[s] = "idle" /\ txn[s].state \in {"running", "prepared"} /\ s \in Writers
    /\ table' = [table EXCEPT ![s] = NONE]
    /\ over' = over \cup {txn[s].id}
    /\ Goto(s, "undo")
    /\ UNCHANGED <<global, read_ts, pinned_durable, current, commit_gen, txn, my,
                   given, answer, claimed>>

\* __wt_txn_release: the durable timestamp goes after the id.
ClearDurable(s) ==
    /\ pc[s] \in {"clear", "undo"}
    /\ pinned_durable' = [pinned_durable EXCEPT ![s] = NONE]
    /\ IF pc[s] = "clear"
       THEN Goto(s, "gen_next") /\ UNCHANGED txn
       ELSE Goto(s, "idle") /\ txn' = [txn EXCEPT ![s] = NoTxn]
    /\ UNCHANGED <<global, read_ts, table, current, commit_gen, my, history>>

GenNext(s) ==
    /\ pc[s] = "gen_next"
    /\ commit_gen' = commit_gen + 1
    /\ Goto(s, "durable")
    /\ UNCHANGED <<global, read_ts, pinned_durable, table, current, txn, my, history>>

\* The loop that moves the global durable timestamp forward.
MoveDurable(s) ==
    /\ pc[s] = "durable"
    /\ durable' = Max({durable, txn[s].durable})
    /\ Goto(s, IF txn[s].state = "prepared" THEN "verify" ELSE "idle")
    /\ txn' = IF txn[s].state = "prepared" THEN txn ELSE [txn EXCEPT ![s] = NoTxn]
    /\ UNCHANGED <<oldest, stable, pinned, oldest_is_pinned, ckpt_ts, shared, my, history>>

\* At the end a prepared commit panics if the stable timestamp has reached it.
VerifyStable(s) ==
    /\ pc[s] = "verify"
    /\ Goto(s, IF txn[s].durable <= stable THEN "panic" ELSE "idle")
    /\ txn' = [txn EXCEPT ![s] = NoTxn]
    /\ UNCHANGED <<global, shared, my, history>>

----------------------------------------------------------------------------
(* Readers *)

\* __wt_txn_set_read_timestamp: checked, rounded and published under the lock.
ReadTimestamp(ts, round) == IF ts >= oldest THEN ts ELSE IF round THEN oldest ELSE NONE

\* __wt_txn_begin with a read timestamp: the timestamp, then the snapshot. Without one
\* (NONE) a read timestamp can still be set later.
BeginRead(s, ts, round) ==
    /\ pc[s] = "idle" /\ s \in Readers /\ txn[s].state = "none"
    /\ ts = NONE \/ ReadTimestamp(ts, round) # NONE
    /\ read_ts' = [read_ts EXCEPT ![s] = IF ts = NONE THEN NONE ELSE ReadTimestamp(ts, round)]
    /\ txn' = [txn EXCEPT ![s].state = IF ts = NONE THEN "reading" ELSE "reading_at"]
    /\ Goto(s, "snapshot")
    /\ UNCHANGED <<global, pinned_durable, table, current, commit_gen, my, history>>

SetReadTimestamp(s, ts, round) ==
    /\ pc[s] = "idle" /\ txn[s].state = "reading"
    /\ ts # NONE /\ ReadTimestamp(ts, round) # NONE
    /\ read_ts' = [read_ts EXCEPT ![s] = ReadTimestamp(ts, round)]
    /\ txn' = [txn EXCEPT ![s].state = "reading_at"]
    /\ Goto(s, "snapshot")
    /\ UNCHANGED <<global, pinned_durable, table, current, commit_gen, my, history>>

GetSnapshot(s) ==
    /\ pc[s] = "snapshot"
    /\ txn' = [txn EXCEPT ![s] = Snapshot(@)]
    /\ Goto(s, "idle")
    /\ UNCHANGED <<global, shared, my, history>>

\* __wt_txn_release of a reader.
EndRead(s) ==
    /\ pc[s] = "idle" /\ txn[s].state \in {"reading", "reading_at"}
    /\ read_ts' = [read_ts EXCEPT ![s] = NONE]
    /\ txn' = [txn EXCEPT ![s] = NoTxn]
    /\ UNCHANGED <<global, pinned_durable, table, current, commit_gen, pc, my, history>>

----------------------------------------------------------------------------
(* Global timestamps *)

\* __txn_global_query_timestamp, all_durable: the global value, read before the lock is
\* taken, then the walk.
QueryAllDurable(s) ==
    /\ pc[s] = "idle" /\ s \in Setters
    /\ my' = [my EXCEPT ![s] = [NoLocals EXCEPT !.ts = durable, !.slot = 1]]
    /\ Goto(s, "query")
    /\ UNCHANGED <<global, shared, txn, history>>

\* Mutant: a transaction's own timestamp, not the one before it.
QueryWalkNotBefore(s) ==
    /\ pc[s] = "query" /\ my[s].slot <= N
    /\ LET ts == pinned_durable[my[s].slot]
       IN  my' = [my EXCEPT ![s].slot = @ + 1,
                            ![s].ts = IF ts # NONE /\ (@ = NONE \/ ts < @) THEN ts ELSE @]
    /\ UNCHANGED <<global, shared, txn, pc, history>>

\* Mutant: decremented although the slot has none, below zero.
QueryWalkUnguarded(s) ==
    /\ pc[s] = "query" /\ my[s].slot <= N
    /\ my' = [my EXCEPT ![s].slot = @ + 1,
                        ![s].ts = Min({@, pinned_durable[my[s].slot] - 1})]
    /\ UNCHANGED <<global, shared, txn, pc, history>>

\* One slot. The timestamp is decremented only if there is one to compare it with.
QueryWalk(s) ==
    /\ pc[s] = "query" /\ my[s].slot <= N
    /\ LET ts == pinned_durable[my[s].slot]
       IN  my' = [my EXCEPT ![s].slot = @ + 1,
                            ![s].ts = IF ts = NONE THEN @
                                      ELSE IF @ = NONE THEN ts
                                      ELSE Min({@, ts - 1})]
    /\ UNCHANGED <<global, shared, txn, pc, history>>

QueryEnd(s) ==
    /\ pc[s] = "query" /\ my[s].slot > N
    /\ answer' = Max({answer, my[s].ts})
    /\ my' = [my EXCEPT ![s] = NoLocals]
    /\ Goto(s, "idle")
    /\ UNCHANGED <<global, shared, txn, given, over, claimed>>

\* __wt_txn_global_set_timestamp, NONE for what is not set: what does not move forward
\* is ignored, the rest checked, under the lock for reading. The application moves
\* the stable timestamp only to where it knows everything to be durable.
SetGlobal(s, new_oldest, new_stable) ==
    LET o == IF oldest # NONE /\ new_oldest <= oldest THEN NONE ELSE new_oldest
        t == IF stable # NONE /\ new_stable <= stable THEN NONE ELSE new_stable
        check_oldest == IF o = NONE THEN oldest ELSE o
        check_stable == IF t = NONE THEN stable ELSE t
    IN  /\ pc[s] = "idle" /\ s \in Setters
        /\ new_stable <= answer
        /\ o # NONE \/ t # NONE
        /\ check_oldest = NONE \/ check_stable = NONE \/ check_oldest <= check_stable
        /\ my' = [my EXCEPT ![s] = [NoLocals EXCEPT !.oldest = o, !.stable = t]]
        /\ Goto(s, "set")
        /\ UNCHANGED <<global, shared, txn, history>>

\* Mutant: not compared again under the lock.
StoreGlobalBlindly(s) ==
    /\ pc[s] = "set" /\ Unlocked
    /\ oldest' = IF my[s].oldest # NONE THEN my[s].oldest ELSE oldest
    /\ stable' = IF my[s].stable # NONE THEN my[s].stable ELSE stable
    /\ oldest_is_pinned' = (oldest_is_pinned /\ oldest' = oldest)
    /\ my' = [my EXCEPT ![s] = NoLocals]
    /\ Goto(s, "update_pinned")
    /\ UNCHANGED <<durable, pinned, ckpt_ts, shared, txn, history>>

\* They are compared again and set under the lock for writing; the pinned timestamp
\* is updated afterwards.
StoreGlobal(s) ==
    /\ pc[s] = "set" /\ Unlocked
    /\ oldest' = Max({oldest, my[s].oldest})
    /\ stable' = Max({stable, my[s].stable})
    /\ oldest_is_pinned' = (oldest_is_pinned /\ oldest' = oldest)
    /\ my' = [my EXCEPT ![s] = NoLocals]
    /\ Goto(s, "update_pinned")
    /\ UNCHANGED <<durable, pinned, ckpt_ts, shared, txn, history>>

\* __wt_txn_update_pinned_timestamp: skipped, or a first walk under the lock for reading.
UpdatePinned(s) ==
    /\ pc[s] = "update_pinned"
    /\ IF oldest_is_pinned \/ oldest = NONE
       THEN Goto(s, "idle") /\ UNCHANGED my
       ELSE /\ my' = [my EXCEPT ![s] = [NoLocals EXCEPT !.ts = oldest, !.slot = 1]]
            /\ Goto(s, "scan")
    /\ UNCHANGED <<global, shared, txn, history>>

ScanReader(s) ==
    /\ pc[s] = "scan" /\ my[s].slot <= N
    /\ LET ts == read_ts[my[s].slot]
       IN  my' = [my EXCEPT ![s].slot = @ + 1,
                            ![s].ts = IF ts # NONE /\ ts < @ THEN ts ELSE @]
    /\ UNCHANGED <<global, shared, txn, pc, history>>

ScanEnd(s) ==
    /\ pc[s] = "scan" /\ my[s].slot > N
    /\ Goto(s, IF pinned # NONE /\ my[s].ts <= pinned THEN "idle" ELSE "pin")
    /\ my' = [my EXCEPT ![s] = IF pinned # NONE /\ my[s].ts <= pinned THEN NoLocals ELSE @]
    /\ UNCHANGED <<global, shared, txn, history>>

\* __wt_txn_get_pinned_timestamp with the lock held for writing.
PinnedNow == Min({oldest} \cup {read_ts[s] : s \in {t \in Sessions : read_ts[t] # NONE}})

\* The walk again, and the update, under the lock for writing.
Pin(s) ==
    /\ pc[s] = "pin" /\ Unlocked
    /\ pinned' = Max({pinned, PinnedNow})
    /\ oldest_is_pinned' = IF pinned < PinnedNow THEN PinnedNow = oldest ELSE oldest_is_pinned
    /\ my' = [my EXCEPT ![s] = NoLocals]
    /\ Goto(s, "idle")
    /\ UNCHANGED <<oldest, stable, durable, ckpt_ts, shared, txn, history>>

----------------------------------------------------------------------------
(* Visibility to all, and checkpoints *)

\* __wt_txn_pinned_timestamp: the pinned timestamp, then the checkpoint's.
AskPinned(s) ==
    /\ pc[s] = "idle" /\ s \in Asking /\ pinned # NONE
    /\ my' = [my EXCEPT ![s] = [NoLocals EXCEPT !.ts = pinned]]
    /\ Goto(s, "ask")
    /\ UNCHANGED <<global, shared, txn, history>>

\* Mutant: a checkpoint's timestamp does not count.
AskNoCheckpoint(s) ==
    /\ pc[s] = "ask"
    /\ claimed' = Max({claimed, my[s].ts})
    /\ my' = [my EXCEPT ![s] = NoLocals]
    /\ Goto(s, "idle")
    /\ UNCHANGED <<global, shared, txn, given, over, answer>>

AskCheckpoint(s) ==
    /\ pc[s] = "ask"
    /\ claimed' = Max({claimed, IF ckpt_ts = NONE THEN my[s].ts ELSE Min({my[s].ts, ckpt_ts})})
    /\ my' = [my EXCEPT ![s] = NoLocals]
    /\ Goto(s, "idle")
    /\ UNCHANGED <<global, shared, txn, given, over, answer>>

\* __checkpoint_prepare: a transaction with its snapshot...
CkptBegin(s) ==
    /\ pc[s] = "idle" /\ s \in Checkpointers /\ txn[s].state = "none"
    /\ txn' = [txn EXCEPT ![s] = [Snapshot(NoTxn) EXCEPT !.state = "checkpoint"]]
    /\ Goto(s, "ckpt_share")
    /\ UNCHANGED <<global, shared, my, history>>

\* ... the stable timestamp, under the lock for writing...
CkptShare(s) ==
    /\ pc[s] = "ckpt_share" /\ Unlocked
    /\ ckpt_ts' = stable
    /\ Goto(s, "ckpt_bump")
    /\ UNCHANGED <<oldest, stable, durable, pinned, oldest_is_pinned, shared, txn, my, history>>

\* ... and the snapshot refreshed.
CkptBump(s) ==
    /\ pc[s] = "ckpt_bump"
    /\ txn' = [txn EXCEPT ![s] = Snapshot(@)]
    /\ Goto(s, "ckpt_write")
    /\ UNCHANGED <<global, shared, my, history>>

\* The trees are written: the snapshot and the timestamp are released.
CkptRelease(s) ==
    /\ pc[s] = "ckpt_write"
    /\ ckpt_ts' = NONE
    /\ txn' = [txn EXCEPT ![s] = NoTxn]
    /\ Goto(s, "idle")
    /\ UNCHANGED <<oldest, stable, durable, pinned, oldest_is_pinned, shared, my, history>>

----------------------------------------------------------------------------

Writing(s) ==
    \/ Begin(s) \/ SetCommitTimestamp(s) \/ CommitPrepared(s) \/ PublishTimestamp(s)
    \/ Prepare(s) \/ Commit(s) \/ Resolve(s) \/ Rollback(s)
    \/ ClearDurable(s) \/ GenNext(s) \/ MoveDurable(s) \/ VerifyStable(s)

Reading(s) ==
    \/ \E ts \in 0..MaxTs, round \in BOOLEAN :
          BeginRead(s, ts, round) \/ SetReadTimestamp(s, ts, round)
    \/ GetSnapshot(s) \/ EndRead(s)

Setting(s) ==
    \/ QueryAllDurable(s) \/ QueryWalk(s) \/ QueryEnd(s)
    \/ \E o, t \in 0..MaxTs : SetGlobal(s, o, t)
    \/ StoreGlobal(s) \/ UpdatePinned(s) \/ ScanReader(s) \/ ScanEnd(s) \/ Pin(s)

Checkpointing(s) ==
    \/ AskPinned(s) \/ AskCheckpoint(s)
    \/ CkptBegin(s) \/ CkptShare(s) \/ CkptBump(s) \/ CkptRelease(s)

Next == \E s \in Sessions : Writing(s) \/ Reading(s) \/ Setting(s) \/ Checkpointing(s)

Spec == Init /\ [][Next]_vars

----------------------------------------------------------------------------
(* Properties *)

\* Every variable keeps its type.
TypeOK ==
    /\ {oldest, stable, durable, pinned, ckpt_ts, answer, claimed} \subseteq Nat
    /\ oldest_is_pinned \in BOOLEAN
    /\ read_ts \in [Sessions -> Nat] /\ pinned_durable \in [Sessions -> Nat]
    /\ table \in [Sessions -> Nat]
    /\ current \in Nat /\ commit_gen \in Nat
    /\ txn \in [Sessions ->
         [state : {"none", "running", "prepared", "reading", "reading_at", "checkpoint"},
          id : Nat, durable : Nat, commit : BOOLEAN, gen : Nat, seen : SUBSET Nat]]
    /\ my \in [Sessions -> [slot : Nat, ts : Nat, oldest : Nat, stable : Nat]]
    /\ given \in [1..MaxId -> Nat] /\ over \in SUBSET (1..MaxId)

\* "The oldest and stable timestamps must always satisfy the condition that
\* oldest <= stable" (txn_timestamp.c:410), although the check and the update are made
\* under separate locks; and the pinned timestamp is not after the oldest one.
OldestNotAfterStable ==
    /\ oldest # NONE /\ stable # NONE => oldest <= stable
    /\ pinned <= oldest

\* History that a session was told everybody is past is needed by no reader and by no
\* running checkpoint, however reads and checkpoints start while the pinned timestamp
\* moves (the assertion in __wt_txn_clear_read_timestamp is a part of this).
HistoryKept ==
    /\ \A s \in Sessions : read_ts[s] # NONE => claimed <= read_ts[s] /\ pinned <= read_ts[s]
    /\ ckpt_ts # NONE => claimed <= ckpt_ts

\* all_durable is "the largest timestamp such that all timestamps up to and including
\* that value have been committed" (wiredtiger.in:2577): a transaction whose
\* timestamp it includes has ended.
AllDurableEnded == \A i \in 1..MaxId : given[i] # NONE /\ given[i] <= answer => i \in over

\* What is not after a checkpoint's timestamp is in the checkpoint: the snapshot is
\* refreshed so that it does not miss updates if the stable timestamp moves after the
\* checkpoint began (txn_ckpt.c:821).
CheckpointHoldsStable ==
    \A s \in Checkpointers : pc[s] = "ckpt_write" =>
       \A i \in 1..MaxId : given[i] # NONE /\ given[i] <= ckpt_ts => i \in txn[s].seen
=============================================================================
