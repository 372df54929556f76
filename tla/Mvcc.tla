------------------------------- MODULE Mvcc -------------------------------
(* The update chains of a page's keys: include/txn_inline.h (visibility, reading,   *)
(* conflicts), btree/row_modify.c and include/serial_inline.h (writing, truncating  *)
(* a chain) and what commit, prepare and rollback do to updates (txn/txn.c).        *)
(*                                                                                  *)
(* Sessions read and write the keys in transactions at snapshot isolation, some     *)
(* with a read timestamp, and commit with a timestamp, prepare or roll back. Every  *)
(* key has a value on the page, older than all updates, written 0 below. A snapshot *)
(* is taken in one step (TxnGlobal has the steps), and the oldest id and the pinned *)
(* timestamp move to where the sessions allow it (TxnGlobal and Timestamp).         *)
EXTENDS Integers, Sequences, FiniteSetsExt

CONSTANTS
    Sessions,
    Keys,
    Readers,    \* sessions that read, with a read timestamp or without
    Setting,    \* sessions that write full values
    Modifying,  \* sessions that write modifications of a value
    Reserving,  \* sessions that reserve keys
    Preparing,  \* sessions that prepare
    MaxId,      \* bound on transaction ids
    MaxUpd,     \* bound on updates
    MaxTs,      \* bound on timestamps
    MaxRead     \* bound on the read and pinned timestamps

ASSUME MvccAssumption ==
    /\ Readers \cup Setting \cup Modifying \cup Reserving \cup Preparing \subseteq Sessions
    /\ MaxId \in Nat /\ MaxUpd \in Nat /\ MaxTs \in Nat /\ MaxRead \in Nat

VARIABLES
    upd,        \* all updates ever linked, oldest first: the index is the address
    chain,      \* the update chain of each key, newest first
    running,    \* ids in the transaction table
    current,    \* next transaction id
    pinned_ts,  \* txn_global->pinned_timestamp
    txn,        \* session->txn
    pc, my      \* where each session is, and its locals

vars == <<upd, chain, running, current, pinned_ts, txn, pc, my>>
pages == <<upd, chain>>
global == <<running, current, pinned_ts>>

NONE == 0       \* WT_TXN_NONE, WT_TS_NONE, and no update: the value on the page
ABORTED == -1   \* WT_TXN_ABORTED

NoTxn == [state |-> "none", id |-> NONE, seen |-> {}, read |-> NONE, prepare |-> NONE,
          commit |-> NONE]
NoLocals == [op |-> "none", key |-> NONE, at |-> NONE, old |-> NONE, state |-> "init",
             vis |-> FALSE, first |-> NONE]

Init ==
    /\ upd = <<>>
    /\ chain = [k \in Keys |-> <<>>]
    /\ running = {}
    /\ current = 1
    /\ pinned_ts = NONE
    /\ txn = [s \in Sessions |-> NoTxn]
    /\ pc = [s \in Sessions |-> "idle"]
    /\ my = [s \in Sessions |-> NoLocals]

Goto(s, label) == pc' = [pc EXCEPT ![s] = label]

Head1(k) == IF chain[k] = <<>> THEN NONE ELSE Head(chain[k])

\* Where an update is in its chain, and what follows it: upd->next.
Position(k, u) == CHOOSE i \in DOMAIN chain[k] : chain[k][i] = u
After(k, u) == IF Position(k, u) = Len(chain[k]) THEN NONE ELSE chain[k][Position(k, u) + 1]

Linked(k) == {chain[k][i] : i \in DOMAIN chain[k]}

\* An aborted update, or a freed one: nothing else in it is used again.
Aborted(u) == [u EXCEPT !.txn = ABORTED, !.kind = "standard", !.start = NONE, !.durable = NONE,
                        !.prepare = "init"]

\* The updates of a session's transaction.
Mine(s) == {u \in DOMAIN upd : txn[s].id # NONE /\ upd[u].txn = txn[s].id}

----------------------------------------------------------------------------
(* Transactions: snapshot, oldest id and pinned timestamp *)

Active(s) == txn[s].state = "running"

\* The smallest id a snapshot does not show.
SnapMin(s) == Min((1..current) \ txn[s].seen)

\* A transaction with its snapshot, and perhaps a read timestamp.
Begin(s, ts) ==
    /\ pc[s] = "idle" /\ txn[s].state = "none"
    /\ ts = NONE \/ (s \in Readers /\ ts >= pinned_ts)
    /\ txn' = [txn EXCEPT ![s] = [NoTxn EXCEPT !.state = "running", !.read = ts,
                                               !.seen = (1 .. current - 1) \ running]]
    /\ UNCHANGED <<pages, global, pc, my>>

\* The oldest id, as far forward as it can have been moved.
OldestId == Min({current} \cup running \cup {SnapMin(s) : s \in {t \in Sessions : Active(t)}})

UpdatePinned(ts) ==
    /\ ts > pinned_ts
    /\ \A s \in Sessions : txn[s].read # NONE => ts <= txn[s].read
    /\ pinned_ts' = ts
    /\ UNCHANGED <<pages, running, current, txn, pc, my>>

----------------------------------------------------------------------------
(* Visibility *)

\* __wt_txn_visible.
Visible(s, u) ==
    \/ upd[u].txn = txn[s].id /\ txn[s].id # NONE
    \/ /\ upd[u].txn \in txn[s].seen
       /\ txn[s].read = NONE \/ upd[u].start = NONE \/ upd[u].start <= txn[s].read

\* The walk of a session goes on with update u, or what follows the walk if there is
\* none: a read returns the value on the page, a write has met no conflict.
WalkTo(s, u) ==
    /\ my' = [my EXCEPT ![s] = [NoLocals EXCEPT !.op = my[s].op, !.key = my[s].key,
                                                !.old = my[s].old, !.at = u]]
    /\ Goto(s, IF u # NONE THEN "state" ELSE IF my[s].op = "read" THEN "done" ELSE "modify")

\* __wt_txn_upd_visible_type: the prepare state, which is waited for while it is locked.
\* A read skips reserved updates.
PrepareState(s) ==
    /\ pc[s] = "state" /\ upd[my[s].at].prepare # "locked"
    /\ IF my[s].op = "read" /\ upd[my[s].at].kind = "reserve"
       THEN WalkTo(s, After(my[s].key, my[s].at))
       ELSE /\ my' = [my EXCEPT ![s].state = upd[my[s].at].prepare]
            /\ Goto(s, "visible")
    /\ UNCHANGED <<pages, global, txn>>

CheckVisible(s) ==
    /\ pc[s] = "visible"
    /\ my' = [my EXCEPT ![s].vis = Visible(s, my[s].at)]
    /\ Goto(s, "recheck")
    /\ UNCHANGED <<pages, global, txn>>

\* __wt_txn_read_upd_list_internal: the first visible update, which ends the walk, or a
\* conflict with a prepared one.
ReadNext(s, visible, prepared) ==
    IF ~visible THEN WalkTo(s, After(my[s].key, my[s].at)) /\ UNCHANGED txn
    ELSE /\ my' = [my EXCEPT ![s] = IF prepared THEN NoLocals
                                    ELSE [NoLocals EXCEPT !.op = "read", !.key = my[s].key,
                                                          !.at = my[s].at, !.old = my[s].at]]
         /\ Goto(s, IF prepared THEN "idle"
                    ELSE IF upd[my[s].at].kind = "modify" THEN "base" ELSE "done")
         /\ UNCHANGED txn

\* __wt_txn_modify_block: an update that is not visible and not aborted is a conflict,
\* and the transaction must roll back.
ModifyNext(s, visible, prepared) ==
    IF visible /\ ~prepared THEN WalkTo(s, NONE) /\ UNCHANGED txn
    ELSE IF upd[my[s].at].txn = ABORTED
    THEN WalkTo(s, After(my[s].key, my[s].at)) /\ UNCHANGED txn
    ELSE /\ txn' = [txn EXCEPT ![s].state = "error"]
         /\ my' = [my EXCEPT ![s] = NoLocals]
         /\ Goto(s, "idle")

Decide(s, prepared) ==
    IF my[s].op = "read" THEN ReadNext(s, my[s].vis, prepared) ELSE ModifyNext(s, my[s].vis, prepared)

\* Mutant: the state that is read last counts.
RecheckBlindly(s) ==
    /\ pc[s] = "recheck"
    /\ Decide(s, upd[my[s].at].prepare = "inprogress")
    /\ UNCHANGED <<pages, global>>

\* "The visibility check is only valid if the update does not change state."
Recheck(s) ==
    /\ pc[s] = "recheck"
    /\ IF upd[my[s].at].prepare # my[s].state THEN WalkTo(s, my[s].at) /\ UNCHANGED txn
       ELSE Decide(s, my[s].state = "inprogress")
    /\ UNCHANGED <<pages, global>>

----------------------------------------------------------------------------
(* Reading *)

ReadStart(s, k) ==
    /\ pc[s] = "idle" /\ Active(s) /\ s \in Readers
    /\ my' = [my EXCEPT ![s] = [NoLocals EXCEPT !.op = "read", !.key = k, !.at = Head1(k)]]
    /\ Goto(s, IF chain[k] = <<>> THEN "done" ELSE "state")
    /\ UNCHANGED <<pages, global, txn>>

\* __wt_modify_reconstruct_from_upd_list: from a modify down to a full value, or to the
\* end of the chain and the value on the page. The update that is returned is in old,
\* its base in at.
FindBase(s) ==
    /\ pc[s] = "base"
    /\ LET next == After(my[s].key, my[s].at)
       IN  /\ my' = [my EXCEPT ![s].at = next]
           /\ Goto(s, IF next = NONE \/ (upd[next].txn # ABORTED /\ upd[next].kind = "standard")
                      THEN "done" ELSE "base")
    /\ UNCHANGED <<pages, global, txn>>

ReadDone(s) ==
    /\ pc[s] = "done"
    /\ my' = [my EXCEPT ![s] = NoLocals]
    /\ Goto(s, "idle")
    /\ UNCHANGED <<pages, global, txn>>

----------------------------------------------------------------------------
(* Writing *)

KindsOf(s) ==
    {kind \in {"standard", "modify", "reserve"} :
       s \in CASE kind = "standard" -> Setting [] kind = "modify" -> Modifying
              [] kind = "reserve" -> Reserving}

\* __wt_row_modify: the head of the chain, and the check for conflicts from there. What is
\* written makes no difference before it is linked.
WriteStart(s, k) ==
    /\ pc[s] = "idle" /\ Active(s) /\ KindsOf(s) # {}
    /\ Len(upd) < MaxUpd /\ (txn[s].id # NONE \/ current <= MaxId)
    /\ my' = [my EXCEPT ![s] = [NoLocals EXCEPT !.op = "write", !.key = k,
                                                !.at = Head1(k), !.old = Head1(k)]]
    /\ Goto(s, IF chain[k] = <<>> THEN "modify" ELSE "state")
    /\ UNCHANGED <<pages, global, txn>>

\* __wt_txn_modify: the transaction gets its id.
Modify(s) ==
    /\ pc[s] = "modify"
    /\ IF txn[s].id # NONE THEN UNCHANGED <<txn, running, current>>
       ELSE /\ current <= MaxId
            /\ txn' = [txn EXCEPT ![s].id = current]
            /\ running' = running \cup {current}
            /\ current' = current + 1
    /\ Goto(s, "serial")
    /\ UNCHANGED <<pages, pinned_ts, my>>

\* Mutant: the update is linked before its transaction is set.
NewUpdateNoTxn(s, kind) ==
    [txn |-> NONE, key |-> my[s].key, kind |-> kind, start |-> NONE, durable |-> NONE,
     prepare |-> "init"]

NewUpdate(s, kind) ==
    [txn |-> txn[s].id, key |-> my[s].key, kind |-> kind, start |-> NONE, durable |-> NONE,
     prepare |-> "init"]

\* The update is linked. The chain is then looked through, unless nothing is below the
\* update or the page is locked by a session that works on another key or writes it.
Link(s) ==
    /\ Len(upd) < MaxUpd
    /\ \E kind \in KindsOf(s) : upd' = Append(upd, NewUpdate(s, kind))
    /\ chain' = [chain EXCEPT ![my[s].key] = <<Len(upd) + 1>> \o @]
    /\ \/ /\ my' = [my EXCEPT ![s] = NoLocals]
          /\ Goto(s, "idle")
       \/ /\ chain[my[s].key] # <<>>
          /\ my' = [my EXCEPT ![s] = [NoLocals EXCEPT !.key = my[s].key, !.at = Head1(my[s].key)]]
          /\ Goto(s, "scan")

\* Mutant: the update goes to the head of the chain, whatever came there.
SerialUnchecked(s) ==
    /\ pc[s] = "serial" /\ Link(s)
    /\ UNCHANGED <<global, txn>>

\* __wt_update_serial: swapped in if the head is still the one that was checked.
Serial(s) ==
    /\ pc[s] = "serial"
    /\ IF Head1(my[s].key) = my[s].old THEN Link(s)
       ELSE /\ my' = [my EXCEPT ![s].old = Head1(my[s].key), ![s].at = Head1(my[s].key)]
            /\ Goto(s, "state")
            /\ UNCHANGED <<upd, chain>>
    /\ UNCHANGED <<global, txn>>

\* __wt_txn_upd_visible_all.
VisibleAll(u) ==
    /\ upd[u].prepare \notin {"locked", "inprogress"}
    /\ upd[u].txn < OldestId
    /\ upd[u].durable = NONE \/ upd[u].durable <= pinned_ts

\* Mutant: a modify may end a chain.
FirstOfAnyKind(s) ==
    LET u == my[s].at
    IN  IF ~VisibleAll(u) THEN NONE ELSE IF my[s].first = NONE THEN u ELSE my[s].first

\* "Only updates with globally visible, self-contained data can terminate update chains."
First(s) ==
    LET u == my[s].at
    IN  IF ~VisibleAll(u) THEN NONE
        ELSE IF my[s].first = NONE /\ upd[u].kind = "standard" THEN u ELSE my[s].first

\* __wt_update_obsolete_check, one update: aborted ones are skipped.
Scan(s) ==
    /\ pc[s] = "scan" /\ my[s].at # NONE
    /\ my' = [my EXCEPT ![s].at = After(my[s].key, my[s].at),
                        ![s].first = IF upd[my[s].at].txn = ABORTED THEN @ ELSE First(s)]
    /\ UNCHANGED <<pages, global, txn, pc>>

\* The chain is cut after the first such update, and what was behind it is freed.
Truncate(s) ==
    /\ pc[s] = "scan" /\ my[s].at = NONE
    /\ chain' = IF my[s].first = NONE THEN chain
                ELSE [chain EXCEPT ![my[s].key] = SubSeq(@, 1, Position(my[s].key, my[s].first))]
    /\ upd' = [u \in DOMAIN upd |->
                 IF upd[u].key = my[s].key /\ u < my[s].first THEN Aborted(upd[u]) ELSE upd[u]]
    /\ my' = [my EXCEPT ![s] = NoLocals]
    /\ Goto(s, "idle")
    /\ UNCHANGED <<global, txn>>

----------------------------------------------------------------------------
(* Commit, prepare, rollback *)

\* The application gives each key's updates timestamps in order; the library refuses
\* timestamps that are not after the oldest one.
InOrder(s, ts) ==
    /\ ts > pinned_ts
    /\ \A u \in Mine(s), v \in DOMAIN upd : upd[v].key = upd[u].key => upd[v].durable <= ts

\* __wt_txn_op_set_timestamp for every operation; reserved updates are aborted.
Stamp(s, start, durable, prepare) ==
    upd' = [u \in DOMAIN upd |->
              IF u \notin Mine(s) THEN upd[u]
              ELSE IF upd[u].kind = "reserve" THEN Aborted(upd[u])
              ELSE [upd[u] EXCEPT !.start = start, !.durable = durable, !.prepare = prepare]]

\* __wt_txn_commit of a transaction that is not prepared: the snapshot is given up first,
\* and nobody sees the updates before the id is.
Commit(s, ts) ==
    /\ pc[s] = "idle" /\ Active(s) /\ InOrder(s, ts)
    /\ Stamp(s, ts, ts, "init")
    /\ txn' = [txn EXCEPT ![s].state = "committing", ![s].seen = {}]
    /\ Goto(s, "release")
    /\ UNCHANGED <<chain, global, my>>

\* __wt_txn_release.
Release(s) ==
    /\ pc[s] = "release"
    /\ running' = running \ {txn[s].id}
    /\ txn' = [txn EXCEPT ![s] = NoTxn]
    /\ Goto(s, "idle")
    /\ UNCHANGED <<pages, current, pinned_ts, my>>

\* __wt_txn_prepare: the updates are marked...
Prepare(s, ts) ==
    /\ pc[s] = "idle" /\ Active(s) /\ s \in Preparing /\ ts > pinned_ts
    /\ Mine(s) # {}
    /\ Stamp(s, ts, NONE, "inprogress")
    /\ txn' = [txn EXCEPT ![s].prepare = ts]
    /\ Goto(s, "prepared")
    /\ UNCHANGED <<chain, global, my>>

\* ... and the snapshot and the id are given up.
PrepareEnd(s) ==
    /\ pc[s] = "prepared"
    /\ running' = running \ {txn[s].id}
    /\ txn' = [txn EXCEPT ![s].state = "prepared", ![s].seen = {}]
    /\ Goto(s, "idle")
    /\ UNCHANGED <<pages, current, pinned_ts, my>>

CommitPrepared(s, ts) ==
    /\ pc[s] = "idle" /\ txn[s].state = "prepared"
    /\ ts >= txn[s].prepare /\ InOrder(s, ts)
    /\ txn' = [txn EXCEPT ![s].commit = ts]
    /\ Goto(s, "resolve")
    /\ UNCHANGED <<pages, global, my>>

\* The next of a transaction's updates to resolve: of each key the oldest first.
ToResolve(updates) ==
    {u \in updates : \A v \in updates : upd[v].key = upd[u].key => u <= v}

\* __txn_resolve_prepared_update: locked...
ResolveLock(s) ==
    /\ pc[s] = "resolve"
    /\ \E u \in ToResolve({v \in Mine(s) : upd[v].prepare = "inprogress"}) :
          /\ upd' = [upd EXCEPT ![u].prepare = "locked"]
          /\ my' = [my EXCEPT ![s].at = u]
    /\ Goto(s, "stamp")
    /\ UNCHANGED <<chain, global, txn>>

\* ... stamped...
ResolveStamp(s) ==
    /\ pc[s] = "stamp"
    /\ upd' = [upd EXCEPT ![my[s].at].start = txn[s].commit, ![my[s].at].durable = txn[s].commit]
    /\ Goto(s, "unlock")
    /\ UNCHANGED <<chain, global, txn, my>>

\* ... and resolved.
ResolveEnd(s) ==
    /\ pc[s] = "unlock"
    /\ upd' = [upd EXCEPT ![my[s].at].prepare = "resolved"]
    /\ my' = [my EXCEPT ![s] = NoLocals]
    /\ Goto(s, IF \E u \in Mine(s) : upd[u].prepare = "inprogress" THEN "resolve" ELSE "release")
    /\ UNCHANGED <<chain, global, txn>>

\* __wt_txn_rollback: the updates are aborted one after the other, then released.
Rollback(s) ==
    /\ pc[s] = "idle" /\ txn[s].state \in {"running", "prepared", "error"}
    /\ Goto(s, IF Mine(s) = {} THEN "release" ELSE "abort")
    /\ UNCHANGED <<pages, global, txn, my>>

Abort(s) ==
    /\ pc[s] = "abort"
    /\ \E u \in ToResolve(Mine(s)) :
          /\ upd' = [upd EXCEPT ![u] = Aborted(@)]
          /\ Goto(s, IF Mine(s) = {u} THEN "release" ELSE "abort")
    /\ UNCHANGED <<chain, global, txn, my>>

----------------------------------------------------------------------------

Walking(s) ==
    \/ PrepareState(s) \/ CheckVisible(s) \/ Recheck(s)
    \/ \E k \in Keys : ReadStart(s, k)
    \/ FindBase(s) \/ ReadDone(s)

Writing(s) ==
    \/ \E k \in Keys : WriteStart(s, k)
    \/ Modify(s) \/ Serial(s)
    \/ Scan(s) \/ Truncate(s)

Ending(s) ==
    \/ \E ts \in 1..MaxTs : Commit(s, ts) \/ Prepare(s, ts) \/ CommitPrepared(s, ts)
    \/ Release(s) \/ PrepareEnd(s)
    \/ ResolveLock(s) \/ ResolveStamp(s) \/ ResolveEnd(s)
    \/ Rollback(s) \/ Abort(s)

Next ==
    \/ \E s \in Sessions : Walking(s) \/ Writing(s) \/ Ending(s) \/ \E ts \in 0..MaxRead : Begin(s, ts)
    \/ \E ts \in 1..MaxRead : UpdatePinned(ts)

Spec == Init /\ [][Next]_vars

----------------------------------------------------------------------------
(* Properties *)

Labels == {"idle", "state", "visible", "recheck", "base", "done", "modify", "serial",
           "scan", "release", "prepared", "resolve", "stamp",
           "unlock", "abort"}

\* Every variable keeps its type; a session without a place in a chain is at none.
TypeOK ==
    /\ \A u \in DOMAIN upd : upd[u] \in
         [txn : (1..MaxId) \cup {ABORTED}, key : Keys, kind : {"standard", "modify", "reserve"}, start : Nat, durable : Nat,
          prepare : {"init", "inprogress", "locked", "resolved"}]
    /\ \A k \in Keys : chain[k] \in Seq(DOMAIN upd)
    /\ running \subseteq 1..MaxId /\ current \in Nat
    /\ pinned_ts \in Nat
    /\ pc \in [Sessions -> Labels]
    /\ \A s \in Sessions : my[s].at \in DOMAIN upd \cup {NONE}

\* The version of a key a transaction reads by its snapshot and its read timestamp, if
\* no prepared one is in its way: a transaction's own last update, or the last update
\* that is committed for it. NONE is the value on the page.
Expected(s, k) ==
    LET versions == {u \in DOMAIN upd : /\ upd[u].key = k /\ upd[u].kind # "reserve"
                                        /\ upd[u].prepare \in {"init", "resolved"}
                                        /\ Visible(s, u)}
    IN  Max(versions \cup {NONE})

\* The full value below version u: itself, an older one, or the one on the page.
Base(k, u) ==
    IF u = NONE THEN NONE
    ELSE Max({NONE} \cup {v \in 1..u : upd[v].key = k /\ upd[v].txn # ABORTED
                                       /\ upd[v].kind = "standard"})

\* A read that returns a value returns the one its snapshot and timestamp call for, built
\* on the right base, although prepared transactions are resolved (txn_inline.h:905),
\* others write and roll back, and the chain is cut while it walks.
ReadsRight ==
    \A s \in Sessions : pc[s] = "done" =>
       LET u == IF my[s].old # NONE THEN my[s].old ELSE my[s].at
       IN  u = Expected(s, my[s].key) /\ my[s].at = Base(my[s].key, u)

\* First writer wins: an update is linked on top only of updates that its transaction sees,
\* of its own, or aborted ones, so no update is lost although the chain changes between the
\* check and the swap (txn_inline.h:1547, serial_inline.h:272).
NoLostUpdate ==
    [][\A s \in Sessions : upd' # upd /\ pc[s] = "serial" /\ pc'[s] # "serial" =>
          \A u \in DOMAIN upd : upd[u].key = my[s].key /\ upd[u].txn # ABORTED =>
             Visible(s, u) /\ upd[u].prepare \in {"init", "resolved"}]_vars

\* What a running transaction may come to read is still linked, with the value it is built
\* on, and nobody walks in updates that were freed (row_modify.c:435).
VersionsKept ==
    \A s \in Sessions :
       /\ pc[s] \in {"state", "visible", "recheck", "base", "scan"} /\ my[s].at # NONE
          => my[s].at \in Linked(my[s].key)
       /\ Active(s) => \A k \in Keys :
             LET u == Expected(s, k)
             IN  \A v \in DOMAIN upd : upd[v].key = k /\ Base(k, u) <= v => v \in Linked(k)
=============================================================================
