----------------------------- MODULE GenDrain -----------------------------
(***************************************************************************)
(* A checkpoint of a tree and the eviction of its dirty pages exclude each *)
(* other without a lock: __wt_sync_file raises btree->syncing and drains   *)
(* the eviction generation; __wt_evict enters the generation before it     *)
(* reviews the page, and gives up on a dirty page of a tree that another   *)
(* session is syncing (__wt_btree_syncing_by_other_session).               *)
(***************************************************************************)
EXTENDS Generation, FiniteSets

CONSTANTS Trees,     \* btrees; their flush_lock serialises their syncs
          Evictors,  \* sessions that evict
          Syncers    \* sessions that checkpoint trees

ASSUME DrainAssumption ==
    /\ Evictors \subseteq Sessions
    /\ Syncers \subseteq Sessions
    /\ Evictors \cap Syncers = {}

VARIABLES syncing,  \* btree->syncing: "off", "wait" or "running"
          syncer,   \* btree->sync_session, 0 when NULL
          evicting  \* the trees whose dirty pages a session is evicting

drainVars == <<syncing, syncer, evicting>>
vars == <<genVars, drainVars>>

Init ==
    /\ GenInit
    /\ syncing = [b \in Trees |-> "off"]
    /\ syncer = [b \in Trees |-> 0]
    /\ evicting = [s \in Sessions |-> {}]

---------------------------------------------------------------------------
\* Mutant: the barrier of the hazard-pointer check is not there.
ReviewNoBarrier(s, b) ==
    /\ pc[s] = "inside"
    /\ syncing[b] = "off" \/ syncer[b] = s
    /\ evicting' = [evicting EXCEPT ![s] = @ \cup {b}]
    /\ UNCHANGED <<genVars, syncing, syncer>>

\* __evict_review finds that the page may go (a dirty page of tree b).
\* __evict_exclusive has just checked the hazard pointers, which ends in a
\* full barrier: the session's generation is visible.  Eviction re-enters
\* itself, for a page of another tree, without entering the generation again.
Review(s, b) ==
    /\ pc[s] = "inside"
    /\ buf[s] = NoStore
    /\ syncing[b] = "off" \/ syncer[b] = s
    /\ evicting' = [evicting EXCEPT ![s] = @ \cup {b}]
    /\ UNCHANGED <<genVars, syncing, syncer>>

\* The page is written and gone, or eviction failed.
Evicted(s, b) ==
    /\ b \in evicting[s]
    /\ evicting' = [evicting EXCEPT ![s] = @ \ {b}]
    /\ UNCHANGED <<genVars, syncing, syncer>>

LeaveEvict(s) ==
    /\ evicting[s] = {}
    /\ Leave(s)
    /\ UNCHANGED drainVars

---------------------------------------------------------------------------
\* __wt_sync_file, WT_SYNC_CHECKPOINT.  flush_lock is held throughout.  The bound
\* MaxGen leaves room for the generation of every sync that has started.
SyncStart(s, b) ==
    /\ pc[s] = "idle"
    /\ syncer[b] = 0
    /\ gen + Cardinality({t \in Syncers : pc[t] = "sync_wait"}) < MaxGen
    /\ syncer' = [syncer EXCEPT ![b] = s]
    /\ syncing' = [syncing EXCEPT ![b] = "wait"]
    /\ Goto(s, "sync_wait")
    /\ UNCHANGED <<gen, sgen, buf, tmp, slot, evicting>>

SyncDrain(s) ==
    /\ DrainStart(s, "sync_wait")
    /\ UNCHANGED drainVars

SyncWait(s) == DrainSlot(s) /\ UNCHANGED drainVars

SyncRun(s, b) ==
    /\ pc[s] = "drain"
    /\ slot[s] > N
    /\ syncer[b] = s
    /\ syncing' = [syncing EXCEPT ![b] = "running"]
    /\ Goto(s, "sync_run")
    /\ UNCHANGED <<gen, sgen, buf, tmp, slot, syncer, evicting>>

SyncEnd(s, b) ==
    /\ pc[s] = "sync_run"
    /\ syncer[b] = s
    /\ syncing' = [syncing EXCEPT ![b] = "off"]
    /\ syncer' = [syncer EXCEPT ![b] = 0]
    /\ Goto(s, "idle")
    /\ UNCHANGED <<gen, sgen, buf, tmp, slot, evicting>>

---------------------------------------------------------------------------
Enter(s) == (EnterRead(s) \/ EnterStore(s) \/ EnterCheck(s)) /\ UNCHANGED drainVars
Buffer(s) == Flush(s) /\ UNCHANGED drainVars

Evict(s) ==
    \/ Enter(s) \/ Buffer(s) \/ LeaveEvict(s)
    \/ \E b \in Trees : Review(s, b) \/ Evicted(s, b)

Sync(s) ==
    \/ SyncDrain(s) \/ SyncWait(s)
    \/ \E b \in Trees : SyncStart(s, b) \/ SyncRun(s, b) \/ SyncEnd(s, b)

Next == (\E s \in Evictors : Evict(s)) \/ (\E s \in Syncers : Sync(s))

Spec == Init /\ [][Next]_vars

\* Threads are scheduled, stores drain, an eviction ends and its session leaves
\* the generation; nothing makes a session start one.
Fairness ==
    /\ \A s \in Evictors :
         /\ WF_vars((EnterStore(s) \/ EnterCheck(s)) /\ UNCHANGED drainVars)
         /\ WF_vars(Buffer(s))
         /\ \A b \in Trees : WF_vars(Evicted(s, b))
         /\ SF_vars(LeaveEvict(s))
    /\ \A s \in Syncers :
         WF_vars(SyncDrain(s) \/ SyncWait(s) \/ \E b \in Trees : SyncRun(s, b))

FairSpec == Spec /\ Fairness

---------------------------------------------------------------------------
\* Types of the variables.
TypeOK ==
    /\ GenTypeOK
    /\ pc \in [Sessions -> GenSteps \cup {"sync_wait", "sync_run"}]
    /\ syncing \in [Trees -> {"off", "wait", "running"}]
    /\ syncer \in [Trees -> 0 .. N]
    /\ evicting \in [Sessions -> SUBSET Trees]

\* While a checkpoint writes a tree no other session evicts a dirty page of it:
\* a page "written and the previous version freed ... might be referenced by an
\* internal page already written in the checkpoint" (__wt_page_can_evict).
SyncExcludesEviction ==
    \A b \in Trees, s \in Sessions :
       syncing[b] = "running" /\ b \in evicting[s] => syncer[b] = s

\* A session's generation is reached, and one that evicts has published it.
Published(s) ==
    /\ sgen[s] <= gen /\ buf[s] <= gen /\ tmp[s] <= gen
    /\ pc[s] = "enter_store" => tmp[s] > 0
    /\ pc[s] \in {"enter_check", "inside"} => sgen[s] > 0 \/ buf[s] > 0
    /\ evicting[s] # {} => pc[s] = "inside" /\ buf[s] = NoStore /\ s \in Evictors

\* The state of a tree's sync is that of the session that performs it.
SyncState(b) ==
    LET t == syncer[b] IN
    /\ t = 0 => syncing[b] = "off"
    /\ t # 0 =>
         /\ t \in Syncers
         /\ \/ pc[t] \in {"sync_wait", "drain"} /\ syncing[b] = "wait"
            \/ pc[t] = "sync_run" /\ syncing[b] = "running"
         /\ \A d \in Trees : syncer[d] = t => d = b

\* A session that was evicting a page of the tree when its sync was announced
\* is in an older generation than the one drained, and the drain is not past it.
NotPassed(s, b) ==
    LET t == syncer[b] IN
    b \in evicting[s] /\ t # 0 =>
      /\ pc[t] # "sync_run"
      /\ pc[t] = "drain" => slot[t] <= s /\ sgen[s] < tmp[t]

\* The inductive invariant from which SyncExcludesEviction follows.
IInv ==
    /\ TypeOK
    /\ \A s \in Sessions : Published(s)
    /\ \A b \in Trees : SyncState(b)
    /\ \A s \in Sessions, b \in Trees : NotPassed(s, b)

\* A checkpoint that waits for eviction gets to run, however often sessions
\* evict pages meanwhile: a session that enters after the generation advanced
\* is not waited for.
DrainEnds ==
    \A b \in Trees : (syncing[b] = "wait") ~> (syncing[b] = "running")

===========================================================================
