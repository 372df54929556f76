-------------------------- MODULE GenDrainProofs --------------------------
(***************************************************************************)
(* A checkpoint that has drained the eviction generation is alone with its *)
(* tree's dirty pages, whatever the number of trees and sessions, whether  *)
(* or not stores are delayed.                                              *)
(***************************************************************************)
EXTENDS GenDrain, TLAPS

\* The steps at which a session can be.
Steps == GenSteps \cup {"sync_wait", "sync_run"}

\* The invariant holds initially.
LEMMA DrainInit == Init => IInv
<1> SUFFICES ASSUME Init PROVE IInv
  OBVIOUS
<1> USE GenAssumption DEF Init, GenInit, Sessions, NoStore
<1>1. GenTypeOK
  BY DEF GenTypeOK
<1>2. TypeOK
  BY <1>1 DEF TypeOK, GenSteps
<1>3. \A s \in Sessions : Published(s)
  BY DEF Published
<1>4. \A b \in Trees : SyncState(b)
  BY DEF SyncState
<1>5. \A s \in Sessions, b \in Trees : NotPassed(s, b)
  BY DEF NotPassed
<1> QED
  BY <1>2, <1>3, <1>4, <1>5 DEF IInv

\* A step of a session that neither syncs nor evicts: it enters, its store
\* drains, or it leaves.
LEMMA GenStep ==
  ASSUME IInv, NEW s \in Evictors, Enter(s) \/ Buffer(s) \/ LeaveEvict(s)
  PROVE  IInv'
<1> USE GenAssumption DEF NoStore
<1>0. TypeOK /\ s \in Sessions /\ s \notin Syncers
  BY DrainAssumption DEF IInv
<1>1. Published(s)
  BY <1>0 DEF IInv
<1>2. /\ UNCHANGED <<gen, slot, syncing, syncer, evicting>>
      /\ \A t \in Sessions : t # s => /\ sgen'[t] = sgen[t] /\ buf'[t] = buf[t]
                                     /\ tmp'[t] = tmp[t] /\ pc'[t] = pc[t]
  BY <1>0 DEF Enter, Buffer, LeaveEvict, EnterRead, EnterStore, EnterCheck, Flush, Leave,
              Goto, drainVars, TypeOK, GenTypeOK
<1>3. evicting[s] # {} => /\ pc'[s] = pc[s] /\ sgen'[s] = sgen[s]
                          /\ buf'[s] = buf[s] /\ tmp'[s] = tmp[s]
  BY <1>0, <1>1 DEF Enter, Buffer, LeaveEvict, EnterRead, EnterStore, EnterCheck, Flush,
                    Leave, Published
<1>4. sgen' \in [Sessions -> 0 .. MaxGen] /\ sgen'[s] <= gen
  <2>1. sgen[s] \in 0 .. MaxGen /\ buf[s] \in 0 .. MaxGen /\ tmp[s] \in 0 .. MaxGen
    BY <1>0 DEF TypeOK, GenTypeOK
  <2>2. PICK v \in {sgen[s], buf[s], tmp[s], 0} : sgen' = [sgen EXCEPT ![s] = v]
    BY <1>0 DEF Enter, Buffer, LeaveEvict, EnterRead, EnterStore, EnterCheck, Flush, Leave,
                TypeOK, GenTypeOK
  <2>3. v \in 0 .. MaxGen /\ v <= gen
    BY <1>0, <1>1, <2>1, <2>2 DEF Published, TypeOK, GenTypeOK
  <2> QED
    BY <1>0, <2>2, <2>3 DEF TypeOK, GenTypeOK
<1>5. buf' \in [Sessions -> 0 .. MaxGen] /\ buf'[s] <= gen
  <2>1. buf[s] \in 0 .. MaxGen /\ tmp[s] \in 0 .. MaxGen
    BY <1>0 DEF TypeOK, GenTypeOK
  <2>2. PICK v \in {buf[s], tmp[s], 0} : buf' = [buf EXCEPT ![s] = v]
    BY <1>0 DEF Enter, Buffer, LeaveEvict, EnterRead, EnterStore, EnterCheck, Flush, Leave,
                TypeOK, GenTypeOK
  <2>3. v \in 0 .. MaxGen /\ v <= gen
    BY <1>0, <1>1, <2>1, <2>2 DEF Published, TypeOK, GenTypeOK
  <2> QED
    BY <1>0, <2>2, <2>3 DEF TypeOK, GenTypeOK
<1>6. tmp' \in [Sessions -> 0 .. MaxGen] /\ tmp'[s] <= gen
  <2>1. gen \in 1 .. MaxGen /\ tmp[s] \in 0 .. MaxGen
    BY <1>0 DEF TypeOK, GenTypeOK
  <2>2. PICK v \in {tmp[s], gen} : tmp' = [tmp EXCEPT ![s] = v]
    BY <1>0 DEF Enter, Buffer, LeaveEvict, EnterRead, EnterStore, EnterCheck, Flush, Leave,
                TypeOK, GenTypeOK
  <2>3. v \in 0 .. MaxGen /\ v <= gen
    BY <1>1, <2>1, <2>2 DEF Published
  <2> QED
    BY <1>0, <2>2, <2>3 DEF TypeOK, GenTypeOK
<1>7. pc' \in [Sessions -> Steps]
  <2>1. \E p \in {pc[s], "enter_store", "enter_check", "inside", "idle"} :
           pc' = [pc EXCEPT ![s] = p]
    BY <1>0 DEF Enter, Buffer, LeaveEvict, EnterRead, EnterStore, EnterCheck, Flush, Leave,
                Goto, TypeOK
  <2> QED
    BY <1>0, <2>1 DEF Steps, GenSteps, TypeOK
<1>8. TypeOK'
  BY <1>0, <1>2, <1>4, <1>5, <1>6, <1>7 DEF TypeOK, GenTypeOK, Steps
<1>9. ASSUME NEW t \in Sessions PROVE Published(t)'
  <2>1. CASE t = s
    <3>1. pc'[s] = "enter_store" => tmp'[s] > 0
      BY <1>0, <1>1 DEF Enter, Buffer, LeaveEvict, EnterRead, EnterStore, EnterCheck, Flush,
                        Leave, Goto, Published, TypeOK, GenTypeOK
    <3>2. pc'[s] \in {"enter_check", "inside"} => sgen'[s] > 0 \/ buf'[s] > 0
      BY <1>0, <1>1 DEF Enter, Buffer, LeaveEvict, EnterRead, EnterStore, EnterCheck, Flush,
                        Leave, Goto, Published, TypeOK, GenTypeOK
    <3> QED
      BY <1>1, <1>2, <1>3, <1>4, <1>5, <1>6, <2>1, <3>1, <3>2 DEF Published
  <2>2. CASE t # s
    BY <1>2, <2>2 DEF IInv, Published
  <2> QED
    BY <2>1, <2>2
<1>10. ASSUME NEW b \in Trees PROVE SyncState(b)'
  <2>1. SyncState(b)
    BY DEF IInv
  <2>2. syncer[b] # 0 => syncer[b] \in Sessions /\ syncer[b] # s
    BY <1>0, <2>1, DrainAssumption DEF SyncState
  <2> QED
    BY <1>2, <2>1, <2>2 DEF SyncState
<1>11. ASSUME NEW r \in Sessions, NEW b \in Trees PROVE NotPassed(r, b)'
  <2>1. NotPassed(r, b) /\ SyncState(b)
    BY DEF IInv
  <2>2. syncer[b] # 0 => syncer[b] \in Sessions /\ syncer[b] # s
    BY <1>0, <2>1, DrainAssumption DEF SyncState
  <2>3. evicting[r] # {} => sgen'[r] = sgen[r]
    BY <1>2, <1>3
  <2> QED
    BY <1>2, <2>1, <2>2, <2>3 DEF NotPassed
<1> QED
  BY <1>8, <1>9, <1>10, <1>11 DEF IInv

\* A page may be evicted only where no sync has been announced; ending an
\* eviction only helps.
LEMMA EvictStep ==
  ASSUME IInv, NEW s \in Evictors, NEW b \in Trees, Review(s, b) \/ Evicted(s, b)
  PROVE  IInv'
<1> USE GenAssumption DEF NoStore
<1>0. TypeOK /\ s \in Sessions /\ s \notin Syncers
  BY DrainAssumption DEF IInv
<1>1. UNCHANGED <<gen, sgen, buf, pc, tmp, slot, syncing, syncer>>
  BY DEF Review, Evicted, genVars
<1>2. evicting' \in [Sessions -> SUBSET Trees] /\ \A t \in Sessions : t # s => evicting'[t] = evicting[t]
  BY <1>0 DEF Review, Evicted, TypeOK
<1>3. \A d \in evicting'[s] : d \in evicting[s] \/ (d = b /\ syncer[b] = 0)
  <2>1. CASE Review(s, b)
    <3>1. SyncState(b)
      BY DEF IInv
    <3>2. syncer[b] = 0
      BY <1>0, <2>1, <3>1 DEF Review, SyncState
    <3> QED
      BY <1>0, <2>1, <3>2 DEF Review, TypeOK
  <2>2. CASE Evicted(s, b)
    BY <1>0, <2>2 DEF Evicted, TypeOK
  <2> QED
    BY <2>1, <2>2
<1>4. TypeOK'
  BY <1>0, <1>1, <1>2 DEF TypeOK, GenTypeOK
<1>5. ASSUME NEW t \in Sessions PROVE Published(t)'
  <2>1. Published(t)
    BY DEF IInv
  <2>2. CASE t = s
    <3>1. pc[s] = "inside" /\ buf[s] = 0
      BY <2>1, <2>2 DEF Review, Evicted, Published
    <3> QED
      BY <1>1, <2>1, <2>2, <3>1 DEF Published
  <2>3. CASE t # s
    BY <1>1, <1>2, <2>1, <2>3 DEF Published
  <2> QED
    BY <2>2, <2>3
<1>6. \A d \in Trees : SyncState(d)'
  BY <1>1 DEF IInv, SyncState
<1>7. ASSUME NEW r \in Sessions, NEW d \in Trees PROVE NotPassed(r, d)'
  <2>1. NotPassed(r, d)
    BY DEF IInv
  <2>2. d \in evicting'[r] /\ syncer[d] # 0 => d \in evicting[r]
    BY <1>2, <1>3
  <2> QED
    BY <1>1, <2>1, <2>2 DEF NotPassed
<1> QED
  BY <1>4, <1>5, <1>6, <1>7 DEF IInv

\* A sync is announced, starts to drain, runs or ends.
LEMMA SyncStep ==
  ASSUME IInv, NEW s \in Syncers, NEW b \in Trees,
         SyncStart(s, b) \/ SyncRun(s, b) \/ SyncEnd(s, b)
  PROVE  IInv'
<1> USE GenAssumption DEF NoStore
<1>0. TypeOK /\ s \in Sessions /\ s \notin Evictors /\ s # 0
  BY DrainAssumption DEF IInv, Sessions
<1>1. UNCHANGED <<gen, sgen, buf, tmp, slot, evicting>>
  BY DEF SyncStart, SyncRun, SyncEnd
<1>2. PICK p \in {"sync_wait", "sync_run", "idle"} : pc' = [pc EXCEPT ![s] = p]
  BY DEF SyncStart, SyncRun, SyncEnd, Goto
<1>3. TypeOK'
  <2>1. pc' \in [Sessions -> Steps]
    BY <1>0, <1>2 DEF TypeOK, Steps, GenSteps
  <2>2. syncing' \in [Trees -> {"off", "wait", "running"}]
    BY <1>0 DEF SyncStart, SyncRun, SyncEnd, TypeOK
  <2>3. syncer' \in [Trees -> 0 .. N]
    BY <1>0 DEF SyncStart, SyncRun, SyncEnd, TypeOK, Sessions
  <2> QED
    BY <1>0, <1>1, <2>1, <2>2, <2>3 DEF TypeOK, GenTypeOK, Steps
<1>4. ASSUME NEW t \in Sessions PROVE Published(t)'
  <2>1. Published(t) /\ (t = s => evicting[t] = {})
    BY <1>0 DEF IInv, Published
  <2> QED
    BY <1>0, <1>1, <1>2, <2>1 DEF Published, TypeOK
<1>5. ASSUME NEW d \in Trees PROVE SyncState(d)'
  <2>1. SyncState(d) /\ SyncState(b)
    BY DEF IInv
  <2>2. CASE SyncStart(s, b)
    <3>1. /\ pc[s] = "idle" /\ syncer[b] = 0 /\ pc' = [pc EXCEPT ![s] = "sync_wait"]
          /\ syncer' = [syncer EXCEPT ![b] = s] /\ syncing' = [syncing EXCEPT ![b] = "wait"]
      BY <2>2 DEF SyncStart, Goto
    <3>2. \A e \in Trees : syncer[e] # s
      BY <1>0, <3>1 DEF IInv, SyncState
    <3>3. CASE d = b
      BY <1>0, <3>1, <3>2, <3>3 DEF SyncState, TypeOK
    <3>4. CASE d # b
      BY <1>0, <2>1, <3>1, <3>2, <3>4 DEF SyncState, TypeOK
    <3> QED
      BY <3>3, <3>4
  <2>3. CASE SyncRun(s, b)
    <3>1. /\ syncer[b] = s /\ pc' = [pc EXCEPT ![s] = "sync_run"]
          /\ syncer' = syncer /\ syncing' = [syncing EXCEPT ![b] = "running"]
      BY <2>3 DEF SyncRun, Goto
    <3> QED
      BY <1>0, <2>1, <3>1 DEF SyncState, TypeOK
  <2>4. CASE SyncEnd(s, b)
    <3>1. /\ syncer[b] = s /\ pc' = [pc EXCEPT ![s] = "idle"]
          /\ syncer' = [syncer EXCEPT ![b] = 0] /\ syncing' = [syncing EXCEPT ![b] = "off"]
      BY <2>4 DEF SyncEnd, Goto
    <3>2. CASE d = b
      BY <1>0, <3>1, <3>2 DEF SyncState, TypeOK
    <3>3. CASE d # b
      BY <1>0, <2>1, <3>1, <3>3 DEF SyncState, TypeOK
    <3> QED
      BY <3>2, <3>3
  <2> QED
    BY <2>2, <2>3, <2>4
<1>6. ASSUME NEW r \in Sessions, NEW d \in Trees PROVE NotPassed(r, d)'
  <2>1. NotPassed(r, d) /\ SyncState(d)
    BY DEF IInv
  <2>2. CASE SyncStart(s, b)
    <3>1. /\ pc' = [pc EXCEPT ![s] = "sync_wait"] /\ syncer' = [syncer EXCEPT ![b] = s]
      BY <2>2 DEF SyncStart, Goto
    <3>2. pc'[s] = "sync_wait" /\ \A t \in Sessions : t # s => pc'[t] = pc[t]
      BY <1>0, <3>1 DEF TypeOK
    <3>3. syncer'[d] = s \/ syncer'[d] = syncer[d]
      BY <1>0, <3>1 DEF TypeOK
    <3>4. syncer[d] # 0 => syncer[d] \in Sessions
      BY <2>1, DrainAssumption DEF SyncState
    <3> QED
      BY <1>1, <2>1, <3>2, <3>3, <3>4 DEF NotPassed
  <2>3. CASE SyncRun(s, b)
    <3>1. /\ pc[s] = "drain" /\ slot[s] > N /\ syncer[b] = s /\ syncer' = syncer
          /\ pc' = [pc EXCEPT ![s] = "sync_run"]
      BY <2>3 DEF SyncRun, Goto
    <3>2. ~(slot[s] <= r)
      <4>1. slot[s] \in 1 .. N + 1
        BY <1>0 DEF TypeOK, GenTypeOK
      <4> QED
        BY <3>1, <4>1 DEF Sessions
    <3>3. syncer[d] = s => d \notin evicting[r]
      BY <1>0, <2>1, <3>1, <3>2 DEF NotPassed
    <3>4. syncer[d] # 0 => syncer[d] \in Sessions
      BY <2>1, DrainAssumption DEF SyncState
    <3> QED
      BY <1>0, <1>1, <2>1, <3>1, <3>3, <3>4 DEF NotPassed, TypeOK
  <2>4. CASE SyncEnd(s, b)
    <3>1. /\ pc' = [pc EXCEPT ![s] = "idle"] /\ syncer' = [syncer EXCEPT ![b] = 0]
      BY <2>4 DEF SyncEnd, Goto
    <3>2. pc'[s] = "idle" /\ \A t \in Sessions : t # s => pc'[t] = pc[t]
      BY <1>0, <3>1 DEF TypeOK
    <3>3. syncer'[d] = 0 \/ syncer'[d] = syncer[d]
      BY <1>0, <3>1 DEF TypeOK
    <3>4. syncer[d] # 0 => syncer[d] \in Sessions
      BY <2>1, DrainAssumption DEF SyncState
    <3> QED
      BY <1>1, <2>1, <3>2, <3>3, <3>4 DEF NotPassed
  <2> QED
    BY <2>2, <2>3, <2>4
<1> QED
  BY <1>3, <1>4, <1>5, <1>6 DEF IInv

\* The generation advances past that of every session inside, and the drain
\* goes past a session only if it is outside or in the new generation.
LEMMA DrainStep ==
  ASSUME IInv, NEW s \in Syncers, SyncDrain(s) \/ SyncWait(s)
  PROVE  IInv'
<1> USE GenAssumption DEF NoStore
<1>0. TypeOK /\ s \in Sessions /\ s \notin Evictors /\ s # 0
  BY DrainAssumption DEF IInv, Sessions
<1>1. UNCHANGED <<sgen, buf, syncing, syncer, evicting>>
  BY DEF SyncDrain, SyncWait, DrainStart, DrainSlot, drainVars
<1>2. CASE SyncDrain(s)
  <2>1. /\ pc[s] = "sync_wait" /\ pc' = [pc EXCEPT ![s] = "drain"] /\ gen' = gen + 1
        /\ gen < MaxGen /\ tmp' = [tmp EXCEPT ![s] = gen + 1] /\ slot' = [slot EXCEPT ![s] = 1]
    BY <1>2 DEF SyncDrain, DrainStart, GenNext, Goto
  <2>2. gen + 1 \in 1 .. MaxGen /\ gen + 1 \in 0 .. MaxGen /\ 1 \in 1 .. N + 1
    BY <1>0, <2>1 DEF TypeOK, GenTypeOK
  <2>3. TypeOK'
    <3>1. pc' \in [Sessions -> Steps]
      BY <1>0, <2>1 DEF TypeOK, Steps, GenSteps
    <3> QED
      BY <1>0, <1>1, <2>1, <2>2, <3>1 DEF TypeOK, GenTypeOK, Steps
  <2>4. ASSUME NEW t \in Sessions PROVE Published(t)' /\ sgen[t] < gen + 1
    <3>1. Published(t)
      BY DEF IInv
    <3>2. sgen[t] \in Int /\ buf[t] \in Int /\ tmp[t] \in Int /\ gen \in Int
      BY <1>0 DEF TypeOK, GenTypeOK
    <3>3. sgen[t] < gen + 1 /\ buf[t] < gen + 1 /\ tmp[t] <= gen + 1
      BY <3>1, <3>2 DEF Published
    <3>4. t = s => evicting[t] = {}
      BY <1>0, <3>1 DEF Published
    <3>5. CASE t = s
      <4>1. pc'[t] = "drain" /\ tmp'[t] = gen + 1
        BY <1>0, <2>1, <3>5 DEF TypeOK, GenTypeOK
      <4> QED
        BY <1>1, <2>1, <3>2, <3>3, <3>4, <3>5, <4>1 DEF Published
    <3>6. CASE t # s
      <4>1. pc'[t] = pc[t] /\ tmp'[t] = tmp[t]
        BY <1>0, <2>1, <3>6 DEF TypeOK, GenTypeOK
      <4> QED
        BY <1>1, <2>1, <3>1, <3>2, <3>3, <4>1 DEF Published
    <3> QED
      BY <3>5, <3>6
  <2>5. \A d \in Trees : SyncState(d)'
    BY <1>0, <1>1, <2>1, DrainAssumption DEF IInv, SyncState, TypeOK
  <2>6. ASSUME NEW r \in Sessions, NEW d \in Trees PROVE NotPassed(r, d)'
    <3>1. NotPassed(r, d) /\ SyncState(d)
      BY DEF IInv
    <3>2. syncer[d] # 0 => syncer[d] \in Sessions
      BY <3>1, DrainAssumption DEF SyncState
    <3>3. pc'[s] = "drain" /\ slot'[s] <= r /\ sgen[r] < tmp'[s]
      BY <1>0, <2>1, <2>4 DEF TypeOK, GenTypeOK, Sessions
    <3>4. \A t \in Sessions : t # s => pc'[t] = pc[t] /\ slot'[t] = slot[t] /\ tmp'[t] = tmp[t]
      BY <1>0, <2>1 DEF TypeOK, GenTypeOK
    <3> QED
      BY <1>1, <3>1, <3>2, <3>3, <3>4 DEF NotPassed
  <2> QED
    BY <2>3, <2>4, <2>5, <2>6 DEF IInv
<1>3. CASE SyncWait(s)
  <2>1. /\ pc[s] = "drain" /\ UNCHANGED <<gen, pc, tmp>> /\ slot[s] \in Sessions
        /\ Drained(sgen[slot[s]], tmp[s]) /\ slot' = [slot EXCEPT ![s] = slot[s] + 1]
    BY <1>0, <1>3 DEF SyncWait, DrainSlot, TypeOK, GenTypeOK, Sessions
  <2>2. slot[s] + 1 \in 1 .. N + 1
    BY <2>1 DEF Sessions
  <2>3. TypeOK'
    BY <1>0, <1>1, <2>1, <2>2 DEF TypeOK, GenTypeOK
  <2>4. \A t \in Sessions : Published(t)'
    BY <1>1, <2>1 DEF IInv, Published
  <2>5. \A d \in Trees : SyncState(d)'
    BY <1>1, <2>1 DEF IInv, SyncState
  <2>6. ASSUME NEW r \in Sessions, NEW d \in Trees PROVE NotPassed(r, d)'
    <3>1. NotPassed(r, d) /\ SyncState(d) /\ Published(r)
      BY DEF IInv
    <3>2. syncer[d] # 0 => syncer[d] \in Sessions
      BY <3>1, DrainAssumption DEF SyncState
    <3>3. \A t \in Sessions : t # s => slot'[t] = slot[t]
      BY <1>0, <2>1 DEF TypeOK, GenTypeOK
    <3>4. ASSUME syncer[d] = s, d \in evicting[r] PROVE slot'[s] <= r
      <4>1. slot[s] <= r /\ sgen[r] < tmp[s]
        BY <1>0, <2>1, <3>1, <3>4 DEF NotPassed
      <4>2. sgen[r] \in Int /\ tmp[s] \in Int /\ sgen[r] > 0
        BY <1>0, <3>1, <3>4 DEF Published, TypeOK, GenTypeOK
      <4>3. slot[s] # r
        BY <2>1, <4>1, <4>2 DEF Drained
      <4>4. slot[s] \in Int /\ r \in Int /\ slot'[s] = slot[s] + 1
        BY <1>0, <2>1 DEF TypeOK, GenTypeOK, Sessions
      <4> QED
        BY <4>1, <4>3, <4>4
    <3> QED
      BY <1>1, <2>1, <3>1, <3>2, <3>3, <3>4 DEF NotPassed
  <2> QED
    BY <2>3, <2>4, <2>5, <2>6 DEF IInv
<1> QED
  BY <1>2, <1>3

\* While a checkpoint writes a tree, no other session evicts a dirty page of it:
\* for any numbers of trees and sessions, with and without delayed stores.
THEOREM DrainSafe == Spec => []SyncExcludesEviction
<1>1. IInv => SyncExcludesEviction
  BY DEF IInv, SyncState, NotPassed, SyncExcludesEviction
<1>2. IInv /\ [Next]_vars => IInv'
  <2> SUFFICES ASSUME IInv, [Next]_vars PROVE IInv'
    OBVIOUS
  <2>1. CASE UNCHANGED vars
    BY <2>1 DEF vars, genVars, drainVars, IInv, TypeOK, GenTypeOK, Published, SyncState, NotPassed
  <2>2. ASSUME NEW s \in Evictors, Evict(s) PROVE IInv'
    BY <2>2, GenStep, EvictStep DEF Evict
  <2>3. ASSUME NEW s \in Syncers, Sync(s) PROVE IInv'
    BY <2>3, DrainStep, SyncStep DEF Sync
  <2> QED
    BY <2>1, <2>2, <2>3 DEF Next
<1> QED
  BY <1>1, <1>2, DrainInit, PTL DEF Spec
===========================================================================
