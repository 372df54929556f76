-------------------------- MODULE GenStashProofs --------------------------
(***************************************************************************)
(* Stashed memory is never freed under a session that has read it with its *)
(* generation visible to the others, whatever the number of sessions, and  *)
(* every object is in one place at any time.  Both hold for both users of  *)
(* the stash, with or without delayed stores.                              *)
(***************************************************************************)
EXTENDS GenStash, TLAPS

\* An entry of a stash is an object and a generation.
LEMMA EntryType ==
  ASSUME TypeOK, NEW t \in Sessions
  PROVE  \A e \in Entries(t) : e.obj \in Nat /\ e.gen \in Nat
<1>1. stash[t] \in Seq([obj : Nat, gen : Nat])
  BY DEF TypeOK
<1>2. \A S : \A q \in Seq(S) : \A i \in 1 .. Len(q) : q[i] \in S
  OBVIOUS
<1>3. \A i \in 1 .. Len(stash[t]) : stash[t][i] \in [obj : Nat, gen : Nat]
  BY <1>1, <1>2
<1> QED
  BY <1>3 DEF Entries

\* What is left of a stash's list without its first k entries.
LEMMA SuffixOf ==
  ASSUME NEW S, NEW q \in Seq(S), NEW k \in 0 .. Len(q)
  PROVE  /\ Len(SubSeq(q, k + 1, Len(q))) = Len(q) - k
         /\ \A i \in 1 .. Len(q) - k : SubSeq(q, k + 1, Len(q))[i] = q[i + k]
         /\ SubSeq(q, k + 1, Len(q)) \in Seq(S)
OBVIOUS

\* There is a cell.
LEMMA CellsNonempty == PageIndex \in Cells
BY DEF Cells

\* The invariant holds before any session has done anything.
LEMMA InitIInv == Init => IInv
<1> SUFFICES ASSUME Init PROVE IInv
  OBVIOUS
<1> USE GenAssumption, StashAssumption DEF Init, GenInit, Sessions, NoStore, None
<1>0. \A t \in Sessions : Entries(t) = {}
  BY DEF Entries
<1>1. TypeOK
  <2>1. GenTypeOK
    BY DEF GenTypeOK
  <2>2. stash \in [Sessions -> Seq([obj : Nat, gen : Nat])]
    OBVIOUS
  <2>3. ptr \in [Cells -> Nat] /\ fresh \in Nat
    BY DEF Cells, PageIndex
  <2> QED
    BY <2>1, <2>2, <2>3 DEF TypeOK, GenSteps
<1>2. LinkedApart
  <2>1. \A c \in Cells : ptr[c] = c + 1 /\ c \in Nat /\ 0 < c + 1 /\ c + 1 < fresh
    BY DEF Cells, PageIndex
  <2> QED
    BY <1>0, <2>1 DEF LinkedApart
<1>3. \A s \in Sessions : HeldInside(s) /\ ~ Protected(s)
  BY DEF HeldInside, Protected
<1> QED
  BY <1>0, <1>1, <1>2, <1>3 DEF IInv

\* A session that enters holds nothing yet, so that what it publishes covers
\* whatever it is going to read.
LEMMA EnterIInv ==
  ASSUME IInv, NEW s \in Sessions, UNCHANGED stashVars,
         EnterRead(s) \/ EnterStore(s) \/ EnterCheck(s)
  PROVE  IInv'
<1> USE GenAssumption DEF NoStore, None, Goto, stashVars
<1>1. held[s] = None
  BY DEF EnterRead, EnterStore, EnterCheck, IInv, HeldInside, TypeOK
<1>2. /\ \A t \in Sessions : t # s =>
           sgen'[t] = sgen[t] /\ buf'[t] = buf[t] /\ tmp'[t] = tmp[t] /\ pc'[t] = pc[t]
      /\ UNCHANGED <<gen, slot>>
  BY DEF EnterRead, EnterStore, EnterCheck, IInv, TypeOK, GenTypeOK
<1>3. /\ sgen' \in [Sessions -> 0 .. MaxGen] /\ buf' \in [Sessions -> 0 .. MaxGen]
      /\ tmp' \in [Sessions -> 0 .. MaxGen]
      /\ pc' \in [Sessions -> GenSteps \cup {"swapped", "stash", "advance"}]
      /\ sgen'[s] <= gen /\ buf'[s] <= gen /\ tmp'[s] <= gen /\ tmp'[s] > 0
      /\ pc'[s] \in {"enter_store", "enter_check", "inside"}
      /\ pc'[s] = "enter_check" \/ pc'[s] = "inside" => sgen'[s] > 0 \/ buf'[s] > 0
  <2>1. /\ gen \in 1 .. MaxGen /\ gen \in 0 .. MaxGen /\ HeldInside(s)
        /\ sgen \in [Sessions -> 0 .. MaxGen] /\ buf \in [Sessions -> 0 .. MaxGen]
        /\ tmp \in [Sessions -> 0 .. MaxGen]
        /\ pc \in [Sessions -> GenSteps \cup {"swapped", "stash", "advance"}]
    BY DEF IInv, TypeOK, GenTypeOK
  <2>2. CASE EnterRead(s)
    BY <2>1, <2>2 DEF EnterRead, GenSteps, HeldInside
  <2>3. CASE EnterStore(s)
    <3>1. /\ pc' = [pc EXCEPT ![s] = "enter_check"] /\ tmp' = tmp
          /\ tmp[s] > 0 /\ tmp[s] <= gen /\ tmp[s] \in 0 .. MaxGen /\ sgen[s] <= gen
      BY <2>1, <2>3 DEF EnterStore, HeldInside
    <3>2. \/ buf' = [buf EXCEPT ![s] = tmp[s]] /\ sgen' = sgen
          \/ sgen' = [sgen EXCEPT ![s] = tmp[s]] /\ buf' = buf /\ buf[s] = 0
      BY <2>3 DEF EnterStore
    <3> QED
      BY <2>1, <3>1, <3>2 DEF GenSteps
  <2>4. CASE EnterCheck(s)
    <3>1. /\ sgen' = sgen /\ buf' = buf /\ pc[s] = "enter_check"
          /\ \/ pc' = [pc EXCEPT ![s] = "inside"] /\ tmp' = tmp /\ tmp[s] = gen
             \/ pc' = [pc EXCEPT ![s] = "enter_store"] /\ tmp' = [tmp EXCEPT ![s] = gen]
      BY <2>4 DEF EnterCheck
    <3>2. sgen[s] <= gen /\ buf[s] <= gen /\ (sgen[s] > 0 \/ buf[s] > 0)
      BY <2>1, <3>1 DEF HeldInside
    <3> QED
      BY <2>1, <3>1, <3>2 DEF GenSteps
  <2> QED
    BY <2>2, <2>3, <2>4
<1>4. \A t \in Sessions : Entries(t)' = Entries(t)
  BY DEF Entries
<1>5. TypeOK'
  BY <1>2, <1>3 DEF IInv, TypeOK, GenTypeOK
<1>6. LinkedApart'
  BY <1>4 DEF IInv, LinkedApart
<1>7. ASSUME NEW t \in Sessions PROVE HeldInside(t)'
  <2>1. CASE t = s
    BY <1>1, <1>2, <1>3, <2>1 DEF HeldInside
  <2>2. CASE t # s
    BY <1>2, <2>2 DEF IInv, HeldInside
  <2> QED
    BY <2>1, <2>2
<1>8. ASSUME NEW r \in Sessions, NEW t \in Sessions, Protected(r)'
      PROVE  Covered(r, t)'
  <2>1. Protected(r) /\ r # s /\ sgen'[r] = sgen[r]
    BY <1>1, <1>2, <1>8 DEF Protected
  <2>2. Covered(r, t)
    BY <2>1 DEF IInv
  <2>3. CASE t = s
    BY <1>3, <1>4, <2>1, <2>2, <2>3 DEF Covered
  <2>4. CASE t # s
    BY <1>2, <1>4, <2>1, <2>2, <2>4 DEF Covered
  <2> QED
    BY <2>3, <2>4
<1> QED
  BY <1>5, <1>6, <1>7, <1>8 DEF IInv, Protected

\* A session whose delayed store reaches memory only now was exposed, or held nothing.
LEMMA FlushIInv ==
  ASSUME IInv, NEW s \in Sessions, UNCHANGED stashVars, Flush(s)
  PROVE  IInv'
<1> USE GenAssumption DEF NoStore, None, stashVars
<1>0. TypeOK /\ HeldInside(s)
  BY DEF IInv
<1>1. /\ buf[s] # 0 /\ UNCHANGED <<gen, pc, tmp, slot>>
      /\ sgen' = [sgen EXCEPT ![s] = buf[s]] /\ buf' = [buf EXCEPT ![s] = 0]
  BY DEF Flush
<1>2. buf[s] \in 0 .. MaxGen /\ buf[s] > 0 /\ buf[s] <= gen /\ 0 <= gen
  BY <1>0, <1>1 DEF HeldInside, TypeOK, GenTypeOK
<1>3. ~ Protected(s)
  BY <1>0, <1>1 DEF HeldInside, Protected
<1>4. \A t \in Sessions : Entries(t)' = Entries(t)
  BY DEF Entries
<1>5. TypeOK'
  BY <1>0, <1>1, <1>2 DEF TypeOK, GenTypeOK
<1>6. LinkedApart'
  BY <1>4 DEF IInv, LinkedApart
<1>7. ASSUME NEW t \in Sessions PROVE HeldInside(t)'
  <2>1. CASE t = s
    <3>1. sgen'[s] = buf[s] /\ buf'[s] = 0
      BY <1>0, <1>1 DEF TypeOK, GenTypeOK
    <3> QED
      BY <1>0, <1>1, <1>2, <2>1, <3>1 DEF HeldInside
  <2>2. CASE t # s
    <3>1. sgen'[t] = sgen[t] /\ buf'[t] = buf[t] /\ HeldInside(t)
      BY <1>0, <1>1, <2>2 DEF IInv, TypeOK, GenTypeOK
    <3> QED
      BY <1>1, <3>1 DEF HeldInside
  <2> QED
    BY <2>1, <2>2
<1>8. ASSUME NEW r \in Sessions, NEW t \in Sessions, Protected(r)'
      PROVE  Covered(r, t)'
  <2>1. Protected(r) /\ r # s
    BY <1>3, <1>8 DEF Protected
  <2>2. sgen'[r] = sgen[r] /\ Covered(r, t)
    BY <1>0, <1>1, <2>1 DEF IInv, TypeOK, GenTypeOK
  <2> QED
    BY <1>1, <1>4, <2>2 DEF Covered
<1> QED
  BY <1>5, <1>6, <1>7, <1>8 DEF IInv, Protected

\* A session that leaves gives up what it holds.
LEMMA LeaveIInv ==
  ASSUME IInv, NEW s \in Sessions, LeaveResource(s)
  PROVE  IInv'
<1> USE GenAssumption DEF NoStore, None, Goto, LeaveResource, Leave
<1>0. TypeOK
  BY DEF IInv
<1>1. /\ sgen' = [sgen EXCEPT ![s] = 0] /\ held' = [held EXCEPT ![s] = 0]
      /\ pc' = [pc EXCEPT ![s] = "idle"] /\ buf' = [buf EXCEPT ![s] = 0]
      /\ exposed' = exposed \ {s}
      /\ UNCHANGED <<gen, tmp, slot, style, ptr, fresh, old, stash, freed>>
  OBVIOUS
<1> HIDE DEF LeaveResource, Leave
<1>2. TypeOK'
  BY <1>0, <1>1 DEF TypeOK, GenTypeOK, GenSteps
<1>3. \A t \in Sessions : Entries(t)' = Entries(t)
  BY <1>1 DEF Entries
<1>4. LinkedApart'
  BY <1>1, <1>3 DEF IInv, LinkedApart
<1>5. ASSUME NEW t \in Sessions PROVE HeldInside(t)'
  <2>1. HeldInside(t)
    BY DEF IInv
  <2> QED
    BY <1>0, <1>1, <2>1 DEF HeldInside, TypeOK, GenTypeOK
<1>6. ASSUME NEW r \in Sessions, NEW t \in Sessions, Protected(r)'
      PROVE  Covered(r, t)'
  <2>1. r # s /\ Protected(r)
    BY <1>0, <1>1, <1>6 DEF TypeOK, Protected
  <2>2. Covered(r, t)
    BY <2>1 DEF IInv
  <2> QED
    BY <1>0, <1>1, <1>3, <2>1, <2>2 DEF Covered, TypeOK, GenTypeOK
<1>7. \A t \in Sessions : Protected(t)' => held'[t] \notin freed'
  BY <1>0, <1>1 DEF IInv, TypeOK, GenTypeOK, Protected
<1> QED
  BY <1>2, <1>4, <1>5, <1>6, <1>7 DEF IInv

\* What a reader reads is linked, so that nobody has retired it.
LEMMA ReadIInv ==
  ASSUME IInv, NEW s \in Sessions, NEW c \in Cells, ReadPointer(s, c)
  PROVE  IInv'
<1> USE GenAssumption DEF NoStore, None
<1>0. TypeOK /\ LinkedApart
  BY DEF IInv
<1>1. /\ pc[s] = "inside" /\ held' = [held EXCEPT ![s] = ptr[c]]
      /\ exposed' = IF buf[s] = NoStore THEN exposed \ {s} ELSE exposed \cup {s}
      /\ UNCHANGED <<gen, sgen, buf, pc, tmp, slot, style, ptr, fresh, old, stash, freed>>
  BY DEF ReadPointer, genVars
<1>2. TypeOK'
  BY <1>0, <1>1 DEF TypeOK, GenTypeOK
<1>3. \A t \in Sessions : Entries(t)' = Entries(t)
  BY <1>1 DEF Entries
<1>4. LinkedApart'
  BY <1>0, <1>1, <1>3 DEF LinkedApart
<1>5. ASSUME NEW t \in Sessions PROVE HeldInside(t)'
  <2>1. HeldInside(t)
    BY DEF IInv
  <2> QED
    BY <1>0, <1>1, <2>1 DEF HeldInside, TypeOK, GenTypeOK
<1>6. ASSUME NEW r \in Sessions, NEW t \in Sessions, Protected(r)'
      PROVE  Covered(r, t)'
  <2>1. CASE r = s
    BY <1>0, <1>1, <1>3, <2>1 DEF Covered, LinkedApart, TypeOK
  <2>2. CASE r # s
    <3>1. held'[r] = held[r] /\ Covered(r, t)
      BY <1>0, <1>1, <1>6, <2>2 DEF IInv, TypeOK, Protected
    <3> QED
      BY <1>1, <1>3, <3>1 DEF Covered
  <2> QED
    BY <2>1, <2>2
<1>7. \A t \in Sessions : Protected(t)' => held'[t] \notin freed'
  BY <1>0, <1>1 DEF IInv, TypeOK, LinkedApart, Protected
<1> QED
  BY <1>2, <1>4, <1>5, <1>6, <1>7 DEF IInv

\* The object a replacer unlinks is in no stash, and nobody can read it again.
LEMMA SwapIInv ==
  ASSUME IInv, NEW s \in Sessions, NEW c \in Cells, Swap(s, c)
  PROVE  IInv'
<1> USE GenAssumption DEF NoStore, None
<1>0. TypeOK /\ LinkedApart /\ HeldInside(s)
  BY DEF IInv
<1>1. /\ ptr' = [ptr EXCEPT ![c] = fresh] /\ fresh' = fresh + 1
      /\ old' = [old EXCEPT ![s] = ptr[c]] /\ pc' = [pc EXCEPT ![s] = "swapped"]
      /\ UNCHANGED <<gen, sgen, buf, tmp, slot, style, held, exposed, stash, freed>>
      /\ IF style = "hazard" THEN pc[s] = "idle" ELSE pc[s] = "inside"
  BY DEF Swap, Goto, MayReplace
<1>2. TypeOK'
  BY <1>0, <1>1, SMTT(60) DEF TypeOK, GenTypeOK
<1>3. \A t \in Sessions : Entries(t)' = Entries(t)
  BY <1>1 DEF Entries
<1>4. LinkedApart'
  <2>1. \A t \in Sessions : \A e \in Entries(t) : e.obj \in Nat
    BY <1>0, EntryType
  <2>2. \A d \in Cells : ptr'[d] = IF d = c THEN fresh ELSE ptr[d]
    BY <1>0, <1>1 DEF TypeOK
  <2>3. \A t \in Sessions : old'[t] = IF t = s THEN ptr[c] ELSE old[t]
    BY <1>0, <1>1 DEF TypeOK
  <2>4. fresh \in Nat /\ freed \subseteq Nat /\ \A d \in Cells : ptr[d] \in Nat
    BY <1>0 DEF TypeOK
  <2>5. \A t \in Sessions : old[t] \in Nat
    BY <1>0 DEF TypeOK
  <2>6. fresh' = fresh + 1 /\ freed' = freed
    BY <1>1
  <2>7. \A c1, d \in Cells : ptr'[c1] = ptr'[d] => c1 = d
    BY <1>0, <2>2, <2>4 DEF LinkedApart
  <2>8. \A d \in Cells : 0 < ptr'[d] /\ ptr'[d] < fresh' /\ ptr'[d] \notin freed'
    BY <1>0, <2>2, <2>4, <2>6 DEF LinkedApart
  <2>9. \A o \in freed' : o < fresh'
    BY <1>0, <2>4, <2>6 DEF LinkedApart
  <2>10. ASSUME NEW t \in Sessions
         PROVE  /\ old'[t] < fresh'
                /\ \A d \in Cells : ptr'[d] # old'[t]
                /\ \A e \in Entries(t) : e.obj < fresh' /\ \A d \in Cells : ptr'[d] # e.obj
    BY <1>0, <2>1, <2>2, <2>3, <2>4, <2>5, <2>6 DEF LinkedApart
  <2> QED
    BY <1>3, <2>7, <2>8, <2>9, <2>10 DEF LinkedApart
<1>5. ASSUME NEW t \in Sessions PROVE HeldInside(t)'
  <2>1. HeldInside(t)
    BY DEF IInv
  <2> QED
    BY <1>0, <1>1, <2>1, StashAssumption DEF HeldInside, TypeOK, GenTypeOK
<1>6. ASSUME NEW r \in Sessions, NEW t \in Sessions, Protected(r)'
      PROVE  Covered(r, t)'
  <2>1. Covered(r, t)
    BY <1>1, <1>6 DEF IInv, Protected
  <2>2. pc'[t] = "stash" => t # s /\ pc[t] = "stash" /\ old'[t] = old[t]
    BY <1>0, <1>1 DEF TypeOK
  <2>3. pc'[t] = "oldest" => pc[t] = "oldest"
    BY <1>0, <1>1 DEF TypeOK
  <2> QED
    BY <1>1, <1>3, <2>1, <2>2, <2>3 DEF Covered
<1> QED
  BY <1>1, <1>2, <1>4, <1>5, <1>6 DEF IInv, Protected

\* The generation an object is stashed with is not before that of any session
\* that may hold it.
LEMMA StashGenIInv ==
  ASSUME IInv, NEW s \in Sessions, StashGen(s)
  PROVE  IInv'
<1> USE GenAssumption DEF NoStore, None
<1>0. TypeOK /\ LinkedApart
  BY DEF IInv
<1>1. /\ pc[s] = "swapped" /\ buf[s] = NoStore /\ gen' \in gen .. MaxGen
      /\ tmp' = [tmp EXCEPT ![s] = gen'] /\ pc' = [pc EXCEPT ![s] = "stash"]
      /\ UNCHANGED <<sgen, buf, slot, ptr, fresh, style, held, exposed, old, stash, freed>>
  BY <1>0 DEF StashGen, GenNext, Goto, stashVars, TypeOK, GenTypeOK
<1>2. TypeOK'
  <2>1. gen' \in 1 .. MaxGen /\ gen' \in 0 .. MaxGen
    BY <1>0, <1>1 DEF TypeOK, GenTypeOK
  <2> QED
    BY <1>0, <1>1, <2>1 DEF TypeOK, GenTypeOK
<1>3. \A t \in Sessions : Entries(t)' = Entries(t)
  BY <1>1 DEF Entries
<1>4. LinkedApart'
  BY <1>0, <1>1, <1>3 DEF LinkedApart
<1>5. ASSUME NEW t \in Sessions PROVE HeldInside(t)'
  <2>1. HeldInside(t)
    BY DEF IInv
  <2> QED
    BY <1>0, <1>1, <2>1, SMTT(60) DEF HeldInside, TypeOK, GenTypeOK
<1>6. ASSUME NEW r \in Sessions, NEW t \in Sessions, Protected(r)'
      PROVE  Covered(r, t)'
  <2>1. Covered(r, t) /\ HeldInside(r)
    BY <1>1, <1>6 DEF IInv, Protected
  <2>2. CASE t = s
    <3>1. sgen[r] <= gen'
      <4>1. sgen[r] \in Int /\ gen \in Int /\ gen' \in Int /\ gen <= gen'
        BY <1>0, <1>1 DEF TypeOK, GenTypeOK
      <4>2. sgen[r] <= gen
        BY <2>1 DEF HeldInside
      <4> QED
        BY <4>1, <4>2
    <3>2. pc'[s] = "stash" /\ tmp'[s] = gen'
      BY <1>0, <1>1 DEF TypeOK, GenTypeOK
    <3> QED
      BY <1>1, <1>3, <2>1, <2>2, <3>1, <3>2 DEF Covered
  <2>3. CASE t # s
    BY <1>0, <1>1, <1>3, <2>1, <2>3 DEF Covered, TypeOK, GenTypeOK
  <2> QED
    BY <2>2, <2>3
<1> QED
  BY <1>1, <1>2, <1>4, <1>5, <1>6 DEF IInv, Protected

\* Stashing turns the promise of the unlinked object into one of the entry.
LEMMA StashAddIInv ==
  ASSUME IInv, NEW s \in Sessions, StashAdd(s)
  PROVE  IInv'
<1> USE GenAssumption DEF NoStore, None
<1> DEFINE new == [obj |-> old[s], gen |-> tmp[s]]
<1>0. TypeOK /\ LinkedApart
  BY DEF IInv
<1>1. /\ pc[s] = "stash"
      /\ stash' = [stash EXCEPT ![s] = Append(@, new)]
      /\ old' = [old EXCEPT ![s] = 0]
      /\ UNCHANGED <<gen, sgen, buf, tmp, slot, ptr, fresh, style, held, exposed, freed>>
  BY DEF StashAdd
<1>2. \E p \in {"idle", "advance", "discard"} :
        pc' = [pc EXCEPT ![s] = p] /\ (p = "advance" => sgen[s] # 0 /\ style = "split")
                                  /\ (p = "idle" => style = "hazard" \/ sgen[s] = 0)
  BY <1>0, StashAssumption DEF StashAdd, Goto, AfterStash, TypeOK
<1>3. new \in [obj : Nat, gen : Nat]
  BY <1>0 DEF TypeOK, GenTypeOK
<1>4. TypeOK'
  <2>1. pc' \in [Sessions -> GenSteps \cup {"swapped", "stash", "advance"}]
    BY <1>0, <1>2 DEF TypeOK, GenSteps
  <2>2. stash' \in [Sessions -> Seq([obj : Nat, gen : Nat])]
    BY <1>0, <1>1, <1>3 DEF TypeOK
  <2> QED
    BY <1>0, <1>1, <2>1, <2>2 DEF TypeOK, GenTypeOK
<1>5. \A t \in Sessions : Entries(t)' = IF t = s THEN Entries(t) \cup {new} ELSE Entries(t)
  <2>1. stash[s] \in Seq([obj : Nat, gen : Nat]) /\ stash'[s] = Append(stash[s], new)
    BY <1>0, <1>1 DEF TypeOK
  <2>2. Len(stash'[s]) = Len(stash[s]) + 1 /\ Len(stash[s]) \in Nat
    BY <1>3, <2>1
  <2>3. \A i \in 1 .. Len(stash[s]) : stash'[s][i] = stash[s][i]
    BY <1>3, <2>1
  <2>4. stash'[s][Len(stash[s]) + 1] = new
    BY <1>3, <2>1
  <2>5. Entries(s)' = Entries(s) \cup {new}
    BY <2>2, <2>3, <2>4, SMTT(60) DEF Entries
  <2>6. \A t \in Sessions : t # s => Entries(t)' = Entries(t)
    BY <1>0, <1>1 DEF Entries, TypeOK
  <2> QED
    BY <2>5, <2>6
<1>6. LinkedApart'
  <2>1. new.obj = old[s]
    OBVIOUS
  <2>2. ASSUME NEW t \in Sessions
        PROVE  \A e \in Entries(t)' : e.obj < fresh /\ \A d \in Cells : ptr[d] # e.obj
    BY <1>0, <1>5, <2>1 DEF LinkedApart
  <2>3. \A t \in Sessions : old'[t] = IF t = s THEN 0 ELSE old[t]
    BY <1>0, <1>1 DEF TypeOK
  <2>4. \A d \in Cells : ptr[d] \in Nat /\ ptr[d] # 0
    BY <1>0 DEF LinkedApart, TypeOK
  <2>5. 0 < fresh
    BY <1>0, CellsNonempty DEF LinkedApart, TypeOK
  <2> QED
    BY <1>0, <1>1, <2>2, <2>3, <2>4, <2>5 DEF LinkedApart
<1>7. ASSUME NEW t \in Sessions PROVE HeldInside(t)'
  <2>1. HeldInside(t)
    BY DEF IInv
  <2>2. PICK p \in {"idle", "advance", "discard"} :
          pc' = [pc EXCEPT ![s] = p] /\ (p = "advance" => sgen[s] # 0 /\ style = "split")
                                    /\ (p = "idle" => style = "hazard" \/ sgen[s] = 0)
    BY <1>2
  <2>3. CASE t = s
    BY <1>0, <1>1, <2>1, <2>2, <2>3 DEF HeldInside, TypeOK, GenTypeOK
  <2>4. CASE t # s
    BY <1>0, <1>1, <2>1, <2>2, <2>4 DEF HeldInside, TypeOK
  <2> QED
    BY <2>3, <2>4
<1>8. ASSUME NEW r \in Sessions, NEW t \in Sessions, Protected(r)'
      PROVE  Covered(r, t)'
  <2>1. Covered(r, t)
    BY <1>1, <1>8 DEF IInv, Protected
  <2>2. new.obj = old[s] /\ new.gen = tmp[s]
    OBVIOUS
  <2>3. pc'[s] # "stash" /\ pc'[s] # "oldest" /\ (t # s => pc'[t] = pc[t])
    BY <1>0, <1>2 DEF TypeOK
  <2>4. CASE t = s
    BY <1>1, <1>5, <2>1, <2>2, <2>3, <2>4 DEF Covered
  <2>5. CASE t # s
    <3>1. old'[t] = old[t]
      BY <1>0, <1>1, <2>5 DEF TypeOK
    <3> QED
      BY <1>1, <1>5, <2>1, <2>3, <2>5, <3>1 DEF Covered
  <2> QED
    BY <2>4, <2>5
<1> QED
  BY <1>1, <1>4, <1>6, <1>7, <1>8 DEF IInv, Protected

\* A step of a session that only moves it on, and perhaps advances the
\* generation, changes nothing that the invariant relates.
LEMMA MoveIInv ==
  ASSUME IInv, NEW s \in Sessions, SplitNext(s) \/ Release(s)
  PROVE  IInv'
<1> USE GenAssumption DEF NoStore, None
<1>0. TypeOK /\ LinkedApart
  BY DEF IInv
<1>1. /\ gen' \in gen .. MaxGen
      /\ UNCHANGED <<sgen, buf, tmp, slot, ptr, fresh, style, held, exposed, old, stash, freed>>
  BY <1>0 DEF SplitNext, Release, GenNext, stashVars, TypeOK, GenTypeOK
<1>2. \/ pc[s] = "advance" /\ pc' = [pc EXCEPT ![s] = "inside"]
      \/ pc[s] = "idle" /\ pc' = [pc EXCEPT ![s] = "discard"]
  BY DEF SplitNext, Release, Goto
<1>3. TypeOK'
  <2>1. pc' \in [Sessions -> GenSteps \cup {"swapped", "stash", "advance"}]
    BY <1>0, <1>2 DEF TypeOK, GenSteps
  <2>2. gen' \in 1 .. MaxGen
    BY <1>0, <1>1 DEF TypeOK, GenTypeOK
  <2> QED
    BY <1>0, <1>1, <2>1, <2>2 DEF TypeOK, GenTypeOK
<1>4. \A t \in Sessions : Entries(t)' = Entries(t)
  BY <1>1 DEF Entries
<1>5. LinkedApart'
  BY <1>0, <1>1, <1>4 DEF LinkedApart
<1>6. ASSUME NEW t \in Sessions PROVE HeldInside(t)'
  <2>1. HeldInside(t)
    BY DEF IInv
  <2>2. sgen[t] <= gen' /\ tmp[t] <= gen'
    BY <1>0, <1>1, <2>1, SMTT(60) DEF HeldInside, TypeOK, GenTypeOK
  <2> QED
    BY <1>0, <1>1, <1>2, <2>1, <2>2, SMTT(40) DEF HeldInside, TypeOK, GenTypeOK
<1>7. ASSUME NEW r \in Sessions, NEW t \in Sessions, Protected(r)'
      PROVE  Covered(r, t)'
  <2>1. Covered(r, t)
    BY <1>1, <1>7 DEF IInv, Protected
  <2>2. (pc'[t] = "stash" => pc[t] = "stash") /\ (pc'[t] = "oldest" => pc[t] = "oldest")
    BY <1>0, <1>2 DEF TypeOK
  <2> QED
    BY <1>1, <1>4, <2>1, <2>2 DEF Covered
<1> QED
  BY <1>1, <1>3, <1>5, <1>6, <1>7 DEF IInv, Protected

\* The scan for the oldest generation takes the generation of every session it
\* passes into account.
LEMMA OldestIInv ==
  ASSUME IInv, NEW s \in Sessions, Oldest(s)
  PROVE  IInv'
<1> USE GenAssumption DEF NoStore, None
<1>0. TypeOK /\ LinkedApart
  BY DEF IInv
<1>1. UNCHANGED <<gen, sgen, buf, ptr, fresh, style, held, exposed, old, stash, freed>>
  BY DEF Oldest, OldestStart, OldestSlot, stashVars
<1>2. \A t \in Sessions : Entries(t)' = Entries(t)
  BY <1>1 DEF Entries
<1>3. LinkedApart'
  BY <1>0, <1>1, <1>2 DEF LinkedApart
<1>4. CASE OldestStart(s)
  <2>1. /\ pc[s] = "discard" /\ pc' = [pc EXCEPT ![s] = "oldest"]
        /\ tmp' = [tmp EXCEPT ![s] = gen] /\ slot' = [slot EXCEPT ![s] = 1]
    BY <1>4 DEF OldestStart, Goto
  <2>2. TypeOK'
    <3>1. pc' \in [Sessions -> GenSteps \cup {"swapped", "stash", "advance"}]
      BY <1>0, <2>1 DEF TypeOK, GenSteps
    <3>2. gen \in 0 .. MaxGen /\ 1 \in 1 .. N + 1
      BY <1>0 DEF TypeOK, GenTypeOK
    <3>3. tmp' \in [Sessions -> 0 .. MaxGen] /\ slot' \in [Sessions -> 1 .. N + 1]
      BY <1>0, <2>1, <3>2 DEF TypeOK, GenTypeOK
    <3> QED
      BY <1>0, <1>1, <3>1, <3>3 DEF TypeOK, GenTypeOK
  <2>3. ASSUME NEW t \in Sessions PROVE HeldInside(t)'
    <3>1. HeldInside(t)
      BY DEF IInv
    <3> QED
      BY <1>0, <1>1, <2>1, <3>1, SMTT(60) DEF HeldInside, TypeOK, GenTypeOK
  <2>4. ASSUME NEW r \in Sessions, NEW t \in Sessions, Protected(r)'
        PROVE  Covered(r, t)'
    <3>1. Covered(r, t)
      BY <1>1, <2>4 DEF IInv, Protected
    <3>2. CASE t = s
      <4>1. pc'[s] = "oldest" /\ ~(r < slot'[s])
        BY <1>0, <2>1 DEF TypeOK, GenTypeOK, Sessions
      <4> QED
        BY <1>1, <1>2, <3>1, <3>2, <4>1 DEF Covered
    <3>3. CASE t # s
      BY <1>0, <1>1, <1>2, <2>1, <3>1, <3>3 DEF Covered, TypeOK, GenTypeOK
    <3> QED
      BY <3>2, <3>3
  <2> QED
    BY <1>1, <1>3, <2>2, <2>3, <2>4 DEF IInv, Protected
<1>5. CASE OldestSlot(s)
  <2>1. /\ pc[s] = "oldest" /\ pc' = pc /\ slot[s] \in Sessions
        /\ tmp' = [tmp EXCEPT ![s] = OldestOf(sgen[slot[s]], tmp[s])]
        /\ slot' = [slot EXCEPT ![s] = slot[s] + 1]
    BY <1>0, <1>5 DEF OldestSlot, TypeOK, GenTypeOK, Sessions
  <2>2. /\ OldestOf(sgen[slot[s]], tmp[s]) \in 0 .. MaxGen
        /\ OldestOf(sgen[slot[s]], tmp[s]) <= tmp[s]
        /\ sgen[slot[s]] # 0 => OldestOf(sgen[slot[s]], tmp[s]) <= sgen[slot[s]]
    BY <1>0, <2>1, SMTT(60) DEF OldestOf, TypeOK, GenTypeOK
  <2>3. TypeOK'
    <3>1. slot[s] + 1 \in 1 .. N + 1
      BY <2>1 DEF Sessions
    <3> QED
      BY <1>0, <1>1, <2>1, <2>2, <3>1 DEF TypeOK, GenTypeOK
  <2>4. ASSUME NEW t \in Sessions PROVE HeldInside(t)'
    <3>1. HeldInside(t)
      BY DEF IInv
    <3>2. tmp'[t] <= gen
      BY <1>0, <2>1, <2>2, <3>1 DEF HeldInside, TypeOK, GenTypeOK
    <3> QED
      BY <1>0, <1>1, <2>1, <3>1, <3>2 DEF HeldInside, TypeOK, GenTypeOK
  <2>5. ASSUME NEW r \in Sessions, NEW t \in Sessions, Protected(r)'
        PROVE  Covered(r, t)'
    <3>1. Covered(r, t) /\ HeldInside(r) /\ Protected(r)
      BY <1>1, <2>5 DEF IInv, Protected
    <3>2. sgen[r] > 0
      BY <1>0, <3>1 DEF HeldInside, Protected, TypeOK, GenTypeOK
    <3>3. CASE t = s
      <4>1. ASSUME NEW e \in Entries(s), held[r] = e.obj, r < slot'[s]
            PROVE  tmp'[s] <= sgen[r]
        <5>1. tmp'[s] <= tmp[s] /\ tmp'[s] \in Int /\ tmp[s] \in Int /\ sgen[r] \in Int
          BY <1>0, <2>1, <2>2 DEF TypeOK, GenTypeOK
        <5>2. CASE r = slot[s]
          BY <1>0, <2>1, <2>2, <3>2, <5>2 DEF TypeOK, GenTypeOK
        <5>3. CASE r # slot[s]
          <6>1. r < slot[s]
            <7>1. r \in Int /\ slot[s] \in Int
              BY <2>1 DEF Sessions
            <7>2. slot'[s] = slot[s] + 1
              BY <1>0, <2>1 DEF TypeOK, GenTypeOK
            <7> QED
              BY <4>1, <5>3, <7>1, <7>2
          <6>2. tmp[s] <= sgen[r]
            BY <2>1, <3>1, <3>3, <4>1, <6>1 DEF Covered
          <6> QED
            BY <5>1, <6>2
        <5> QED
          BY <5>2, <5>3
      <4> QED
        BY <1>1, <1>2, <2>1, <3>1, <3>3, <4>1 DEF Covered
    <3>4. CASE t # s
      BY <1>0, <1>1, <1>2, <2>1, <3>1, <3>4 DEF Covered, TypeOK, GenTypeOK
    <3> QED
      BY <3>3, <3>4
  <2> QED
    BY <1>1, <1>3, <2>3, <2>4, <2>5 DEF IInv, Protected
<1> QED
  BY <1>4, <1>5 DEF Oldest

\* What is freed was stashed in a generation older than that of every session
\* inside, so that none of them can hold it.
LEMMA DiscardIInv ==
  ASSUME IInv, NEW s \in Sessions, Discard(s)
  PROVE  IInv'
<1> USE GenAssumption DEF NoStore, None
<1>0. TypeOK /\ LinkedApart
  BY DEF IInv
<1>1. /\ pc[s] = "oldest" /\ slot[s] > N
      /\ UNCHANGED <<gen, sgen, buf, tmp, slot, ptr, fresh, style, held, exposed, old>>
  BY DEF Discard
<1>2. \E p \in {"idle", "advance"} :
        pc' = [pc EXCEPT ![s] = p] /\ (p = "advance" => sgen[s] # 0 /\ style = "split")
                                  /\ (p = "idle" => style = "hazard" \/ sgen[s] = 0)
  BY <1>0, StashAssumption DEF Discard, Goto, AfterStash, TypeOK
<1>3. PICK k \in 0 .. Len(stash[s]) :
         /\ \A i \in 1 .. k : stash[s][i].gen < tmp[s]
         /\ freed' = freed \cup {stash[s][i].obj : i \in 1 .. k}
         /\ stash' = [stash EXCEPT ![s] = SubSeq(stash[s], k + 1, Len(stash[s]))]
  BY <1>0 DEF Discard, Discardable, Remaining, TypeOK
<1>4. /\ stash[s] \in Seq([obj : Nat, gen : Nat]) /\ Len(stash[s]) \in Nat
      /\ stash'[s] = SubSeq(stash[s], k + 1, Len(stash[s]))
  <2>1. stash \in [Sessions -> Seq([obj : Nat, gen : Nat])]
    BY <1>0 DEF TypeOK
  <2>2. stash[s] \in Seq([obj : Nat, gen : Nat])
    BY <2>1
  <2> QED
    BY <1>3, <2>1, <2>2
<1>5. /\ Len(stash'[s]) = Len(stash[s]) - k
      /\ \A i \in 1 .. Len(stash[s]) - k : stash'[s][i] = stash[s][i + k]
      /\ stash'[s] \in Seq([obj : Nat, gen : Nat])
  <2>1. /\ Len(SubSeq(stash[s], k + 1, Len(stash[s]))) = Len(stash[s]) - k
        /\ \A i \in 1 .. Len(stash[s]) - k :
             SubSeq(stash[s], k + 1, Len(stash[s]))[i] = stash[s][i + k]
        /\ SubSeq(stash[s], k + 1, Len(stash[s])) \in Seq([obj : Nat, gen : Nat])
    BY <1>4, SuffixOf, Zenon
  <2> QED
    BY <1>4, <2>1, Zenon
<1>6. \A t \in Sessions : Entries(t)' \subseteq Entries(t)
  <2>1. \A i \in 1 .. Len(stash[s]) - k : i + k \in 1 .. Len(stash[s])
    BY <1>4
  <2>2. Entries(s)' \subseteq Entries(s)
    BY <1>5, <2>1 DEF Entries
  <2>3. \A t \in Sessions : t # s => Entries(t)' = Entries(t)
    BY <1>0, <1>3 DEF Entries, TypeOK
  <2> QED
    BY <2>2, <2>3
<1>7. \A o \in freed' : o \in freed \/ \E e \in Entries(s) : o = e.obj /\ e.gen < tmp[s]
  <2>1. \A i \in 1 .. k : i \in 1 .. Len(stash[s])
    BY <1>4
  <2> QED
    BY <1>3, <2>1 DEF Entries
<1>8. TypeOK'
  <2>1. pc' \in [Sessions -> GenSteps \cup {"swapped", "stash", "advance"}]
    BY <1>0, <1>2 DEF TypeOK, GenSteps
  <2>2. stash' \in [Sessions -> Seq([obj : Nat, gen : Nat])]
    BY <1>0, <1>3, <1>4, <1>5 DEF TypeOK
  <2>3. freed' \subseteq Nat
    BY <1>0, <1>7, EntryType DEF TypeOK
  <2> QED
    BY <1>0, <1>1, <2>1, <2>2, <2>3 DEF TypeOK, GenTypeOK
<1>9. LinkedApart'
  <2>1. ASSUME NEW o \in freed' PROVE o < fresh /\ \A c \in Cells : ptr[c] # o
    BY <1>0, <1>7 DEF LinkedApart
  <2> QED
    BY <1>0, <1>1, <1>6, <2>1 DEF LinkedApart
<1>10. ASSUME NEW t \in Sessions PROVE HeldInside(t)'
  <2>1. HeldInside(t)
    BY DEF IInv
  <2>2. PICK p \in {"idle", "advance"} :
          pc' = [pc EXCEPT ![s] = p] /\ (p = "advance" => sgen[s] # 0 /\ style = "split")
                                    /\ (p = "idle" => style = "hazard" \/ sgen[s] = 0)
    BY <1>2
  <2>3. CASE t = s
    BY <1>0, <1>1, <2>1, <2>2, <2>3 DEF HeldInside, TypeOK, GenTypeOK
  <2>4. CASE t # s
    BY <1>0, <1>1, <2>1, <2>2, <2>4 DEF HeldInside, TypeOK
  <2> QED
    BY <2>3, <2>4
<1>11. ASSUME NEW r \in Sessions, NEW t \in Sessions, Protected(r)'
       PROVE  Covered(r, t)'
  <2>1. Covered(r, t)
    BY <1>1, <1>11 DEF IInv, Protected
  <2>2. (pc'[t] = "stash" => pc[t] = "stash") /\ (pc'[t] = "oldest" => pc[t] = "oldest")
    BY <1>0, <1>2 DEF TypeOK
  <2> QED
    BY <1>1, <1>6, <2>1, <2>2 DEF Covered
<1>12. ASSUME NEW r \in Sessions, Protected(r)' PROVE held'[r] \notin freed'
  <2>1. Covered(r, s) /\ held[r] \notin freed
    BY <1>1, <1>12 DEF IInv, Protected
  <2>2. r < slot[s] /\ sgen[r] \in Int /\ tmp[s] \in Int
    <3>1. slot[s] \in 1 .. N + 1 /\ sgen[r] \in Int /\ tmp[s] \in Int
      BY <1>0 DEF TypeOK, GenTypeOK
    <3> QED
      BY <1>1, <3>1 DEF Sessions
  <2>3. ASSUME NEW e \in Entries(s), held[r] = e.obj, e.gen < tmp[s]
        PROVE  FALSE
    <3>1. sgen[r] <= e.gen /\ tmp[s] <= sgen[r]
      BY <1>1, <2>1, <2>2, <2>3 DEF Covered
    <3>2. e.gen \in Nat
      BY <1>0, EntryType
    <3> QED
      BY <2>2, <2>3, <3>1, <3>2
  <2> QED
    BY <1>1, <1>7, <2>1, <2>3
<1> QED
  BY <1>1, <1>8, <1>9, <1>10, <1>11, <1>12 DEF IInv

\* Every step preserves the invariant.
LEMMA NextIInv ==
  ASSUME IInv, [Next]_vars
  PROVE  IInv'
<1>1. CASE UNCHANGED vars
  <2>1. UNCHANGED <<gen, sgen, buf, pc, tmp, slot, ptr, fresh, style, held, exposed, old, stash, freed>>
    BY <1>1 DEF vars, genVars, stashVars
  <2>2. \A t \in Sessions : Entries(t)' = Entries(t)
    BY <2>1 DEF Entries
  <2>3. TypeOK'
    BY <2>1 DEF IInv, TypeOK, GenTypeOK
  <2>4. LinkedApart'
    BY <2>1, <2>2 DEF IInv, LinkedApart
  <2>5. \A t \in Sessions : HeldInside(t)'
    BY <2>1 DEF IInv, HeldInside
  <2>6. \A r, t \in Sessions : Protected(r) => Covered(r, t)'
    BY <2>1, <2>2 DEF IInv, Covered
  <2> QED
    BY <2>1, <2>3, <2>4, <2>5, <2>6 DEF IInv, Protected
<1>2. ASSUME NEW s \in Readers,
             Enter(s) \/ LeaveResource(s) \/ \E c \in Cells : ReadPointer(s, c)
      PROVE  IInv'
  <2>1. s \in Sessions
    BY StashAssumption
  <2> QED
    BY <1>2, <2>1, EnterIInv, FlushIInv, LeaveIInv, ReadIInv DEF Enter
<1>3. ASSUME NEW s \in Replacers,
             \/ \E c \in Cells : Swap(s, c)
             \/ StashGen(s) \/ StashAdd(s) \/ SplitNext(s)
             \/ Release(s) \/ Oldest(s) \/ Discard(s)
      PROVE  IInv'
  <2>1. s \in Sessions
    BY StashAssumption
  <2> QED
    BY <1>3, <2>1, SwapIInv, StashGenIInv, StashAddIInv, MoveIInv, OldestIInv, DiscardIInv
<1> QED
  BY <1>1, <1>2, <1>3 DEF Next

\* Nothing that a session read with its generation visible to the others is freed while
\* the session uses it, nor anything that can still be read: with any number of
\* sessions, generations and objects, for both users, and although stores are delayed.
THEOREM StashSafe == Spec => []ProtectedKept
<1>1. IInv => ProtectedKept
  BY DEF IInv, LinkedApart, ProtectedKept
<1>2. IInv /\ [Next]_vars => IInv'
  BY NextIInv
<1> QED
  BY <1>1, <1>2, InitIInv, PTL DEF Spec

---------------------------------------------------------------------------
(* Every object is in one place.  This needs nothing of the generations, and *)
(* so holds whether stores are delayed or not.                               *)

\* The objects allocated so far.
Objects == 1 .. fresh - 1

\* Session s has object o in entry i of its stash.
Stashed(s, i, o) == i \in 1 .. Len(stash[s]) /\ stash[s][i].obj = o

\* Where the places are, and that a session has an unlinked object exactly while
\* it is about to stash it: a replacer that began again with one would lose it.
PlaceType ==
    /\ GenTypeOK
    /\ ptr \in [Cells -> Objects] /\ fresh \in Nat /\ fresh > 0
    /\ old \in [Sessions -> Objects \cup {None}]
    /\ stash \in [Sessions -> Seq([obj : Nat, gen : Nat])]
    /\ freed \subseteq Objects
    /\ pc \in [Sessions -> GenSteps \cup {"swapped", "stash", "advance"}]
    /\ \A s \in Sessions, i \in Nat, o \in Nat : Stashed(s, i, o) => o \in Objects
    /\ \A s \in Sessions : old[s] # None <=> pc[s] \in {"swapped", "stash"}

\* No object is in two places.
Unique ==
    /\ \A c, d \in Cells : ptr[c] = ptr[d] => c = d
    /\ \A s, t \in Sessions : old[s] # None /\ old[s] = old[t] => s = t
    /\ \A s, t \in Sessions, i, j \in Nat, o \in Objects :
         Stashed(s, i, o) /\ Stashed(t, j, o) => s = t /\ i = j
    /\ \A c \in Cells : ptr[c] \notin freed
    /\ \A c \in Cells, s \in Sessions : ptr[c] # old[s] /\ old[s] \notin freed
    /\ \A s, t \in Sessions, i \in Nat, o \in Objects : Stashed(s, i, o) =>
         o # old[t] /\ o \notin freed /\ \A c \in Cells : ptr[c] # o

\* Every object is in some place.
Kept ==
    \A o \in Objects :
       \/ \E c \in Cells : ptr[c] = o
       \/ \E s \in Sessions : old[s] = o
       \/ \E s \in Sessions, i \in Nat : Stashed(s, i, o)
       \/ o \in freed

PlaceInv == PlaceType /\ Unique /\ Kept

\* Objects have numbers other than None.
LEMMA ObjectsNat ==
  ASSUME fresh \in Nat
  PROVE  Objects \subseteq Nat \ {0}
BY DEF Objects

\* The invariant implies the property.
LEMMA PlaceInvOne == PlaceInv => InOnePlace
<1> SUFFICES ASSUME PlaceInv, NEW o \in Objects
             PROVE  \/ Places(o) = {} /\ \E c \in Cells : {d \in Cells : ptr[d] = o} = {c}
                    \/ (\E e \in Places(o) : Places(o) = {e}) /\ \A c \in Cells : ptr[c] # o
  BY DEF InOnePlace, Objects
<1> USE GenAssumption DEF PlaceInv
<1>0. o \in Nat /\ o # 0
  BY ObjectsNat DEF PlaceType
<1>1. \A e : e \in Places(o) <=>
        \/ \E s \in Sessions : e = <<s, 0>> /\ old[s] = o
        \/ \E s \in Sessions, i \in Nat : e = <<s, i>> /\ Stashed(s, i, o)
        \/ e = <<0, 0>> /\ o \in freed
  <2>1. \A s \in Sessions : Len(stash[s]) \in Nat
    BY DEF PlaceType
  <2>2. \A e : e \in Places(o) <=>
        \/ \E s \in Sessions : e = <<s, 0>> /\ old[s] = o
        \/ \E s \in Sessions : \E i \in 1 .. Len(stash[s]) : e = <<s, i>> /\ stash[s][i].obj = o
        \/ e = <<0, 0>> /\ o \in freed
    <3>1. \A e : e \in Unlinked(o) <=> \E s \in Sessions : e = <<s, 0>> /\ old[s] = o
      BY Zenon DEF Unlinked
    <3>2. \A s \in Sessions : \A e : e \in StashedBy(s, o) <=>
            \E i \in 1 .. Len(stash[s]) : e = <<s, i>> /\ stash[s][i].obj = o
      BY Zenon DEF StashedBy
    <3>3. \A e : e \in Places(o) <=>
            \/ e \in Unlinked(o)
            \/ \E s \in Sessions : e \in StashedBy(s, o)
            \/ e = <<0, 0>> /\ o \in freed
      <4> TAKE e
      <4>1. e \in {<<0, 0>> : f \in freed \cap {o}} <=> e = <<0, 0>> /\ o \in freed
        BY Zenon
      <4>2. e \in UNION {StashedBy(s, o) : s \in Sessions} <=>
              \E s \in Sessions : e \in StashedBy(s, o)
        BY Zenon
      <4> QED
        BY <4>1, <4>2 DEF Places
    <3> TAKE e
    <3> QED
      BY <3>1, <3>2, <3>3
  <2>3. \A s \in Sessions : \A i \in 1 .. Len(stash[s]) : i \in Nat
    BY <2>1
  <2> QED
    BY <2>2, <2>3, Zenon DEF Stashed
<1>2. CASE \E c \in Cells : ptr[c] = o
  <2>1. PICK c \in Cells : ptr[c] = o
    BY <1>2
  <2>2. {d \in Cells : ptr[d] = o} = {c}
    BY <2>1 DEF Unique
  <2>3. Places(o) = {}
    BY <1>0, <1>1, <2>1 DEF Unique
  <2> QED
    BY <2>2, <2>3
<1>3. CASE \E s \in Sessions : old[s] = o
  <2>1. PICK s \in Sessions : old[s] = o
    BY <1>3
  <2>2. <<s, 0>> \in Places(o)
    BY <1>1, <2>1
  <2>3. \A t \in Sessions : old[t] = o => t = s
    BY <1>0, <2>1 DEF Unique, None
  <2>4. o \notin freed /\ \A t \in Sessions, i \in Nat : ~ Stashed(t, i, o)
    BY <2>1, CellsNonempty DEF Unique
  <2>5. Places(o) = {<<s, 0>>}
    BY <1>1, <2>2, <2>3, <2>4
  <2>6. \A c \in Cells : ptr[c] # o
    BY <2>1 DEF Unique
  <2> QED
    BY <2>2, <2>5, <2>6
<1>4. CASE \E s \in Sessions, i \in Nat : Stashed(s, i, o)
  <2>1. PICK s \in Sessions, i \in Nat : Stashed(s, i, o)
    BY <1>4
  <2>2. <<s, i>> \in Places(o)
    BY <1>1, <2>1
  <2>3. \A t \in Sessions, j \in Nat : Stashed(t, j, o) => t = s /\ j = i
    BY <2>1 DEF Unique
  <2>4. o \notin freed /\ \A t \in Sessions : old[t] # o
    BY <2>1 DEF Unique
  <2>5. Places(o) = {<<s, i>>}
    BY <1>1, <2>2, <2>3, <2>4
  <2>6. \A c \in Cells : ptr[c] # o
    BY <2>1 DEF Unique
  <2> QED
    BY <2>2, <2>5, <2>6
<1>5. CASE o \in freed
  <2>1. <<0, 0>> \in Places(o)
    BY <1>1, <1>5
  <2>2. \A t \in Sessions : old[t] # o /\ \A i \in Nat : ~ Stashed(t, i, o)
    BY <1>5, CellsNonempty DEF Unique
  <2>3. Places(o) = {<<0, 0>>}
    BY <1>1, <2>1, <2>2
  <2>4. \A c \in Cells : ptr[c] # o
    BY <1>5 DEF Unique
  <2> QED
    BY <2>1, <2>3, <2>4
<1> QED
  BY <1>2, <1>3, <1>4, <1>5 DEF Kept

\* In the beginning every object is in its cell.
LEMMA InitPlace == Init => PlaceInv
<1> SUFFICES ASSUME Init PROVE PlaceInv
  OBVIOUS
<1> USE GenAssumption DEF Init, GenInit, None
<1>1. /\ Objects = 1 .. N + 1 /\ Cells = 0 .. N /\ fresh > 0
      /\ \A c \in Cells : c + 1 \in Objects
      /\ \A o \in Objects : o - 1 \in Cells /\ (o - 1) + 1 = o
      /\ \A c, d \in Cells : c + 1 = d + 1 => c = d
  BY DEF Objects, Cells, Sessions, PageIndex
<1>2. \A s \in Sessions, i \in Nat, o \in Nat : ~ Stashed(s, i, o)
  BY DEF Stashed
<1>3. \A c \in Cells : ptr[c] = c + 1
  OBVIOUS
<1>4. PlaceType
  <2>1. stash \in [Sessions -> Seq([obj : Nat, gen : Nat])]
    OBVIOUS
  <2>2. ptr \in [Cells -> Objects]
    BY <1>1
  <2>3. GenTypeOK
    BY DEF GenTypeOK, NoStore, Sessions
  <2> QED
    BY <1>1, <1>2, <2>1, <2>2, <2>3 DEF PlaceType, GenSteps
<1>5. Unique
  BY <1>1, <1>2, <1>3 DEF Unique
<1>6. Kept
  BY <1>1, <1>3 DEF Kept
<1> QED
  BY <1>4, <1>5, <1>6 DEF PlaceInv

\* A step that leaves the objects alone, and its session with or without an
\* unlinked one as before.
LEMMA FramePlace ==
  ASSUME PlaceInv, UNCHANGED <<ptr, fresh, old, stash, freed>>,
         GenTypeOK',
         NEW s \in Sessions, NEW p \in GenSteps \cup {"swapped", "stash", "advance"},
         pc' = [pc EXCEPT ![s] = p],
         p \in {"swapped", "stash"} <=> pc[s] \in {"swapped", "stash"}
  PROVE  PlaceInv'
<1>1. Objects' = Objects /\ \A t, i, o : Stashed(t, i, o)' <=> Stashed(t, i, o)
  BY DEF Objects, Stashed
<1>2. /\ pc' \in [Sessions -> GenSteps \cup {"swapped", "stash", "advance"}]
      /\ \A t \in Sessions : pc'[t] \in {"swapped", "stash"} <=> pc[t] \in {"swapped", "stash"}
  BY DEF PlaceInv, PlaceType
<1>3. PlaceType'
  BY <1>1, <1>2 DEF PlaceInv, PlaceType
<1>4. Unique'
  BY <1>1 DEF PlaceInv, Unique
<1>5. Kept'
  BY <1>1 DEF PlaceInv, Kept
<1> QED
  BY <1>3, <1>4, <1>5 DEF PlaceInv

\* The replacer has nothing unlinked yet, and what it links is new.
LEMMA SwapPlace ==
  ASSUME PlaceInv, NEW s \in Sessions, NEW c \in Cells, Swap(s, c)
  PROVE  PlaceInv'
<1> USE GenAssumption DEF None
<1>0. PlaceType /\ Unique /\ Kept
  BY DEF PlaceInv
<1>1. /\ ptr' = [ptr EXCEPT ![c] = fresh] /\ fresh' = fresh + 1
      /\ old' = [old EXCEPT ![s] = ptr[c]] /\ pc' = [pc EXCEPT ![s] = "swapped"]
      /\ UNCHANGED <<gen, sgen, buf, tmp, slot, stash, freed>>
      /\ pc[s] \in {"idle", "inside"}
  BY DEF Swap, Goto, MayReplace
<1>2. old[s] = 0
  BY <1>0, <1>1 DEF PlaceType
<1>3. Objects' = Objects \cup {fresh} /\ fresh \notin Objects /\ Objects \subseteq Nat \ {0}
  <2>1. fresh \in Nat /\ fresh > 0 /\ fresh' = fresh + 1
    BY <1>0, <1>1 DEF PlaceType
  <2>2. 1 .. fresh' - 1 = (1 .. fresh - 1) \cup {fresh}
    BY <2>1
  <2>3. fresh \notin Objects
    BY <2>1 DEF Objects
  <2> QED
    BY <2>1, <2>2, <2>3, ObjectsNat DEF Objects
<1>4. \A t, i, o : Stashed(t, i, o)' <=> Stashed(t, i, o)
  BY <1>1 DEF Stashed
<1>5. \A d \in Cells : ptr'[d] = IF d = c THEN fresh ELSE ptr[d]
  BY <1>0, <1>1 DEF PlaceType
<1>6. \A t \in Sessions : old'[t] = IF t = s THEN ptr[c] ELSE old[t]
  BY <1>0, <1>1 DEF PlaceType
<1>7. /\ \A d \in Cells : ptr[d] \in Objects
      /\ \A t \in Sessions : old[t] \in Objects \cup {0}
      /\ freed \subseteq Objects
      /\ \A t \in Sessions, i \in Nat, o \in Nat : Stashed(t, i, o) => o \in Objects
  BY <1>0 DEF PlaceType
<1>8. /\ fresh \notin freed
      /\ \A d \in Cells : ptr[d] # fresh
      /\ \A t \in Sessions : old[t] # fresh
  <2>1. fresh # 0
    BY <1>0 DEF PlaceType
  <2> QED
    BY <1>3, <1>7, <2>1
<1>9. PlaceType'
  <2>1. ptr' \in [Cells -> Objects'] /\ old' \in [Sessions -> Objects' \cup {0}]
    BY <1>0, <1>1, <1>3 DEF PlaceType
  <2>2. \A t \in Sessions : old'[t] # 0 <=> pc'[t] \in {"swapped", "stash"}
    BY <1>0, <1>1, <1>3, <1>6, <1>7 DEF PlaceType
  <2>3. pc' \in [Sessions -> GenSteps \cup {"swapped", "stash", "advance"}]
    BY <1>0, <1>1 DEF PlaceType
  <2>4. fresh' \in Nat /\ fresh' > 0
    BY <1>0, <1>1 DEF PlaceType
  <2> QED
    BY <1>0, <1>1, <1>3, <1>4, <1>7, <2>1, <2>2, <2>3, <2>4 DEF PlaceType, GenTypeOK
<1>10. Unique'
  <2>1. \A d, e \in Cells : ptr'[d] = ptr'[e] => d = e
    BY <1>0, <1>3, <1>5, <1>7 DEF Unique
  <2>2. \A t, u \in Sessions : old'[t] # 0 /\ old'[t] = old'[u] => t = u
    BY <1>0, <1>6 DEF Unique
  <2>3. \A t, u \in Sessions, i, j \in Nat, o \in Objects' :
          Stashed(t, i, o)' /\ Stashed(u, j, o)' => t = u /\ i = j
    BY <1>0, <1>1, <1>3, <1>4, <1>7 DEF Unique, PlaceType
  <2>4. \A d \in Cells : ptr'[d] \notin freed'
    BY <1>0, <1>1, <1>5, <1>8 DEF Unique
  <2>5. \A d \in Cells, t \in Sessions : ptr'[d] # old'[t] /\ old'[t] \notin freed'
    BY <1>0, <1>1, <1>5, <1>6, <1>8 DEF Unique
  <2>6. ASSUME NEW t \in Sessions, NEW u \in Sessions, NEW i \in Nat, NEW o \in Objects',
               Stashed(t, i, o)'
        PROVE  o # old'[u] /\ o \notin freed' /\ \A d \in Cells : ptr'[d] # o
    <3>1. Stashed(t, i, o) /\ o \in Objects
      <4>1. fresh \in Nat
        BY <1>0 DEF PlaceType
      <4> QED
        BY <1>3, <1>4, <1>7, <2>6, <4>1
    <3>2. o # fresh
      BY <1>3, <3>1
    <3> QED
      BY <1>0, <1>1, <1>5, <1>6, <3>1, <3>2 DEF Unique
  <2> QED
    BY <2>1, <2>2, <2>3, <2>4, <2>5, <2>6 DEF Unique
<1>11. Kept'
  <2> SUFFICES ASSUME NEW o \in Objects'
               PROVE  \/ \E d \in Cells : ptr'[d] = o
                      \/ \E t \in Sessions : old'[t] = o
                      \/ \E t \in Sessions, i \in Nat : Stashed(t, i, o)'
                      \/ o \in freed'
    BY DEF Kept
  <2>1. CASE o = fresh
    BY <1>5, <2>1
  <2>2. CASE o = ptr[c]
    BY <1>6, <2>2
  <2>3. CASE o # fresh /\ o # ptr[c]
    <3>1. o \in Objects /\ o # 0
      BY <1>3, <2>3
    <3>2. CASE \E d \in Cells : ptr[d] = o
      BY <1>5, <2>3, <3>2
    <3>3. CASE \E t \in Sessions : old[t] = o
      BY <1>2, <1>6, <3>1, <3>3
    <3>4. CASE o \in freed \/ \E t \in Sessions, i \in Nat : Stashed(t, i, o)
      BY <1>1, <1>4, <3>4
    <3> QED
      BY <1>0, <3>1, <3>2, <3>3, <3>4 DEF Kept
  <2> QED
    BY <2>1, <2>2, <2>3
<1> QED
  BY <1>9, <1>10, <1>11 DEF PlaceInv

\* The unlinked object moves to the new last entry of the session's stash.
LEMMA StashAddPlace ==
  ASSUME PlaceInv, NEW s \in Sessions, StashAdd(s)
  PROVE  PlaceInv'
<1> USE GenAssumption DEF None
<1> DEFINE new == [obj |-> old[s], gen |-> tmp[s]]
           n == Len(stash[s]) + 1
<1>0. PlaceType /\ Unique /\ Kept
  BY DEF PlaceInv
<1>1. /\ pc[s] = "stash"
      /\ stash' = [stash EXCEPT ![s] = Append(@, new)]
      /\ old' = [old EXCEPT ![s] = 0]
      /\ UNCHANGED <<gen, sgen, buf, tmp, slot, ptr, fresh, freed>>
  BY DEF StashAdd
<1>2. PICK p \in {"idle", "advance", "discard"} : pc' = [pc EXCEPT ![s] = p]
  BY DEF StashAdd, Goto, AfterStash
<1>3. Objects' = Objects /\ Objects \subseteq Nat \ {0}
  BY <1>0, <1>1, ObjectsNat DEF Objects, PlaceType
<1>4. old[s] \in Objects
  BY <1>0, <1>1 DEF PlaceType
<1>5. new \in [obj : Nat, gen : Nat] /\ new.obj = old[s]
  <2>1. tmp[s] \in 0 .. MaxGen
    BY <1>0 DEF PlaceType, GenTypeOK
  <2>2. tmp[s] \in Nat
    BY <2>1
  <2>3. old[s] \in Nat
    <3>1. \A x \in Objects : x \in Nat
      BY <1>3
    <3> QED
      BY <1>4, <3>1
  <2> QED
    BY <2>2, <2>3
<1>6. n \in Nat /\ \A t \in Sessions, i \in Nat, o \in Nat :
        Stashed(t, i, o)' <=> Stashed(t, i, o) \/ (t = s /\ i = n /\ o = old[s])
  <2>1. stash[s] \in Seq([obj : Nat, gen : Nat]) /\ stash'[s] = Append(stash[s], new)
    BY <1>0, <1>1 DEF PlaceType
  <2> HIDE DEF new
  <2>2. Len(stash'[s]) = n /\ n \in Nat /\ n > 0 /\ Len(stash[s]) \in Nat
    BY <1>5, <2>1
  <2>3. \A i \in 1 .. Len(stash[s]) : stash'[s][i] = stash[s][i]
    BY <1>5, <2>1
  <2>4. stash'[s][n] = new
    BY <1>5, <2>1
  <2>5. \A i \in Nat, o \in Nat :
          Stashed(s, i, o)' <=> Stashed(s, i, o) \/ (i = n /\ o = old[s])
    <3>1. \A i \in Nat : i \in 1 .. n <=> i \in 1 .. Len(stash[s]) \/ i = n
      BY <2>2
    <3>2. n \notin 1 .. Len(stash[s])
      BY <2>2
    <3> HIDE DEF n
    <3> QED
      BY <1>5, <2>2, <2>3, <2>4, <3>1, <3>2, Zenon DEF Stashed
  <2>6. \A t \in Sessions : t # s => stash'[t] = stash[t]
    BY <1>0, <1>1 DEF PlaceType
  <2> QED
    BY <2>2, <2>5, <2>6 DEF Stashed
<1>7. \A i \in Nat, o \in Nat : Stashed(s, i, o) => i # n
  <2>1. Len(stash[s]) \in Nat
    BY <1>0 DEF PlaceType
  <2> QED
    BY <2>1 DEF Stashed
<1>8. \A t \in Sessions : old'[t] = IF t = s THEN 0 ELSE old[t]
  BY <1>0, <1>1 DEF PlaceType
<1>9. stash' \in [Sessions -> Seq([obj : Nat, gen : Nat])]
  BY <1>0, <1>1, <1>5 DEF PlaceType
<1> HIDE DEF new, n
<1>10. PlaceType'
  <2>1. old' \in [Sessions -> Objects' \cup {0}]
    BY <1>0, <1>1, <1>3 DEF PlaceType
  <2>2. \A t \in Sessions : old'[t] # 0 <=> pc'[t] \in {"swapped", "stash"}
    BY <1>0, <1>2, <1>8 DEF PlaceType
  <2>3. pc' \in [Sessions -> GenSteps \cup {"swapped", "stash", "advance"}]
    BY <1>0, <1>2 DEF PlaceType, GenSteps
  <2>4. \A t \in Sessions, i \in Nat, o \in Nat : Stashed(t, i, o)' => o \in Objects'
    BY <1>0, <1>3, <1>4, <1>6 DEF PlaceType
  <2> QED
    BY <1>0, <1>1, <1>3, <1>9, <2>1, <2>2, <2>3, <2>4 DEF PlaceType, GenTypeOK
<1>11. Unique'
  <2>1. \A t, u \in Sessions : old'[t] # 0 /\ old'[t] = old'[u] => t = u
    BY <1>0, <1>8 DEF Unique
  <2>2. ASSUME NEW t \in Sessions, NEW u \in Sessions, NEW i \in Nat, NEW j \in Nat,
               NEW o \in Objects', Stashed(t, i, o)', Stashed(u, j, o)'
        PROVE  t = u /\ i = j
    <3>1. o \in Objects /\ o \in Nat
      BY <1>3
    <3>2. /\ Stashed(t, i, o) \/ (t = s /\ i = n /\ o = old[s])
          /\ Stashed(u, j, o) \/ (u = s /\ j = n /\ o = old[s])
      BY <1>6, <2>2, <3>1
    <3> QED
      BY <1>0, <3>1, <3>2 DEF Unique
  <2>3. \A c \in Cells, t \in Sessions : ptr'[c] # old'[t] /\ old'[t] \notin freed'
    <3>1. \A c \in Cells : ptr[c] # 0
      BY <1>0, <1>3 DEF PlaceType
    <3>2. 0 \notin freed
      BY <1>0, <1>3 DEF PlaceType
    <3> QED
      BY <1>0, <1>1, <1>8, <3>1, <3>2 DEF Unique
  <2>4. ASSUME NEW t \in Sessions, NEW u \in Sessions, NEW i \in Nat, NEW o \in Objects',
               Stashed(t, i, o)'
        PROVE  o # old'[u] /\ o \notin freed' /\ \A c \in Cells : ptr'[c] # o
    <3>1. o \in Objects /\ o \in Nat /\ o # 0
      BY <1>3
    <3>2. CASE Stashed(t, i, o)
      BY <1>0, <1>1, <1>8, <3>1, <3>2 DEF Unique
    <3>3. CASE o = old[s]
      BY <1>0, <1>1, <1>8, <3>1, <3>3, CellsNonempty DEF Unique
    <3> QED
      BY <1>6, <2>4, <3>1, <3>2, <3>3
  <2> QED
    BY <1>0, <1>1, <2>1, <2>2, <2>3, <2>4 DEF Unique
<1>12. Kept'
  <2> SUFFICES ASSUME NEW o \in Objects
               PROVE  \/ \E c \in Cells : ptr'[c] = o
                      \/ \E t \in Sessions : old'[t] = o
                      \/ \E t \in Sessions, i \in Nat : Stashed(t, i, o)'
                      \/ o \in freed'
    BY <1>3 DEF Kept
  <2>1. o \in Nat
    BY <1>3
  <2>2. CASE o = old[s]
    BY <1>6, <2>1, <2>2
  <2>3. CASE o # old[s]
    BY <1>0, <1>1, <1>6, <1>8, <2>1, <2>3 DEF Kept
  <2> QED
    BY <2>2, <2>3
<1> QED
  BY <1>10, <1>11, <1>12 DEF PlaceInv

\* The entries that are dropped from the front are the ones that are freed, and
\* the others keep their order.
LEMMA DiscardPlace ==
  ASSUME PlaceInv, NEW s \in Sessions, Discard(s)
  PROVE  PlaceInv'
<1> USE GenAssumption DEF None
<1>0. PlaceType /\ Unique /\ Kept
  BY DEF PlaceInv
<1>1. pc[s] = "oldest" /\ UNCHANGED <<gen, sgen, buf, tmp, slot, ptr, fresh, old>>
  BY DEF Discard
<1>2. PICK p \in {"idle", "advance"} : pc' = [pc EXCEPT ![s] = p]
  BY DEF Discard, Goto, AfterStash
<1>3. PICK k \in 0 .. Len(stash[s]) :
         /\ freed' = freed \cup {stash[s][i].obj : i \in 1 .. k}
         /\ stash' = [stash EXCEPT ![s] = SubSeq(stash[s], k + 1, Len(stash[s]))]
  BY <1>0 DEF Discard, Remaining, PlaceType
<1>4. /\ stash[s] \in Seq([obj : Nat, gen : Nat]) /\ Len(stash[s]) \in Nat
      /\ stash'[s] = SubSeq(stash[s], k + 1, Len(stash[s]))
  BY <1>0, <1>3 DEF PlaceType
<1>5. /\ Len(stash'[s]) = Len(stash[s]) - k
      /\ \A i \in 1 .. Len(stash[s]) - k : stash'[s][i] = stash[s][i + k]
      /\ stash'[s] \in Seq([obj : Nat, gen : Nat])
  <2>1. /\ Len(SubSeq(stash[s], k + 1, Len(stash[s]))) = Len(stash[s]) - k
        /\ \A i \in 1 .. Len(stash[s]) - k :
             SubSeq(stash[s], k + 1, Len(stash[s]))[i] = stash[s][i + k]
        /\ SubSeq(stash[s], k + 1, Len(stash[s])) \in Seq([obj : Nat, gen : Nat])
    BY <1>4, SuffixOf, Zenon
  <2> QED
    BY <1>4, <2>1, Zenon
<1>6. \A t \in Sessions : t # s => stash'[t] = stash[t]
  BY <1>0, <1>3 DEF PlaceType
<1>7. k \in Nat /\ \A i \in Nat : i + k \in Nat
  BY <1>4
<1>8. \A t \in Sessions, i \in Nat, o \in Nat :
        Stashed(t, i, o)' <=> IF t = s THEN i > 0 /\ Stashed(s, i + k, o) ELSE Stashed(t, i, o)
  <2>1. \A i \in Nat : i \in 1 .. Len(stash[s]) - k <=> i > 0 /\ i + k \in 1 .. Len(stash[s])
    BY <1>4
  <2>2. \A i \in Nat, o \in Nat : Stashed(s, i, o)' <=> i > 0 /\ Stashed(s, i + k, o)
    BY <1>5, <2>1 DEF Stashed
  <2> QED
    BY <1>6, <2>2 DEF Stashed
<1>9. \A o \in Nat : o \in freed' <=> o \in freed \/ \E i \in 1 .. k : Stashed(s, i, o)
  <2>1. \A i \in 1 .. k : i \in 1 .. Len(stash[s])
    BY <1>4
  <2> QED
    BY <1>3, <2>1 DEF Stashed
<1>10. Objects' = Objects /\ Objects \subseteq Nat \ {0}
  BY <1>0, <1>1, ObjectsNat DEF Objects, PlaceType
<1>11. freed' \subseteq Objects
  <2>1. \A i \in 1 .. k : Stashed(s, i, stash[s][i].obj) /\ stash[s][i].obj \in Nat /\ i \in Nat
    <3>1. \A S : \A q \in Seq(S) : \A i \in 1 .. Len(q) : q[i] \in S
      OBVIOUS
    <3>2. \A i \in 1 .. Len(stash[s]) : stash[s][i] \in [obj : Nat, gen : Nat]
      BY <1>4, <3>1
    <3>3. \A i \in 1 .. k : i \in 1 .. Len(stash[s]) /\ i \in Nat
      BY <1>4
    <3> QED
      BY <3>2, <3>3 DEF Stashed
  <2> QED
    BY <1>0, <1>3, <2>1 DEF PlaceType
<1>12. PlaceType'
  <2>1. /\ pc' \in [Sessions -> GenSteps \cup {"swapped", "stash", "advance"}]
        /\ \A t \in Sessions : pc'[t] \in {"swapped", "stash"} <=> pc[t] \in {"swapped", "stash"}
    BY <1>0, <1>1, <1>2 DEF PlaceType, GenSteps
  <2>2. stash' \in [Sessions -> Seq([obj : Nat, gen : Nat])]
    BY <1>0, <1>3, <1>4, <1>5 DEF PlaceType
  <2>3. \A t \in Sessions, i \in Nat, o \in Nat : Stashed(t, i, o)' => o \in Objects
    BY <1>0, <1>7, <1>8 DEF PlaceType
  <2> QED
    BY <1>0, <1>1, <1>10, <1>11, <2>1, <2>2, <2>3 DEF PlaceType, GenTypeOK
<1>13. Unique'
  <2>1. ASSUME NEW t \in Sessions, NEW u \in Sessions, NEW i \in Nat, NEW j \in Nat,
               NEW o \in Objects, Stashed(t, i, o)', Stashed(u, j, o)'
        PROVE  t = u /\ i = j
    <3> DEFINE At(v, m) == IF v = s THEN m + k ELSE m
    <3>1. o \in Nat /\ At(t, i) \in Nat /\ At(u, j) \in Nat
      BY <1>7, <1>10
    <3>2. Stashed(t, At(t, i), o) /\ Stashed(u, At(u, j), o)
      BY <1>8, <2>1, <3>1
    <3>3. t = u /\ At(t, i) = At(u, j)
      BY <1>0, <3>1, <3>2 DEF Unique
    <3> QED
      BY <1>7, <3>3
  <2>2. ASSUME NEW o \in Nat, o \in freed', o \notin freed
        PROVE  /\ \A c \in Cells : ptr[c] # o
               /\ \A t \in Sessions : old[t] # o
               /\ \A t \in Sessions, i \in Nat : ~ Stashed(t, i, o)'
    <3>1. PICK j \in 1 .. k : Stashed(s, j, o)
      BY <1>9, <2>2
    <3>2. j \in Nat /\ o \in Objects
      BY <1>11, <2>2, <3>1
    <3>3. ASSUME NEW t \in Sessions, NEW i \in Nat, Stashed(t, i, o)'
          PROVE  FALSE
      <4>1. CASE t = s
        <5>1. i > 0 /\ Stashed(s, i + k, o) /\ i + k \in Nat
          BY <1>7, <1>8, <3>3, <4>1
        <5>2. i + k = j
          BY <1>0, <3>1, <3>2, <5>1 DEF Unique
        <5> QED
          BY <1>7, <3>1, <5>1, <5>2
      <4>2. CASE t # s
        BY <1>0, <1>8, <3>1, <3>2, <3>3, <4>2 DEF Unique
      <4> QED
        BY <4>1, <4>2
    <3> QED
      BY <1>0, <3>1, <3>2, <3>3 DEF Unique
  <2>3. \A c \in Cells : ptr'[c] \notin freed'
    <3>1. \A c \in Cells : ptr[c] \in Nat
      BY <1>0, <1>10 DEF PlaceType
    <3> QED
      BY <1>0, <1>1, <2>2, <3>1 DEF Unique
  <2>4. \A c \in Cells, t \in Sessions : ptr'[c] # old'[t] /\ old'[t] \notin freed'
    <3>1. \A t \in Sessions : old[t] \in Nat
      <4>1. \A t \in Sessions : old[t] \in Objects \cup {0}
        BY <1>0 DEF PlaceType
      <4>2. \A x \in Objects \cup {0} : x \in Nat
        BY <1>10
      <4> QED
        BY <4>1, <4>2
    <3> QED
      BY <1>0, <1>1, <2>2, <3>1 DEF Unique
  <2>5. ASSUME NEW t \in Sessions, NEW u \in Sessions, NEW i \in Nat, NEW o \in Objects,
               Stashed(t, i, o)'
        PROVE  o # old'[u] /\ o \notin freed' /\ \A c \in Cells : ptr'[c] # o
    <3>1. o \in Nat
      BY <1>10
    <3>2. PICK m \in Nat : Stashed(t, m, o)
      BY <1>7, <1>8, <2>5, <3>1
    <3> QED
      BY <1>0, <1>1, <2>2, <2>5, <3>1, <3>2 DEF Unique
  <2> QED
    BY <1>0, <1>1, <1>10, <2>1, <2>3, <2>4, <2>5 DEF Unique
<1>14. Kept'
  <2> SUFFICES ASSUME NEW o \in Objects
               PROVE  \/ \E c \in Cells : ptr'[c] = o
                      \/ \E t \in Sessions : old'[t] = o
                      \/ \E t \in Sessions, i \in Nat : Stashed(t, i, o)'
                      \/ o \in freed'
    BY <1>10 DEF Kept
  <2>1. o \in Nat
    BY <1>10
  <2>2. ASSUME NEW t \in Sessions, NEW i \in Nat, Stashed(t, i, o)
        PROVE  o \in freed' \/ \E u \in Sessions, j \in Nat : Stashed(u, j, o)'
    <3>1. CASE t # s
      BY <1>8, <2>1, <2>2, <3>1
    <3>2. CASE t = s /\ i <= k
      <4>1. i \in 1 .. k
        BY <1>4, <2>2, <3>2 DEF Stashed
      <4> QED
        BY <1>9, <2>1, <2>2, <3>2, <4>1
    <3>3. CASE t = s /\ i > k
      <4>1. i - k \in Nat /\ i - k > 0 /\ (i - k) + k = i
        BY <1>7, <3>3
      <4>2. Stashed(s, i - k, o)'
        BY <1>8, <2>1, <2>2, <3>3, <4>1
      <4> QED
        BY <4>1, <4>2
    <3> QED
      BY <1>7, <3>1, <3>2, <3>3
  <2> QED
    BY <1>0, <1>1, <1>9, <2>1, <2>2 DEF Kept
<1> QED
  BY <1>12, <1>13, <1>14 DEF PlaceInv

\* The protocol's variables keep their types, with or without delayed stores.
LEMMA StepGenType ==
  ASSUME GenTypeOK, [Next]_vars
  PROVE  GenTypeOK'
<1> USE GenAssumption DEF GenTypeOK, NoStore
<1>1. CASE UNCHANGED genVars
  BY <1>1 DEF genVars
<1>2. ASSUME NEW s \in Sessions, Enter(s) PROVE GenTypeOK'
  <2>1. gen \in 0 .. MaxGen /\ 0 \in 0 .. MaxGen
    OBVIOUS
  <2>2. CASE EnterRead(s)
    BY <2>1, <2>2 DEF EnterRead
  <2>3. CASE EnterStore(s)
    BY <2>3 DEF EnterStore
  <2>4. CASE EnterCheck(s)
    BY <2>1, <2>4 DEF EnterCheck
  <2>5. CASE Flush(s)
    BY <2>1, <2>5 DEF Flush
  <2> QED
    BY <1>2, <2>2, <2>3, <2>4, <2>5 DEF Enter
<1>3. ASSUME NEW s \in Sessions, LeaveResource(s) PROVE GenTypeOK'
  BY <1>3 DEF LeaveResource, Leave
<1>4. ASSUME NEW s \in Sessions, StashGen(s) PROVE GenTypeOK'
  <2>1. gen' \in 1 .. MaxGen /\ gen' \in 0 .. MaxGen
    BY <1>4 DEF StashGen, GenNext
  <2> QED
    BY <1>4, <2>1 DEF StashGen
<1>5. ASSUME NEW s \in Sessions, SplitNext(s) PROVE GenTypeOK'
  BY <1>5 DEF SplitNext, GenNext
<1>6. ASSUME NEW s \in Sessions, Oldest(s) PROVE GenTypeOK'
  <2>1. CASE OldestStart(s)
    BY <2>1 DEF OldestStart
  <2>2. CASE OldestSlot(s)
    <3>1. slot[s] \in Sessions /\ slot[s] + 1 \in 1 .. N + 1
      <4>1. slot[s] \in 1 .. N + 1 /\ slot[s] <= N
        BY <2>2 DEF OldestSlot
      <4> HIDE DEF GenTypeOK
      <4> QED
        BY <4>1 DEF Sessions
    <3>2. OldestOf(sgen[slot[s]], tmp[s]) \in 0 .. MaxGen
      BY <3>1 DEF OldestOf
    <3> QED
      BY <2>2, <3>1, <3>2 DEF OldestSlot
  <2> QED
    BY <1>6, <2>1, <2>2 DEF Oldest
<1>7. ASSUME NEW s \in Sessions,
             \/ \E c \in Cells : ReadPointer(s, c) \/ Swap(s, c)
             \/ StashAdd(s) \/ Release(s) \/ Discard(s)
      PROVE  GenTypeOK'
  <2>1. UNCHANGED <<gen, sgen, buf, tmp, slot>>
    BY <1>7 DEF ReadPointer, Swap, StashAdd, Release, Discard, genVars
  <2> QED
    BY <2>1
<1>8. Readers \subseteq Sessions /\ Replacers \subseteq Sessions
  BY StashAssumption
<1> HIDE DEF GenTypeOK
<1> QED
  BY <1>1, <1>2, <1>3, <1>4, <1>5, <1>6, <1>7, <1>8 DEF Next, vars

\* Every step preserves the invariant.
LEMMA NextPlace ==
  ASSUME PlaceInv, [Next]_vars
  PROVE  PlaceInv'
<1> USE GenAssumption
<1>0. PlaceType
  BY DEF PlaceInv
<1>1. CASE UNCHANGED vars
  <2>1. UNCHANGED <<gen, pc, tmp, ptr, fresh, old, stash, freed>>
    BY <1>1 DEF vars, genVars, stashVars
  <2>2. 1 \in Sessions /\ pc' = [pc EXCEPT ![1] = pc[1]]
    BY <1>0, <2>1 DEF PlaceType, Sessions
  <2>3. pc[1] \in GenSteps \cup {"swapped", "stash", "advance"}
    BY <1>0, <2>2 DEF PlaceType
  <2>4. GenTypeOK'
    BY <1>0, StepGenType DEF PlaceType
  <2> QED
    BY <2>1, <2>2, <2>3, <2>4, FramePlace
<1>2. ASSUME NEW s \in Sessions,
             \/ Enter(s) \/ LeaveResource(s) \/ \E c \in Cells : ReadPointer(s, c)
             \/ StashGen(s) \/ SplitNext(s) \/ Release(s) \/ Oldest(s)
      PROVE  PlaceInv'
  <2>1. UNCHANGED <<ptr, fresh, old, stash, freed>>
    BY <1>2 DEF Enter, LeaveResource, ReadPointer, StashGen, SplitNext, Release, Oldest, stashVars
  <2>2. GenTypeOK'
    BY <1>0, StepGenType DEF PlaceType
  <2>3. \E p \in GenSteps \cup {"swapped", "stash", "advance"} :
          /\ pc' = [pc EXCEPT ![s] = p]
          /\ p \in {"swapped", "stash"} <=> pc[s] \in {"swapped", "stash"}
    <3>1. CASE UNCHANGED pc
      <4>1. pc' = [pc EXCEPT ![s] = pc[s]] /\ pc[s] \in GenSteps \cup {"swapped", "stash", "advance"}
        BY <1>0, <3>1 DEF PlaceType
      <4> QED
        BY <4>1
    <3>2. CASE \E p \in {"idle", "enter_store", "enter_check", "inside", "discard", "oldest"} :
                 /\ pc' = [pc EXCEPT ![s] = p]
                 /\ pc[s] \notin {"swapped", "stash"}
      BY <3>2 DEF GenSteps
    <3>3. CASE pc' = [pc EXCEPT ![s] = "stash"] /\ pc[s] = "swapped"
      BY <3>3
    <3>4. CASE StashGen(s)
      BY <3>3, <3>4 DEF StashGen, Goto
    <3>5. CASE SplitNext(s) \/ Release(s)
      BY <3>2, <3>5 DEF SplitNext, Release, Goto
    <3>6. CASE Oldest(s)
      BY <3>1, <3>2, <3>6 DEF Oldest, OldestStart, OldestSlot, Goto
    <3>7. CASE LeaveResource(s)
      BY <3>2, <3>7 DEF LeaveResource, Leave, Goto
    <3>8. CASE \E c \in Cells : ReadPointer(s, c)
      BY <3>1, <3>8 DEF ReadPointer, genVars
    <3>9. CASE Enter(s)
      BY <3>1, <3>2, <3>9 DEF Enter, EnterRead, EnterStore, EnterCheck, Flush, Goto
    <3> QED
      BY <1>2, <3>4, <3>5, <3>6, <3>7, <3>8, <3>9
  <2> QED
    BY <2>1, <2>2, <2>3, FramePlace
<1>3. ASSUME NEW s \in Replacers
      PROVE  s \in Sessions
  BY StashAssumption
<1>4. ASSUME NEW s \in Readers
      PROVE  s \in Sessions
  BY StashAssumption
<1> QED
  BY <1>1, <1>2, <1>3, <1>4, SwapPlace, StashAddPlace, DiscardPlace DEF Next

\* Every object a replacer ever linked is linked still, unlinked by one session, in
\* one entry of one stash, or freed: none is lost and none is freed twice, for any
\* number of sessions and in both styles, whether stores are delayed or not.
THEOREM ObjectsInOnePlace == Spec => []InOnePlace
<1>1. PlaceInv /\ [Next]_vars => PlaceInv'
  BY NextPlace
<1> QED
  BY <1>1, InitPlace, PlaceInvOne, PTL DEF Spec
===========================================================================
