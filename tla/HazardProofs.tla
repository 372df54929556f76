--------------------------- MODULE HazardProofs ---------------------------
(* No page is discarded while a session uses it, and a session's hazard pointers *)
(* and counts agree: for any number of sessions in any roles, pages and slots.   *)
EXTENDS Hazard, FiniteSetTheorems, TLAPS

Places == {"idle", "idle_reset", "read", "set", "publish", "confirm", "locked", "evict_reset",
           "evict", "check", "check_array", "check_slot", "busy", "exclusive", "discarded"}

\* The places of a session that has locked a page, and those from which it may find the
\* page in memory.
Locking == {"read", "locked", "evict_reset", "evict", "check", "check_array", "check_slot",
            "busy", "exclusive", "discarded"}
Evicting == Locking \ {"read", "discarded"}

\* Types, with the arrays and the places, which TypeOK says less of.
Walks == [session : Nat \ {0}, version : Nat, count : Nat, next : Nat]
Refs == Pages \cup {NoPage}
ArraysType ==
    /\ arrays \in [Sessions -> Seq(Seq(Refs))]
    /\ \A s \in Sessions : Len(arrays[s]) >= 1 /\ Size(s) >= 1
PageType ==
    /\ state \in [Pages -> {"disk", "mem", "locked"}]
    /\ inMemory \in [Pages -> BOOLEAN]
CountType ==
    /\ inuse \in [Sessions -> Nat]
    /\ nhazard \in [Sessions -> Nat]
    /\ uses \in [Sessions -> [Pages -> Nat]]
PlaceType ==
    /\ pc \in [Sessions -> Places]
    /\ page \in [Sessions -> Refs]
    /\ slot \in [Sessions -> Nat]
    /\ walk \in [Sessions -> Walks]
    /\ \A s \in Sessions : pc[s] \in Locking \cup {"set", "publish", "confirm"} => page[s] \in Pages
TypeInv == ArraysType /\ PageType /\ CountType /\ PlaceType

\* A session's pointers to a page that it has confirmed.
Confirmed(s, p) ==
    {i \in Pointers(s) : Array(s)[i] = p /\ ~ (pc[s] = "confirm" /\ slot[s] = i)}

\* The slot a session is about to use is its own and empty until it sets the pointer; what
\* it has counted is what it has confirmed.
SlotInv(s) ==
    /\ Pointers(s) \subseteq 1 .. inuse[s] /\ inuse[s] <= Size(s)
    /\ Cardinality(Pointers(s)) = nhazard[s] + (IF pc[s] = "confirm" THEN 1 ELSE 0)
    /\ \A p \in Pages : Cardinality(Confirmed(s, p)) = uses[s][p]
    /\ pc[s] = "publish" => slot[s] \in (1 .. inuse[s]) \ Pointers(s)
    /\ pc[s] = "confirm" => slot[s] \in Pointers(s) /\ Array(s)[slot[s]] = page[s]
    /\ pc[s] \in {"idle_reset", "evict_reset"} => nhazard[s] = 0

\* One session at a time has a page locked, and what is in memory is what can be used.
LockInv ==
    /\ \A s \in Sessions : pc[s] \in Locking => state[page[s]] = "locked"
    /\ \A s, t \in Sessions : pc[s] \in Locking /\ pc[t] \in Locking /\ page[s] = page[t] => s = t
MemInv ==
    /\ \A p \in Pages : state[p] = "mem" => inMemory[p]
    /\ \A s \in Sessions : pc[s] \in Evicting => inMemory[page[s]]
    /\ \A s \in Sessions, p \in Pages : Confirmed(s, p) # {} => inMemory[p]

\* The sessions a walk has passed have no confirmed pointer to its page, and the ones of the
\* session that it is looking at are before it, in the array that it has.
WalkInv(s) ==
    /\ pc[s] \in {"check", "check_array", "check_slot"} =>
         \A t \in Sessions : t < walk[s].session => Confirmed(t, page[s]) = {}
    /\ pc[s] \in {"check_array", "check_slot"} => walk[s].session \in Sessions
    /\ pc[s] = "check_array" =>
         /\ walk[s].count <= Size(walk[s].session)
         /\ \A i \in Confirmed(walk[s].session, page[s]) : i <= walk[s].count
    /\ pc[s] = "check_slot" =>
         /\ walk[s].version \in 1 .. Len(arrays[walk[s].session]) /\ walk[s].next >= 1
         /\ walk[s].count <= Len(arrays[walk[s].session][walk[s].version])
         /\ \A i \in Confirmed(walk[s].session, page[s]) :
              /\ walk[s].next <= i /\ i <= walk[s].count
              /\ arrays[walk[s].session][walk[s].version][i] = page[s]
    /\ pc[s] \in {"exclusive", "discarded"} => \A t \in Sessions : Confirmed(t, page[s]) = {}

HazardInv ==
    /\ TypeInv
    /\ \A s \in Sessions : SlotInv(s) /\ WalkInv(s)
    /\ LockInv /\ MemInv

----------------------------------------------------------------------------
(* Arrays. *)

LEMMA ConstantTypes ==
    /\ N \in Nat /\ Sessions = 1..N /\ NoPage \notin Pages
    /\ InitialSlots \in Nat /\ InitialSlots >= 1
    /\ Users \subseteq Sessions /\ Evictors \subseteq Sessions
BY HazardAssumption DEF Sessions

\* A set of naturals that has a member has a least one.
LEMMA LeastNat ==
    ASSUME NEW S \in SUBSET Nat, S # {}
    PROVE  \E x \in S : \A y \in S : x <= y
<1>1. PICK x \in S : \A y \in S : ~ (<<y, x>> \in OpToRel(<, Nat))
  BY NatLessThanWellFounded, WFMin
<1>2. ASSUME NEW y \in S PROVE x <= y
  <2>1. x \in Nat /\ y \in Nat
    OBVIOUS
  <2>2. ASSUME y < x PROVE <<y, x>> \in OpToRel(<, Nat)
    <3>1. <<y, x>> \in Nat \X Nat /\ <<y, x>>[1] < <<y, x>>[2]
      BY <2>1, <2>2
    <3> QED
      BY <3>1, Zenon DEF OpToRel
  <2>3. ~ (y < x)
    BY <1>1, <2>2, Zenon
  <2> QED
    BY <2>1, <2>3
<1> QED
  BY <1>2

\* The arrays of a session as sequences.
LEMMA ArrayIs ==
    ASSUME ArraysType, NEW s \in Sessions
    PROVE  /\ arrays[s] \in Seq(Seq(Refs)) /\ Len(arrays[s]) \in Nat /\ Len(arrays[s]) >= 1
           /\ Array(s) \in Seq(Refs) /\ Size(s) \in Nat /\ Size(s) >= 1
           /\ \A v \in 1 .. Len(arrays[s]) : arrays[s][v] \in Seq(Refs)
           /\ \A i \in 1 .. Size(s) : Array(s)[i] \in Refs
           /\ DOMAIN Array(s) = 1 .. Size(s)
BY DEF ArraysType, Array, Size

\* What setting a pointer changes.
LEMMA SetPointerArrays ==
    ASSUME ArraysType, NEW s \in Sessions, NEW i \in 1 .. Size(s), NEW p \in Refs, SetPointer(s, i, p)
    PROVE  /\ ArraysType'
           /\ \A t \in Sessions : t # s => arrays'[t] = arrays[t]
           /\ Len(arrays'[s]) = Len(arrays[s]) /\ Size(s)' = Size(s)
           /\ \A v \in 1 .. Len(arrays[s]) :
                /\ Len(arrays'[s][v]) = Len(arrays[s][v])
                /\ \A j \in Nat : j # i => arrays'[s][v][j] = arrays[s][v][j]
           /\ \A j \in Nat : j # i => Array(s)'[j] = Array(s)[j]
           /\ Array(s)'[i] = p
<1>1. PICK a : a = arrays[s]
  OBVIOUS
<1>2. PICK n : n = Len(arrays[s])
  OBVIOUS
<1>3. /\ a \in Seq(Seq(Refs)) /\ n \in Nat /\ n \in 1 .. Len(a) /\ n = Len(a)
      /\ a[n] \in Seq(Refs) /\ i \in 1 .. Len(a[n]) /\ arrays \in [Sessions -> Seq(Seq(Refs))]
      /\ Array(s) = a[n] /\ Size(s) = Len(a[n])
  BY <1>1, <1>2, ArrayIs DEF ArraysType, Array, Size
<1>4. PICK b : b = [a[n] EXCEPT ![i] = p]
  BY Zenon
<1>5. /\ b \in Seq(Refs) /\ Len(b) = Len(a[n]) /\ b[i] = p
      /\ \A j \in Nat : j # i => b[j] = a[n][j]
  BY <1>3, <1>4
<1>6. PICK c : c = [a EXCEPT ![n] = b]
  BY Zenon
<1>7. /\ c \in Seq(Seq(Refs)) /\ Len(c) = Len(a) /\ c[n] = b
      /\ \A v \in 1 .. Len(a) : v # n => c[v] = a[v]
  BY <1>3, <1>5, <1>6
<1>8. arrays' = [arrays EXCEPT ![s] = c]
  BY <1>1, <1>2, <1>4, <1>6, Zenon DEF SetPointer
<1>9. arrays'[s] = c /\ arrays' \in [Sessions -> Seq(Seq(Refs))]
      /\ \A t \in Sessions : t # s => arrays'[t] = arrays[t]
  BY <1>3, <1>7, <1>8
<1>10. Array(s)' = b /\ Size(s)' = Len(b)
  BY <1>3, <1>7, <1>9 DEF Array, Size
<1>11. ASSUME NEW t \in Sessions PROVE Len(arrays'[t]) >= 1 /\ Size(t)' >= 1
  <2>1. CASE t = s
    BY <1>3, <1>5, <1>7, <1>9, <1>10, <2>1 DEF Array, Size
  <2>2. CASE t # s
    BY <1>9, <2>2, ArrayIs DEF Array, Size
  <2> QED
    BY <2>1, <2>2
<1>12. ASSUME NEW v \in 1 .. Len(arrays[s])
       PROVE  /\ Len(arrays'[s][v]) = Len(arrays[s][v])
              /\ \A j \in Nat : j # i => arrays'[s][v][j] = arrays[s][v][j]
  BY <1>1, <1>3, <1>5, <1>7, <1>9
<1> QED
  BY <1>1, <1>3, <1>5, <1>7, <1>9, <1>10, <1>11, <1>12 DEF ArraysType

\* What growing an array changes: the array is a longer copy, and the ones before are there.
LEMMA GrowArrays ==
    ASSUME ArraysType, NEW s \in Sessions, Grow(s)
    PROVE  /\ ArraysType'
           /\ \A t \in Sessions : t # s => arrays'[t] = arrays[t]
           /\ Len(arrays'[s]) = Len(arrays[s]) + 1 /\ Size(s)' = 2 * Size(s)
           /\ \A v \in 1 .. Len(arrays[s]) : arrays'[s][v] = arrays[s][v]
           /\ \A i \in 1 .. Size(s)' : Array(s)'[i] = IF i <= Size(s) THEN Array(s)[i] ELSE NoPage
<1>1. PICK a : a = arrays[s]
  OBVIOUS
<1>2. /\ a \in Seq(Seq(Refs)) /\ Len(a) \in Nat /\ arrays \in [Sessions -> Seq(Seq(Refs))]
      /\ Size(s) \in Nat /\ Size(s) >= 1 /\ \A i \in 1 .. Size(s) : Array(s)[i] \in Refs
  BY <1>1, ArrayIs DEF ArraysType
<1>3. PICK b : b = [i \in 1 .. 2 * Size(s) |-> IF i <= Size(s) THEN Array(s)[i] ELSE NoPage]
  BY Zenon
<1>4. b \in Seq(Refs) /\ Len(b) = 2 * Size(s)
      /\ \A i \in 1 .. 2 * Size(s) : b[i] = IF i <= Size(s) THEN Array(s)[i] ELSE NoPage
  <2>1. 2 * Size(s) \in Nat
    BY <1>2
  <2>2. \A i \in 1 .. 2 * Size(s) : (IF i <= Size(s) THEN Array(s)[i] ELSE NoPage) \in Refs
    BY <1>2, <2>1 DEF Refs
  <2> QED
    BY <1>3, <2>1, <2>2
<1>5. PICK c : c = Append(a, b)
  OBVIOUS
<1>6. /\ c \in Seq(Seq(Refs)) /\ Len(c) = Len(a) + 1 /\ c[Len(a) + 1] = b
      /\ \A v \in 1 .. Len(a) : c[v] = a[v]
  BY <1>2, <1>4, <1>5
<1>7. arrays' = [arrays EXCEPT ![s] = c]
  <2>1. arrays' = [arrays EXCEPT ![s] =
                    Append(arrays[s], [i \in 1 .. 2 * Size(s) |->
                                 IF i <= Size(s) THEN Array(s)[i] ELSE NoPage])]
    BY Zenon DEF Grow
  <2> QED
    BY <1>1, <1>3, <1>5, <2>1, Zenon
<1>8. arrays'[s] = c /\ arrays' \in [Sessions -> Seq(Seq(Refs))]
      /\ \A t \in Sessions : t # s => arrays'[t] = arrays[t]
  BY <1>2, <1>6, <1>7
<1>9. Array(s)' = b /\ Size(s)' = 2 * Size(s)
  BY <1>2, <1>4, <1>6, <1>8 DEF Array, Size
<1>10. ASSUME NEW t \in Sessions PROVE Len(arrays'[t]) >= 1 /\ Size(t)' >= 1
  <2>1. CASE t = s
    BY <1>2, <1>6, <1>8, <1>9, <2>1
  <2>2. CASE t # s
    BY <1>8, <2>2, ArrayIs DEF Array, Size
  <2> QED
    BY <2>1, <2>2
<1> QED
  BY <1>1, <1>4, <1>6, <1>8, <1>9, <1>10 DEF ArraysType

\* Pointers can be counted.
LEMMA PointersFinite ==
    ASSUME ArraysType, NEW s \in Sessions
    PROVE  /\ IsFiniteSet(Pointers(s)) /\ Pointers(s) \subseteq 1 .. Size(s) /\ Size(s) \in Nat
           /\ Cardinality(Pointers(s)) \in Nat
           /\ \A p \in Pages : IsFiniteSet(Confirmed(s, p)) /\ Cardinality(Confirmed(s, p)) \in Nat
<1>1. Size(s) \in Nat /\ IsFiniteSet(1 .. Size(s))
  BY ArrayIs, FS_Interval
<1>2. Pointers(s) \in SUBSET (1 .. Size(s))
  BY DEF Pointers
<1>3. IsFiniteSet(Pointers(s)) /\ \A p \in Pages : IsFiniteSet(Confirmed(s, p))
  <2>1. \A p \in Pages : Confirmed(s, p) \in SUBSET Pointers(s)
    BY DEF Confirmed
  <2> QED
    BY <1>1, <1>2, <2>1, FS_Subset
<1> QED
  BY <1>1, <1>2, <1>3, FS_CardinalityType

----------------------------------------------------------------------------
(* The invariant holds at first. *)

LEMMA HazardInit == ASSUME Init PROVE HazardInv
<1> USE ConstantTypes
<1>1. PICK a : a = [i \in 1 .. InitialSlots |-> NoPage]
  BY Zenon
<1>2. a \in Seq(Refs) /\ Len(a) = InitialSlots /\ \A i \in 1 .. InitialSlots : a[i] = NoPage
  BY <1>1 DEF Refs
<1>3. arrays = [s \in Sessions |-> <<a>>]
  BY <1>1, Zenon DEF Init
<1>4. \A s \in Sessions : arrays[s] \in Seq(Seq(Refs)) /\ Len(arrays[s]) = 1 /\ arrays[s][1] = a
  BY <1>2, <1>3
<1>5. ArraysType
  BY <1>2, <1>3, <1>4 DEF ArraysType, Size, Array
<1>6. \A s \in Sessions : Pointers(s) = {}
  BY <1>2, <1>4 DEF Pointers, Size, Array
<1>7. PageType /\ CountType
  BY DEF Init, PageType, CountType
<1>8. PlaceType
  BY DEF Init, PlaceType, Places, Locking, Refs, Walks, WalkStart
<1>9. ASSUME NEW s \in Sessions PROVE SlotInv(s)
  <2>1. \A p \in Pages : Confirmed(s, p) = {}
    BY <1>6 DEF Confirmed
  <2>2. pc[s] = "idle" /\ nhazard[s] = 0 /\ inuse[s] = 0 /\ \A p \in Pages : uses[s][p] = 0
    BY DEF Init
  <2>3. Size(s) \in Nat
    BY <1>5, ArrayIs
  <2>4. Cardinality({}) = 0
    BY FS_EmptySet
  <2>5. Pointers(s) \subseteq 1 .. inuse[s] /\ inuse[s] <= Size(s)
    BY <1>6, <2>2, <2>3
  <2>6. Cardinality(Pointers(s)) = 0 /\ \A p \in Pages : Cardinality(Confirmed(s, p)) = 0
    BY <1>6, <2>1, <2>4
  <2> QED
    BY <2>2, <2>5, <2>6 DEF SlotInv
<1>10. ASSUME NEW s \in Sessions PROVE WalkInv(s)
  BY DEF Init, WalkInv
<1>11. LockInv /\ MemInv
  BY <1>6 DEF Init, LockInv, MemInv, Confirmed, Locking, Evicting
<1> QED
  BY <1>5, <1>7, <1>8, <1>9, <1>10, <1>11 DEF HazardInv, TypeInv

----------------------------------------------------------------------------
(* What a step that disturbs nobody's pointers, or only adds or removes some, keeps. *)

\* Arrays only grow, and their slots stay where they are.
ArraysGrow ==
    \A t \in Sessions :
        /\ Len(arrays'[t]) \in Nat /\ Size(t)' \in Nat
        /\ Len(arrays[t]) <= Len(arrays'[t]) /\ Size(t) <= Size(t)'
        /\ \A v \in 1 .. Len(arrays[t]) : Len(arrays'[t][v]) = Len(arrays[t][v])

\* No pointer to a locked page is confirmed, and none is moved.
LockedShrink ==
    \A t \in Sessions, p \in Pages : state[p] = "locked" =>
        \A i \in Confirmed(t, p)' :
            /\ i \in Confirmed(t, p)
            /\ \A v \in 1 .. Len(arrays[t]) : arrays'[t][v][i] = arrays[t][v][i]

\* A walk holds on to what it has found out.
LEMMA WalkKept ==
    ASSUME HazardInv, NEW t \in Sessions, ArraysGrow, LockedShrink,
           pc'[t] = pc[t], page'[t] = page[t], walk'[t] = walk[t]
    PROVE  WalkInv(t)'
<1> SUFFICES ASSUME pc[t] \in {"check", "check_array", "check_slot", "exclusive", "discarded"}
             PROVE  WalkInv(t)'
  BY DEF WalkInv
<1>1. page[t] \in Pages /\ state[page[t]] = "locked" /\ WalkInv(t)
      /\ walk[t].session \in Nat /\ walk[t].count \in Nat
  BY DEF HazardInv, TypeInv, PlaceType, Locking, LockInv, Walks
<1>2. \A u \in Sessions : \A i \in Confirmed(u, page[t])' :
         /\ i \in Confirmed(u, page[t])
         /\ \A v \in 1 .. Len(arrays[u]) : arrays'[u][v][i] = arrays[u][v][i]
  BY <1>1 DEF LockedShrink
<1>3. \A u \in Sessions : Confirmed(u, page[t])' \subseteq Confirmed(u, page[t])
  BY <1>2
<1>5. CASE pc[t] = "check" \/ pc[t] \in {"exclusive", "discarded"}
  BY <1>1, <1>3, <1>5 DEF WalkInv
<1>6. CASE pc[t] = "check_array"
  <2>1. walk[t].session \in Sessions
    BY <1>1, <1>6 DEF WalkInv
  <2>2. walk[t].count <= Size(walk[t].session)'
    <3>1. walk[t].count <= Size(walk[t].session) /\ Size(walk[t].session) <= Size(walk[t].session)'
      BY <1>1, <1>6, <2>1 DEF WalkInv, ArraysGrow
    <3>2. Size(walk[t].session) \in Nat /\ Size(walk[t].session)' \in Int
      BY <2>1, ArrayIs DEF HazardInv, TypeInv, ArraysGrow
    <3> QED
      BY <1>1, <3>1, <3>2
  <2> QED
    BY <1>1, <1>3, <1>6, <2>1, <2>2 DEF WalkInv
<1>7. CASE pc[t] = "check_slot"
  <2>1. walk[t].session \in Sessions /\ walk[t].version \in 1 .. Len(arrays[walk[t].session])
    BY <1>1, <1>7 DEF WalkInv
  <2>2. /\ walk[t].version \in 1 .. Len(arrays'[walk[t].session])
        /\ Len(arrays'[walk[t].session][walk[t].version]) = Len(arrays[walk[t].session][walk[t].version])
    <3>1. Len(arrays[walk[t].session]) \in Nat
      BY <2>1, ArrayIs DEF HazardInv, TypeInv
    <3>2. PICK u \in Sessions : u = walk[t].session
      BY <2>1
    <3>3. PICK v \in 1 .. Len(arrays[u]) : v = walk[t].version
      BY <2>1, <3>2
    <3>4. /\ Len(arrays[u]) <= Len(arrays'[u]) /\ Len(arrays'[u]) \in Nat
          /\ Len(arrays'[u][v]) = Len(arrays[u][v])
      BY DEF ArraysGrow
    <3>5. v \in 1 .. Len(arrays'[u])
      BY <3>1, <3>2, <3>4
    <3> QED
      BY <3>2, <3>3, <3>4, <3>5
  <2>3. /\ walk[t].next >= 1
        /\ walk[t].count <= Len(arrays'[walk[t].session][walk[t].version])
    BY <1>1, <1>7, <2>2 DEF WalkInv
  <2>4. ASSUME NEW i \in Confirmed(walk[t].session, page[t])'
        PROVE  /\ walk[t].next <= i /\ i <= walk[t].count
               /\ arrays'[walk[t].session][walk[t].version][i] = page[t]
    <3>1. /\ i \in Confirmed(walk[t].session, page[t])
          /\ arrays'[walk[t].session][walk[t].version][i] = arrays[walk[t].session][walk[t].version][i]
      BY <1>2, <2>1
    <3> QED
      BY <1>1, <1>7, <3>1 DEF WalkInv
  <2>5. \A u \in Sessions : u < walk[t].session => Confirmed(u, page[t])' = {}
    BY <1>1, <1>3, <1>7 DEF WalkInv
  <2> QED
    BY <1>7, <2>1, <2>2, <2>3, <2>4, <2>5 DEF WalkInv
<1> QED
  BY <1>5, <1>6, <1>7

\* A session that changes neither its pointers nor the counts.
LEMMA PointersKept ==
    ASSUME HazardInv, NEW s \in Sessions, UNCHANGED <<arrays, inuse, nhazard, uses>>,
           \A t \in Sessions : t # s => pc'[t] = pc[t] /\ slot'[t] = slot[t] /\ page'[t] = page[t],
           pc[s] # "confirm", pc'[s] \notin {"publish", "confirm", "idle_reset", "evict_reset"}
    PROVE  /\ \A t \in Sessions : SlotInv(t)'
           /\ \A t \in Sessions, p \in Pages : Confirmed(t, p)' = Confirmed(t, p)
           /\ ArraysType' /\ CountType'
           /\ ArraysGrow /\ LockedShrink
<1>1. \A t \in Sessions : Array(t)' = Array(t) /\ Size(t)' = Size(t) /\ Pointers(t)' = Pointers(t)
  BY DEF Array, Size, Pointers
<1>2. \A t \in Sessions, p \in Pages : Confirmed(t, p)' = Confirmed(t, p)
  BY <1>1 DEF Confirmed
<1>3. ASSUME NEW t \in Sessions PROVE SlotInv(t)'
  <2>1. SlotInv(t)
    BY DEF HazardInv
  <2> QED
    BY <1>1, <1>2, <2>1 DEF SlotInv
<1>4. ArraysType' /\ CountType'
  BY <1>1 DEF HazardInv, TypeInv, ArraysType, CountType
<1>5. ArraysGrow
  <2> SUFFICES ASSUME NEW t \in Sessions
               PROVE  /\ Len(arrays'[t]) \in Nat /\ Size(t)' \in Nat
                      /\ Len(arrays[t]) <= Len(arrays'[t]) /\ Size(t) <= Size(t)'
                      /\ \A v \in 1 .. Len(arrays[t]) : Len(arrays'[t][v]) = Len(arrays[t][v])
    BY DEF ArraysGrow
  <2>1. Len(arrays[t]) \in Nat /\ Size(t) \in Nat
    BY ArrayIs DEF HazardInv, TypeInv
  <2> QED
    BY <1>1, <2>1
<1>6. LockedShrink
  BY <1>2 DEF LockedShrink
<1> QED
  BY <1>2, <1>3, <1>4, <1>5, <1>6

----------------------------------------------------------------------------
(* Locks. *)

\* A session takes the lock of a page that nobody has, or goes on without one.
LEMMA LockTaken ==
    ASSUME HazardInv, NEW s \in Sessions, NEW p \in Pages, NEW to \in {"read", "locked", "evict"},
           pc[s] = "idle", state[p] = IF to = "read" THEN "disk" ELSE "mem",
           state' = [state EXCEPT ![p] = "locked"], page' = [page EXCEPT ![s] = p], Goto(s, to),
           UNCHANGED <<inMemory, arrays, inuse, nhazard, uses, slot, walk>>
    PROVE  HazardInv'
<1> USE DEF HazardInv, TypeInv
<1>1. /\ pc'[s] = to /\ page'[s] = p
      /\ \A t \in Sessions : t # s => pc'[t] = pc[t] /\ slot'[t] = slot[t] /\ page'[t] = page[t]
  BY DEF Goto, PlaceType
<1>2. pc[s] # "confirm" /\ pc'[s] \notin {"publish", "confirm", "idle_reset", "evict_reset"}
  BY <1>1
<1>3. /\ \A t \in Sessions : SlotInv(t)'
      /\ \A t \in Sessions, q \in Pages : Confirmed(t, q)' = Confirmed(t, q)
      /\ ArraysType' /\ CountType'
      /\ ArraysGrow /\ LockedShrink
  BY <1>1, <1>2, PointersKept
<1>4. PageType' /\ PlaceType'
  BY <1>1 DEF PageType, PlaceType, Goto, Places, Refs
<1>5. state'[p] = "locked" /\ \A q \in Pages : q # p => state'[q] = state[q]
  BY DEF PageType
<1>6. ASSUME NEW t \in Sessions PROVE WalkInv(t)'
  <2>1. CASE t = s
    BY <1>1, <2>1 DEF WalkInv
  <2>2. CASE t # s
    BY <1>1, <1>3, <2>2, WalkKept
  <2> QED
    BY <2>1, <2>2
<1>7. LockInv'
  <2>1. \A t \in Sessions : pc[t] \in Locking => page[t] # p /\ page[t] \in Pages
    BY DEF LockInv, PlaceType
  <2> QED
    BY <1>1, <1>5, <2>1 DEF LockInv
<1>8. MemInv'
  <2>1. to # "read" => inMemory[p]
    BY DEF MemInv
  <2> QED
    BY <1>1, <1>3, <1>5, <2>1 DEF MemInv, Evicting
<1> QED
  BY <1>3, <1>4, <1>6, <1>7, <1>8

\* A session gives up the lock of its page, or the lock is nobody's from then on.
LEMMA LockReturned ==
    ASSUME HazardInv, NEW s \in Sessions, pc[s] \in Locking, Return(s),
           NEW st \in {"disk", "mem", "locked"}, state' = [state EXCEPT ![page[s]] = st],
           UNCHANGED <<arrays, inuse, nhazard, uses, walk>>,
           PageType', \A q \in Pages : q # page[s] => inMemory'[q] = inMemory[q],
           inMemory[page[s]] => inMemory'[page[s]], st = "mem" => inMemory'[page[s]]
    PROVE  HazardInv'
<1> USE DEF HazardInv, TypeInv
<1>1. /\ pc'[s] = "idle" /\ page'[s] = NoPage /\ page[s] \in Pages
      /\ \A t \in Sessions : t # s => pc'[t] = pc[t] /\ slot'[t] = slot[t] /\ page'[t] = page[t]
  BY DEF Return, Goto, PlaceType
<1>2. pc[s] # "confirm" /\ pc'[s] \notin {"publish", "confirm", "idle_reset", "evict_reset"}
  BY <1>1 DEF Locking
<1>3. /\ \A t \in Sessions : SlotInv(t)'
      /\ \A t \in Sessions, q \in Pages : Confirmed(t, q)' = Confirmed(t, q)
      /\ ArraysType' /\ CountType'
      /\ ArraysGrow /\ LockedShrink
  BY <1>1, <1>2, PointersKept
<1>4. PlaceType'
  BY <1>1 DEF PlaceType, Return, Goto, Places, Refs, Locking
<1>5. state'[page[s]] = st /\ \A q \in Pages : q # page[s] => state'[q] = state[q]
  BY <1>1 DEF PageType
<1>6. ASSUME NEW t \in Sessions PROVE WalkInv(t)'
  <2>1. CASE t = s
    BY <1>1, <2>1 DEF WalkInv
  <2>2. CASE t # s
    BY <1>1, <1>3, <2>2, WalkKept
  <2> QED
    BY <2>1, <2>2
<1>7. \A t \in Sessions : pc'[t] \in Locking => t # s /\ pc[t] \in Locking /\ page[t] # page[s]
                                               /\ page'[t] = page[t] /\ page[t] \in Pages
  BY <1>1 DEF Locking, LockInv, PlaceType
<1>8. LockInv'
  BY <1>1, <1>5, <1>7 DEF LockInv
<1>9. MemInv'
  <2>1. \A p \in Pages : state'[p] = "mem" => inMemory'[p]
    BY <1>5 DEF MemInv
  <2>2. \A p \in Pages : inMemory[p] => inMemory'[p]
    OBVIOUS
  <2>3. \A t \in Sessions : pc'[t] \in Evicting => inMemory'[page'[t]]
    BY <1>1, <1>7, <2>2 DEF MemInv, Evicting
  <2> QED
    BY <1>3, <2>1, <2>2, <2>3 DEF MemInv
<1> QED
  BY <1>3, <1>4, <1>6, <1>8, <1>9

\* A step of an evicting session from one place to another with its page locked.
LEMMA CheckStep ==
    ASSUME HazardInv, NEW s \in Sessions, pc[s] \in Evicting, pc'[s] \in Evicting \cup {"discarded"},
           pc'[s] # "evict_reset", NEW to, Goto(s, to),
           NEW w \in Walks, walk' = [walk EXCEPT ![s] = w],
           UNCHANGED <<state, arrays, inuse, nhazard, uses, page, slot>>,
           PageType', \A q \in Pages : q # page[s] => inMemory'[q] = inMemory[q],
           inMemory' = inMemory \/ (pc[s] = "exclusive" /\ pc'[s] = "discarded"),
           WalkInv(s)'
    PROVE  HazardInv'
<1> USE DEF HazardInv, TypeInv
<1>1. /\ pc'[s] = to /\ page[s] \in Pages
      /\ \A t \in Sessions : t # s => pc'[t] = pc[t] /\ walk'[t] = walk[t]
  BY DEF Goto, PlaceType, Evicting
<1>2. pc[s] # "confirm" /\ pc'[s] \notin {"publish", "confirm", "idle_reset", "evict_reset"}
  BY DEF Evicting, Locking
<1>3. /\ \A t \in Sessions : SlotInv(t)'
      /\ \A t \in Sessions, q \in Pages : Confirmed(t, q)' = Confirmed(t, q)
      /\ ArraysType' /\ CountType'
      /\ ArraysGrow /\ LockedShrink
  BY <1>1, <1>2, PointersKept
<1>4. PlaceType'
  <2>1. to \in Places
    BY <1>1 DEF Evicting, Locking, Places
  <2> QED
    BY <1>1, <2>1 DEF PlaceType, Goto
<1>5. ASSUME NEW t \in Sessions PROVE WalkInv(t)'
  <2>1. CASE t = s
    BY <2>1
  <2>2. CASE t # s
    BY <1>1, <1>3, <2>2, WalkKept
  <2> QED
    BY <2>1, <2>2
<1>6. \A t \in Sessions : pc'[t] \in Locking <=> pc[t] \in Locking
  BY <1>1 DEF Evicting, Locking
<1>7. LockInv'
  BY <1>6 DEF LockInv
<1>8. MemInv'
  <2>1. CASE inMemory' = inMemory
    <3>1. \A t \in Sessions : pc'[t] \in Evicting => pc[t] \in Evicting
      BY <1>1
    <3> QED
      BY <1>3, <2>1, <3>1 DEF MemInv
  <2>2. CASE pc[s] = "exclusive" /\ pc'[s] = "discarded"
    <3>1. \A t \in Sessions : pc'[t] \in Evicting => pc[t] \in Evicting /\ page[t] # page[s] /\ page[t] \in Pages
      BY <1>1, <2>2 DEF LockInv, Evicting, PlaceType
    <3>2. \A t \in Sessions : Confirmed(t, page[s]) = {}
      BY <2>2 DEF WalkInv
    <3>3. state[page[s]] = "locked"
      BY DEF LockInv, Evicting
    <3> QED
      BY <1>3, <3>1, <3>2, <3>3 DEF MemInv
  <2> QED
    BY <2>1, <2>2
<1> QED
  BY <1>3, <1>4, <1>5, <1>7, <1>8

LEMMA WalkStartType == WalkStart \in Walks
BY DEF WalkStart, Walks

\* The walk through the hazard pointers, and the rest of an eviction.
LEMMA EvictStep ==
    ASSUME HazardInv, NEW s \in Sessions, Evict(s)
    PROVE  HazardInv'
<1> USE WalkStartType, ConstantTypes DEF HazardInv, TypeInv, PlaceType
<1>0. walk[s] \in Walks /\ (pc[s] \in Locking => page[s] \in Pages)
  OBVIOUS
<1>1. CASE CheckStart(s)
  <2>1. pc'[s] = "check" /\ walk'[s] = WalkStart /\ walk' = [walk EXCEPT ![s] = WalkStart]
    BY <1>1 DEF CheckStart, Goto
  <2>2. WalkInv(s)'
    <3>1. \A t \in Sessions : ~ (t < WalkStart.session)
      BY DEF WalkStart
    <3> QED
      BY <2>1, <3>1 DEF WalkInv
  <2> QED
    BY <1>1, <2>1, <2>2, CheckStep DEF CheckStart, Evicting, Locking, PageType
<1>2. CASE CheckInuse(s)
  <2>1. PICK u \in Sessions : walk[s].session = u
    BY <1>0, <1>2 DEF CheckInuse, Walks
  <2>2. PICK w : w = [walk[s] EXCEPT !.count = inuse[u]]
    BY Zenon
  <2>3. w \in Walks /\ w.session = u /\ w.count = inuse[u]
    BY <1>0, <2>1, <2>2 DEF Walks, CountType
  <2>4. walk' = [walk EXCEPT ![s] = w]
    BY <1>2, <2>1, <2>2 DEF CheckInuse
  <2>5. pc[s] = "check" /\ pc'[s] = "check_array" /\ walk'[s] = w /\ page'[s] = page[s]
    BY <1>2, <2>4 DEF CheckInuse, Goto
  <2>6. \A t \in Sessions, q \in Pages : Confirmed(t, q)' = Confirmed(t, q)
    BY <1>2, <2>5, PointersKept DEF CheckInuse, Goto
  <2>7. \A t \in Sessions : t < u => Confirmed(t, page[s]) = {}
    BY <2>1, <2>5 DEF WalkInv
  <2>8. inuse[u] <= Size(u) /\ \A i \in Confirmed(u, page[s]) : i <= inuse[u]
    BY DEF SlotInv, Confirmed, CountType
  <2>9. Size(u)' = Size(u)
    BY <1>2 DEF CheckInuse, Size, Array
  <2>10. page[s] \in Pages
    BY <1>0, <2>5 DEF Locking
  <2>11. WalkInv(s)'
    BY <2>3, <2>5, <2>6, <2>7, <2>8, <2>9, <2>10 DEF WalkInv
  <2> QED
    BY <1>2, <2>3, <2>4, <2>5, <2>11, CheckStep DEF CheckInuse, Evicting, Locking, PageType
<1>3. CASE CheckArray(s)
  <2>1. PICK u \in Sessions : walk[s].session = u
    BY <1>3 DEF CheckArray, WalkInv
  <2>2. PICK w : w = [walk[s] EXCEPT !.version = Len(arrays[u]), !.next = 1]
    BY Zenon
  <2>3. Len(arrays[u]) \in Nat /\ Len(arrays[u]) >= 1
    BY ArrayIs
  <2>4. w \in Walks /\ w.session = u /\ w.count = walk[s].count /\ w.version = Len(arrays[u])
        /\ w.next = 1
    BY <1>0, <2>1, <2>2, <2>3 DEF Walks
  <2>5. walk' = [walk EXCEPT ![s] = w]
    BY <1>3, <2>1, <2>2 DEF CheckArray
  <2>6. pc[s] = "check_array" /\ pc'[s] = "check_slot" /\ walk'[s] = w /\ page'[s] = page[s]
        /\ arrays' = arrays
    BY <1>3, <2>5 DEF CheckArray, Goto
  <2>7. \A t \in Sessions, q \in Pages : Confirmed(t, q)' = Confirmed(t, q)
    BY <1>3, <2>6, PointersKept DEF CheckArray, Goto
  <2>8. \A t \in Sessions : t < u => Confirmed(t, page[s]) = {}
    BY <2>1, <2>6 DEF WalkInv
  <2>9. /\ w.count <= Len(arrays[u][w.version])
        /\ \A i \in Confirmed(u, page[s]) : 1 <= i /\ i <= w.count /\ arrays[u][w.version][i] = page[s]
    <3>1. arrays[u][w.version] = Array(u) /\ Len(arrays[u][w.version]) = Size(u)
      BY <2>4 DEF Array, Size
    <3>2. w.count <= Size(u) /\ \A i \in Confirmed(u, page[s]) : i <= w.count
      BY <2>1, <2>4, <2>6 DEF WalkInv
    <3>3. \A i \in Confirmed(u, page[s]) : 1 <= i /\ Array(u)[i] = page[s]
      BY DEF Confirmed, Pointers
    <3> QED
      BY <3>1, <3>2, <3>3
  <2>10. page[s] \in Pages
    BY <1>0, <2>6 DEF Locking
  <2>11. WalkInv(s)'
    <3>1. /\ pc'[s] = "check_slot" /\ walk'[s].session = u /\ walk'[s].count = w.count
          /\ walk'[s].version = w.version /\ walk'[s].next = 1
      BY <2>4, <2>6
    <3>2. \A t \in Sessions : Confirmed(t, page[s])' = Confirmed(t, page[s])
      BY <2>6, <2>7, <2>10
    <3>3. w.version \in 1 .. Len(arrays[u])
      BY <2>3, <2>4
    <3>4. \A t \in Sessions : t < walk'[s].session => Confirmed(t, page[s])' = {}
      BY <2>8, <3>1, <3>2
    <3>5. /\ w.count <= Len(arrays'[u][w.version])
          /\ \A i \in Confirmed(u, page[s])' :
                1 <= i /\ i <= w.count /\ arrays'[u][w.version][i] = page'[s]
      BY <2>6, <2>9, <3>2
    <3> QED
      BY <2>6, <3>1, <3>3, <3>4, <3>5 DEF WalkInv
  <2> QED
    <3>1. /\ pc[s] \in Evicting /\ pc'[s] \in Evicting \cup {"discarded"} /\ pc'[s] # "evict_reset"
      BY <2>6 DEF Evicting, Locking
    <3>2. /\ Goto(s, "check_slot") /\ inMemory' = inMemory
          /\ UNCHANGED <<state, arrays, inuse, nhazard, uses, page, slot>>
      BY <1>3 DEF CheckArray
    <3>3. PageType'
      BY <3>2 DEF PageType
    <3> QED
      BY <2>4, <2>5, <2>11, <3>1, <3>2, <3>3, CheckStep
<1>4. CASE CheckSlot(s)
  <2>1. PICK u \in Sessions : walk[s].session = u
    BY <1>4 DEF CheckSlot, WalkInv
  <2>2. /\ pc[s] = "check_slot" /\ page'[s] = page[s] /\ page[s] \in Pages
        /\ UNCHANGED <<state, inMemory, arrays, inuse, nhazard, uses, page, slot>>
    BY <1>0, <1>4 DEF CheckSlot, Locking
  <2>3. /\ \A t \in Sessions : t < u => Confirmed(t, page[s]) = {}
        /\ walk[s].version \in 1 .. Len(arrays[u]) /\ walk[s].next >= 1
        /\ walk[s].count <= Len(arrays[u][walk[s].version])
        /\ \A i \in Confirmed(u, page[s]) :
              walk[s].next <= i /\ i <= walk[s].count /\ arrays[u][walk[s].version][i] = page[s]
    BY <2>1, <2>2 DEF WalkInv
  <2>4. \A t \in Sessions : t # s => pc'[t] = pc[t] /\ slot'[t] = slot[t] /\ page'[t] = page[t]
    BY <1>4 DEF CheckSlot, Goto
  <2>5. walk[s].count \in Nat /\ walk[s].next \in Nat
    BY <1>0 DEF Walks
  <2>6. CASE ~WalkMore(s)
    <3>1. PICK w : w = [WalkStart EXCEPT !.session = walk[s].session + 1]
      BY Zenon
    <3>2. w \in Walks /\ w.session = u + 1
      <4>1. u + 1 \in Nat \ {0}
        OBVIOUS
      <4> QED
        BY <2>1, <3>1, <4>1 DEF WalkStart, Walks
    <3>3. walk' = [walk EXCEPT ![s] = w] /\ Goto(s, "check")
      BY <1>4, <2>6, <3>1 DEF CheckSlot
    <3>4. pc'[s] = "check" /\ walk'[s] = w
      BY <3>3 DEF Goto
    <3>5. \A t \in Sessions, q \in Pages : Confirmed(t, q)' = Confirmed(t, q)
      BY <2>2, <2>4, <3>4, PointersKept
    <3>6. Confirmed(u, page[s]) = {}
      <4>1. walk[s].next > walk[s].count
        BY <2>5, <2>6 DEF WalkMore
      <4>2. \A i \in Confirmed(u, page[s]) : i \in Nat
        BY DEF Confirmed, Pointers
      <4> QED
        BY <2>3, <2>5, <4>1, <4>2
    <3>7. \A t \in Sessions : t < u + 1 => Confirmed(t, page[s]) = {}
      BY <2>3, <3>6
    <3>8. WalkInv(s)'
      BY <2>2, <3>2, <3>4, <3>5, <3>7 DEF WalkInv
    <3> QED
      BY <2>2, <3>2, <3>3, <3>4, <3>8, CheckStep DEF Evicting, Locking, PageType
  <2>7. CASE WalkMore(s) /\ WalkPointer(s) = page[s]
    <3>1. walk' = [walk EXCEPT ![s] = WalkStart] /\ Goto(s, "busy")
      BY <1>4, <2>7 DEF CheckSlot
    <3>2. pc'[s] = "busy"
      BY <3>1 DEF Goto
    <3>3. WalkInv(s)'
      BY <3>2 DEF WalkInv
    <3> QED
      BY <2>2, <3>1, <3>2, <3>3, CheckStep DEF Evicting, Locking, PageType
  <2>8. CASE WalkMore(s) /\ WalkPointer(s) # page[s]
    <3>1. PICK w : w = [walk[s] EXCEPT !.next = walk[s].next + 1]
      BY Zenon
    <3>2. /\ w \in Walks /\ w.session = u /\ w.version = walk[s].version /\ w.count = walk[s].count
          /\ w.next = walk[s].next + 1
      <4>1. walk[s].next + 1 \in Nat
        BY <2>5
      <4> QED
        BY <1>0, <2>1, <3>1, <4>1 DEF Walks
    <3>3. walk' = [walk EXCEPT ![s] = w] /\ pc' = pc
      BY <1>4, <2>8, <3>1 DEF CheckSlot
    <3>4. pc'[s] = "check_slot" /\ walk'[s] = w /\ Goto(s, "check_slot")
      BY <2>2, <3>3 DEF Goto
    <3>5. \A t \in Sessions, q \in Pages : Confirmed(t, q)' = Confirmed(t, q)
      BY <2>2, <2>4, <3>4, PointersKept
    <3>6. ASSUME NEW i \in Confirmed(u, page[s]) PROVE walk[s].next + 1 <= i
      <4>1. i # walk[s].next
        BY <2>1, <2>3, <2>8 DEF WalkPointer
      <4>2. i \in Nat
        BY DEF Confirmed, Pointers
      <4> QED
        BY <2>3, <2>5, <4>1, <4>2
    <3>7. WalkInv(s)'
      <4>1. \A t \in Sessions : t < u => Confirmed(t, page[s])' = {}
        BY <2>2, <2>3, <3>5
      <4>2. w.next >= 1 /\ w.version \in 1 .. Len(arrays[u]) /\ w.count <= Len(arrays[u][w.version])
        BY <2>3, <2>5, <3>2
      <4>3. \A i \in Confirmed(u, page[s])' :
               w.next <= i /\ i <= w.count /\ arrays[u][w.version][i] = page[s]
        BY <2>2, <2>3, <3>2, <3>5, <3>6
      <4> QED
        BY <2>2, <3>2, <3>4, <4>1, <4>2, <4>3 DEF WalkInv
    <3> QED
      BY <2>2, <3>2, <3>3, <3>4, <3>7, CheckStep DEF Evicting, Locking, PageType
  <2> QED
    BY <2>6, <2>7, <2>8
<1>5. CASE CheckDone(s)
  <2>1. /\ pc[s] = "check" /\ pc'[s] = "exclusive" /\ walk' = [walk EXCEPT ![s] = WalkStart]
        /\ page'[s] = page[s]
    BY <1>5 DEF CheckDone, Goto
  <2>2. \A t \in Sessions, q \in Pages : Confirmed(t, q)' = Confirmed(t, q)
    BY <1>5, <2>1, PointersKept DEF CheckDone, Goto
  <2>3. \A t \in Sessions : Confirmed(t, page[s]) = {}
    <3>1. \A t \in Sessions : t < walk[s].session
      BY <1>0, <1>5 DEF CheckDone, Walks
    <3> QED
      BY <2>1, <3>1 DEF WalkInv
  <2>4. page[s] \in Pages
    BY <1>0, <2>1 DEF Locking
  <2>5. WalkInv(s)'
    BY <2>1, <2>2, <2>3, <2>4 DEF WalkInv
  <2> QED
    BY <1>5, <2>1, <2>5, CheckStep DEF CheckDone, Evicting, Locking, PageType
<1>6. CASE EvictFail(s)
  <2>1. pc[s] \in Locking /\ inMemory[page[s]]
    BY <1>6 DEF EvictFail, MemInv, Evicting, Locking
  <2>2. PageType'
    BY <1>0, <1>6, <2>1 DEF EvictFail, PageType
  <2> QED
    BY <1>6, <2>1, <2>2, LockReturned DEF EvictFail
<1>7. CASE EvictDiscard(s)
  <2>1. pc[s] = "exclusive" /\ pc'[s] = "discarded" /\ page[s] \in Pages /\ page'[s] = page[s]
    BY <1>0, <1>7 DEF EvictDiscard, Goto, Locking
  <2>2. \A t \in Sessions, q \in Pages : Confirmed(t, q)' = Confirmed(t, q)
    BY <1>7, <2>1, PointersKept DEF EvictDiscard, Goto
  <2>3. WalkInv(s)'
    BY <2>1, <2>2 DEF WalkInv
  <2>4. PageType' /\ \A q \in Pages : q # page[s] => inMemory'[q] = inMemory[q]
    BY <1>7, <2>1 DEF EvictDiscard, PageType
  <2>5. walk' = [walk EXCEPT ![s] = walk[s]]
    BY <1>7 DEF EvictDiscard
  <2> QED
    BY <1>0, <1>7, <2>1, <2>3, <2>4, <2>5, CheckStep DEF EvictDiscard, Evicting, Locking
<1>8. CASE EvictDone(s)
  <2>1. pc[s] \in Locking
    BY <1>8 DEF EvictDone, Locking
  <2>2. PageType'
    BY <1>0, <1>8, <2>1 DEF EvictDone, PageType
  <2> QED
    BY <1>8, <2>1, <2>2, LockReturned DEF EvictDone
<1> QED
  BY <1>1, <1>2, <1>3, <1>4, <1>5, <1>6, <1>7, <1>8 DEF Evict

----------------------------------------------------------------------------
(* Setting and clearing pointers. *)

\* The pointers of the other sessions are their own.
LEMMA OthersKept ==
    ASSUME HazardInv, NEW t \in Sessions, arrays'[t] = arrays[t], inuse'[t] = inuse[t],
           nhazard'[t] = nhazard[t], uses'[t] = uses[t], pc'[t] = pc[t], slot'[t] = slot[t],
           page'[t] = page[t]
    PROVE  SlotInv(t)' /\ \A p \in Pages : Confirmed(t, p)' = Confirmed(t, p)
<1>1. Array(t)' = Array(t) /\ Size(t)' = Size(t) /\ Pointers(t)' = Pointers(t)
  BY DEF Array, Size, Pointers
<1>2. \A p \in Pages : Confirmed(t, p)' = Confirmed(t, p)
  BY <1>1 DEF Confirmed
<1>3. SlotInv(t)
  BY DEF HazardInv
<1> QED
  BY <1>1, <1>2, <1>3 DEF SlotInv

\* A session changes its own pointers and no page: what is left to show is about itself.
LEMMA PointerStep ==
    ASSUME HazardInv, NEW s \in Sessions, UNCHANGED <<state, inMemory, walk>>,
           \A t \in Sessions : t # s =>
               /\ arrays'[t] = arrays[t] /\ inuse'[t] = inuse[t] /\ nhazard'[t] = nhazard[t]
               /\ uses'[t] = uses[t] /\ pc'[t] = pc[t] /\ slot'[t] = slot[t] /\ page'[t] = page[t],
           TypeInv', SlotInv(s)',
           Len(arrays[s]) <= Len(arrays'[s]), Size(s) <= Size(s)',
           Len(arrays'[s]) \in Nat, Size(s)' \in Nat,
           \A v \in 1 .. Len(arrays[s]) : Len(arrays'[s][v]) = Len(arrays[s][v]),
           \A p \in Pages : \A i \in Confirmed(s, p)' :
               \/ state[p] = "mem"
               \/ /\ i \in Confirmed(s, p)
                  /\ \A v \in 1 .. Len(arrays[s]) : arrays'[s][v][i] = arrays[s][v][i],
           \/ {pc[s], pc'[s]} \cap Locking = {}
           \/ pc[s] \in Evicting /\ pc'[s] \in {"evict_reset", "evict"} /\ page'[s] = page[s]
    PROVE  HazardInv'
<1> USE DEF HazardInv, TypeInv
<1>1. \A t \in Sessions : t # s => SlotInv(t)' /\ \A p \in Pages : Confirmed(t, p)' = Confirmed(t, p)
  BY OthersKept
<1>2. ArraysGrow
  <2> SUFFICES ASSUME NEW t \in Sessions
               PROVE  /\ Len(arrays'[t]) \in Nat /\ Size(t)' \in Nat
                      /\ Len(arrays[t]) <= Len(arrays'[t]) /\ Size(t) <= Size(t)'
                      /\ \A v \in 1 .. Len(arrays[t]) : Len(arrays'[t][v]) = Len(arrays[t][v])
    BY DEF ArraysGrow
  <2>1. Len(arrays[t]) \in Nat /\ Size(t) \in Nat
    BY ArrayIs
  <2>2. CASE t = s
    BY <2>2
  <2>3. CASE t # s
    <3>1. Size(t)' = Size(t)
      BY <2>3 DEF Size, Array
    <3> QED
      BY <2>1, <2>3, <3>1
  <2> QED
    BY <2>2, <2>3
<1>3. LockedShrink
  <2> SUFFICES ASSUME NEW t \in Sessions, NEW p \in Pages, state[p] = "locked",
                      NEW i \in Confirmed(t, p)'
               PROVE  /\ i \in Confirmed(t, p)
                      /\ \A v \in 1 .. Len(arrays[t]) : arrays'[t][v][i] = arrays[t][v][i]
    BY DEF LockedShrink
  <2>1. CASE t = s
    BY <2>1
  <2>2. CASE t # s
    BY <1>1, <2>2
  <2> QED
    BY <2>1, <2>2
<1>4. ASSUME NEW t \in Sessions PROVE WalkInv(t)'
  <2>1. CASE t = s
    <3>1. pc'[s] \notin {"check", "check_array", "check_slot", "exclusive", "discarded"}
      BY DEF Locking
    <3> QED
      BY <2>1, <3>1 DEF WalkInv
  <2>2. CASE t # s
    BY <1>2, <1>3, <2>2, WalkKept
  <2> QED
    BY <2>1, <2>2
<1>5. \A t \in Sessions : pc'[t] \in Locking => pc[t] \in Locking /\ page'[t] = page[t]
  BY DEF Evicting
<1>6. LockInv'
  BY <1>5 DEF LockInv
<1>7. MemInv'
  <2>1. \A t \in Sessions : pc'[t] \in Evicting => pc[t] \in Evicting /\ page'[t] = page[t]
    BY DEF Evicting
  <2>2. ASSUME NEW t \in Sessions, NEW p \in Pages, Confirmed(t, p)' # {} PROVE inMemory[p]
    <3>1. CASE t = s
      <4>1. state[p] = "mem" \/ Confirmed(s, p) # {}
        BY <2>2, <3>1
      <4> QED
        BY <4>1 DEF MemInv
    <3>2. CASE t # s
      BY <1>1, <2>2, <3>2 DEF MemInv
    <3> QED
      BY <3>1, <3>2
  <2> QED
    BY <2>1, <2>2 DEF MemInv
<1> QED
  BY <1>1, <1>4, <1>6, <1>7

\* hazard_grow: the copy has the same pointers.
LEMMA GrowStep ==
    ASSUME HazardInv, NEW s \in Sessions, Grow(s)
    PROVE  HazardInv'
<1> USE DEF HazardInv, TypeInv
<1>1. /\ UNCHANGED <<state, inMemory, inuse, nhazard, uses, pc, page, slot, walk>>
      /\ pc[s] = "set"
  BY DEF Grow
<1>2. /\ ArraysType'
      /\ \A t \in Sessions : t # s => arrays'[t] = arrays[t]
      /\ Len(arrays'[s]) = Len(arrays[s]) + 1 /\ Size(s)' = 2 * Size(s)
      /\ \A v \in 1 .. Len(arrays[s]) : arrays'[s][v] = arrays[s][v]
      /\ \A i \in 1 .. Size(s)' : Array(s)'[i] = IF i <= Size(s) THEN Array(s)[i] ELSE NoPage
  BY GrowArrays
<1>3. Size(s) \in Nat /\ Len(arrays[s]) \in Nat
  BY ArrayIs
<1>4. Pointers(s)' = Pointers(s) /\ \A i \in Pointers(s) : Array(s)'[i] = Array(s)[i]
  BY <1>2, <1>3 DEF Pointers
<1>5. \A p \in Pages : Confirmed(s, p)' = Confirmed(s, p)
  BY <1>1, <1>4 DEF Confirmed
<1>6. SlotInv(s)'
  <2>1. SlotInv(s) /\ inuse[s] \in Nat
    BY DEF CountType
  <2>2. inuse[s] <= Size(s)'
    BY <1>2, <1>3, <2>1 DEF SlotInv
  <2> QED
    BY <1>1, <1>4, <1>5, <2>1, <2>2 DEF SlotInv
<1>7. TypeInv'
  BY <1>1, <1>2 DEF PageType, CountType, PlaceType
<1>8. {pc[s], pc'[s]} \cap Locking = {}
  BY <1>1 DEF Locking
<1>9. /\ Len(arrays[s]) <= Len(arrays'[s]) /\ Size(s) <= Size(s)'
      /\ Len(arrays'[s]) \in Nat /\ Size(s)' \in Nat
  BY <1>2, <1>3
<1> QED
  BY <1>1, <1>2, <1>5, <1>6, <1>7, <1>8, <1>9, PointerStep

\* A session with room has an empty slot in use, if it does not begin a new one.
LEMMA FindSlotEmpty ==
    ASSUME HazardInv, NEW s \in Sessions, pc[s] = "set", nhazard[s] < inuse[s]
    PROVE  FindSlot(s) \in (1 .. inuse[s]) \ Pointers(s)
<1>1. /\ inuse[s] \in Nat /\ nhazard[s] \in Nat /\ Pointers(s) \subseteq 1 .. inuse[s]
      /\ Cardinality(Pointers(s)) = nhazard[s] /\ inuse[s] <= Size(s) /\ Size(s) \in Nat
  <2>1. inuse[s] \in Nat /\ nhazard[s] \in Nat /\ Size(s) \in Nat /\ SlotInv(s)
    BY ArrayIs DEF HazardInv, TypeInv, CountType
  <2> QED
    BY <2>1 DEF SlotInv
<1>2. Cardinality(1 .. inuse[s]) = inuse[s]
  <2>1. PICK n \in Nat : n = inuse[s]
    BY <1>1
  <2>2. Cardinality(1 .. n) = IF 1 > n THEN 0 ELSE n - 1 + 1
    BY FS_Interval
  <2> QED
    BY <2>1, <2>2
<1>3. PICK i \in 1 .. inuse[s] : i \notin Pointers(s)
  <2> SUFFICES ASSUME 1 .. inuse[s] \subseteq Pointers(s) PROVE FALSE
    OBVIOUS
  <2>1. Pointers(s) = 1 .. inuse[s]
    BY <1>1
  <2> QED
    BY <1>1, <1>2, <2>1
<1>4. \A j \in EmptySlots(s) : j \in (1 .. inuse[s]) \ Pointers(s)
  BY <1>1 DEF EmptySlots, Pointers
<1>5. i \in EmptySlots(s)
  BY <1>1, <1>3 DEF EmptySlots, Pointers
<1> DEFINE after == {j \in EmptySlots(s) : j > nhazard[s]}
           from == IF after # {} THEN after ELSE EmptySlots(s)
<1>6. from # {} /\ from \subseteq EmptySlots(s) /\ from \in SUBSET Nat
  BY <1>5 DEF EmptySlots
<1>7. FindSlot(s) = CHOOSE j \in from : \A k \in from : j <= k
  BY Zenon DEF FindSlot
<1> HIDE DEF from
<1>8. \E j \in from : \A k \in from : j <= k
  BY <1>6, LeastNat
<1>9. FindSlot(s) \in from
  BY <1>7, <1>8, Zenon
<1> QED
  BY <1>4, <1>6, <1>9

LEMMA SetSlotStep ==
    ASSUME HazardInv, NEW s \in Sessions, SetSlot(s)
    PROVE  HazardInv'
<1> USE DEF HazardInv, TypeInv
<1>1. /\ UNCHANGED <<state, inMemory, arrays, nhazard, uses, page, walk>>
      /\ pc[s] = "set" /\ pc'[s] = "publish" /\ nhazard[s] < Size(s) /\ page[s] \in Pages
      /\ \A t \in Sessions : t # s => pc'[t] = pc[t] /\ slot'[t] = slot[t] /\ inuse'[t] = inuse[t]
  BY DEF SetSlot, Goto, PlaceType, CountType
<1>2. /\ Size(s) \in Nat /\ inuse[s] \in Nat /\ nhazard[s] \in Nat /\ SlotInv(s)
      /\ Len(arrays[s]) \in Nat
  BY ArrayIs DEF CountType
<1>3. /\ Array(s)' = Array(s) /\ Size(s)' = Size(s) /\ Pointers(s)' = Pointers(s)
      /\ \A p \in Pages : Confirmed(s, p)' = Confirmed(s, p)
  BY <1>1 DEF Array, Size, Pointers, Confirmed
<1>4. /\ inuse'[s] \in Nat /\ inuse[s] <= inuse'[s] /\ inuse'[s] <= Size(s)
      /\ slot'[s] \in (1 .. inuse'[s]) \ Pointers(s)
  <2>1. CASE nhazard[s] >= inuse[s]
    <3>1. inuse'[s] = inuse[s] + 1 /\ slot'[s] = inuse[s] + 1
      BY <2>1 DEF SetSlot, CountType, PlaceType
    <3> QED
      BY <1>1, <1>2, <2>1, <3>1 DEF SlotInv
  <2>2. CASE nhazard[s] < inuse[s]
    <3>1. inuse' = inuse /\ slot'[s] = FindSlot(s)
      BY <1>2, <2>2 DEF SetSlot, PlaceType
    <3> QED
      BY <1>1, <1>2, <2>2, <3>1, FindSlotEmpty DEF SlotInv
  <2> QED
    BY <1>2, <2>1, <2>2
<1>5. SlotInv(s)'
  BY <1>1, <1>2, <1>3, <1>4 DEF SlotInv
<1>6. CountType'
  BY <1>1, <1>4 DEF SetSlot, CountType
<1>7. PlaceType'
  BY <1>1, <1>4 DEF SetSlot, PlaceType, Goto, Places
<1>8. ArraysType' /\ PageType'
  BY <1>1 DEF ArraysType, PageType, Array, Size
<1>9. {pc[s], pc'[s]} \cap Locking = {}
  BY <1>1 DEF Locking
<1> QED
  BY <1>1, <1>2, <1>3, <1>5, <1>6, <1>7, <1>8, <1>9, PointerStep

\* One pointer more, or one less.
LEMMA SetPublishStep ==
    ASSUME HazardInv, NEW s \in Sessions, SetPublish(s)
    PROVE  HazardInv'
<1> USE DEF HazardInv, TypeInv
<1>1. /\ UNCHANGED <<state, inMemory, inuse, nhazard, uses, page, slot, walk>>
      /\ pc[s] = "publish" /\ pc'[s] = "confirm" /\ page[s] \in Pages
      /\ \A t \in Sessions : t # s => pc'[t] = pc[t]
  BY DEF SetPublish, Goto, PlaceType
<1>2. /\ Size(s) \in Nat /\ inuse[s] \in Nat /\ nhazard[s] \in Nat /\ SlotInv(s)
      /\ Len(arrays[s]) \in Nat
  BY ArrayIs DEF CountType
<1>3. PICK i \in 1 .. Size(s) : i = slot[s] /\ i \in 1 .. inuse[s] /\ i \notin Pointers(s)
  BY <1>1, <1>2 DEF SlotInv
<1>4. SetPointer(s, i, page[s]) /\ page[s] \in Refs
  BY <1>1, <1>3 DEF SetPublish, Refs
<1>5. /\ ArraysType'
      /\ \A t \in Sessions : t # s => arrays'[t] = arrays[t]
      /\ Len(arrays'[s]) = Len(arrays[s]) /\ Size(s)' = Size(s)
      /\ \A v \in 1 .. Len(arrays[s]) :
           /\ Len(arrays'[s][v]) = Len(arrays[s][v])
           /\ \A j \in Nat : j # i => arrays'[s][v][j] = arrays[s][v][j]
      /\ \A j \in Nat : j # i => Array(s)'[j] = Array(s)[j]
      /\ Array(s)'[i] = page[s]
  BY <1>4, SetPointerArrays
<1>6. Pointers(s)' = Pointers(s) \cup {i}
  BY <1>1, <1>5, ConstantTypes DEF Pointers
<1>7. \A p \in Pages : Confirmed(s, p)' = Confirmed(s, p)
  <2>1. \A j \in Pointers(s) : Array(s)'[j] = Array(s)[j] /\ j # i
    BY <1>3, <1>5 DEF Pointers
  <2> QED
    BY <1>1, <1>3, <1>6, <2>1 DEF Confirmed
<1>8. Cardinality(Pointers(s)') = Cardinality(Pointers(s)) + 1
  BY <1>3, <1>6, PointersFinite, FS_AddElement
<1>9. SlotInv(s)'
  BY <1>1, <1>2, <1>3, <1>5, <1>6, <1>7, <1>8 DEF SlotInv
<1>10. PageType' /\ CountType' /\ PlaceType'
  BY <1>1 DEF PageType, CountType, PlaceType, SetPublish, Goto, Places
<1>11. {pc[s], pc'[s]} \cap Locking = {}
  BY <1>1 DEF Locking
<1>12. ASSUME NEW p \in Pages, NEW j \in Confirmed(s, p)'
       PROVE  /\ j \in Confirmed(s, p)
              /\ \A v \in 1 .. Len(arrays[s]) : arrays'[s][v][j] = arrays[s][v][j]
  <2>1. j \in Confirmed(s, p) /\ j \in Nat /\ j # i
    BY <1>3, <1>7 DEF Confirmed, Pointers
  <2> QED
    BY <1>5, <2>1
<1> QED
  BY <1>1, <1>2, <1>5, <1>9, <1>10, <1>11, <1>12, PointerStep

LEMMA ClearStep ==
    ASSUME HazardInv, NEW s \in Sessions, NEW p \in Pages, NEW then, NEW reset, Clear(s, p, then, reset),
           UNCHANGED <<state, inMemory, inuse, page, slot, walk>>,
           \/ pc[s] = "idle" /\ then = "idle" /\ reset = "idle_reset"
           \/ pc[s] = "locked" /\ then = "evict" /\ reset = "evict_reset"
    PROVE  HazardInv'
<1> USE DEF HazardInv, TypeInv
<1>1. /\ pc[s] \in {"idle", "locked"} /\ pc'[s] = IF nhazard[s] = 1 THEN reset ELSE then
      /\ nhazard'[s] = nhazard[s] - 1
      /\ uses'[s][p] = uses[s][p] - 1 /\ \A q \in Pages : q # p => uses'[s][q] = uses[s][q]
      /\ \A t \in Sessions : t # s => /\ pc'[t] = pc[t] /\ nhazard'[t] = nhazard[t]
                                      /\ uses'[t] = uses[t]
  BY DEF Clear, Goto, PlaceType, CountType
<1>2. /\ Size(s) \in Nat /\ inuse[s] \in Nat /\ nhazard[s] \in Nat /\ SlotInv(s)
      /\ Len(arrays[s]) \in Nat /\ \A q \in Pages : uses[s][q] \in Nat
  BY ArrayIs DEF CountType
<1>3. PICK i \in PointersTo(s, p) : SetPointer(s, i, NoPage)
  BY DEF Clear
<1>4. i \in 1 .. Size(s) /\ Array(s)[i] = p /\ i \in Pointers(s)
  BY <1>2, <1>3, ConstantTypes DEF PointersTo, SlotInv, Pointers
<1>5. /\ ArraysType'
      /\ \A t \in Sessions : t # s => arrays'[t] = arrays[t]
      /\ Len(arrays'[s]) = Len(arrays[s]) /\ Size(s)' = Size(s)
      /\ \A v \in 1 .. Len(arrays[s]) :
           /\ Len(arrays'[s][v]) = Len(arrays[s][v])
           /\ \A j \in Nat : j # i => arrays'[s][v][j] = arrays[s][v][j]
      /\ \A j \in Nat : j # i => Array(s)'[j] = Array(s)[j]
      /\ Array(s)'[i] = NoPage
  <2>1. NoPage \in Refs
    BY DEF Refs
  <2> QED
    BY <1>3, <1>4, <2>1, SetPointerArrays
<1>6. Pointers(s)' = Pointers(s) \ {i} /\ \A j \in Pointers(s)' : Array(s)'[j] = Array(s)[j]
  BY <1>5 DEF Pointers
<1>7. pc[s] # "confirm" /\ pc'[s] # "confirm" /\ pc'[s] # "publish"
  BY <1>1
<1>8. \A q \in Pages : Confirmed(s, q)' = Confirmed(s, q) \ {i}
  BY <1>6, <1>7 DEF Confirmed
<1>9. i \in Confirmed(s, p) /\ \A q \in Pages : q # p => i \notin Confirmed(s, q)
  BY <1>4, <1>7 DEF Confirmed
<1>10. /\ Cardinality(Pointers(s)') = Cardinality(Pointers(s)) - 1
       /\ \A q \in Pages : Cardinality(Confirmed(s, q)') = Cardinality(Confirmed(s, q)) - (IF q = p THEN 1 ELSE 0)
  <2>1. Cardinality(Pointers(s)') = Cardinality(Pointers(s)) - 1
    BY <1>4, <1>6, PointersFinite, FS_RemoveElement
  <2>2. ASSUME NEW q \in Pages
        PROVE  Cardinality(Confirmed(s, q)') = Cardinality(Confirmed(s, q)) - (IF q = p THEN 1 ELSE 0)
    <3>1. IsFiniteSet(Confirmed(s, q)) /\ Cardinality(Confirmed(s, q)) \in Nat
      BY PointersFinite
    <3>2. Cardinality(Confirmed(s, q) \ {i}) =
             IF i \in Confirmed(s, q) THEN Cardinality(Confirmed(s, q)) - 1 ELSE Cardinality(Confirmed(s, q))
      BY <3>1, FS_RemoveElement
    <3>3. Confirmed(s, q)' = Confirmed(s, q) \ {i}
      BY <1>8
    <3>4. CASE q = p
      BY <1>9, <3>2, <3>3, <3>4
    <3>5. CASE q # p
      BY <1>9, <3>1, <3>2, <3>3, <3>5
    <3> QED
      BY <3>4, <3>5
  <2> QED
    BY <2>1, <2>2
<1>11. nhazard'[s] \in Nat /\ uses'[s][p] \in Nat
  <2>1. /\ Cardinality(Pointers(s)) = nhazard[s] /\ Cardinality(Confirmed(s, p)) = uses[s][p]
        /\ Pointers(s) # {} /\ Confirmed(s, p) # {}
    BY <1>2, <1>4, <1>7, <1>9 DEF SlotInv
  <2>2. Cardinality(Pointers(s)) # 0 /\ Cardinality(Confirmed(s, p)) # 0
    <3>1. IsFiniteSet(Pointers(s)) /\ IsFiniteSet(Confirmed(s, p))
      BY PointersFinite
    <3> QED
      BY <2>1, <3>1, FS_EmptySet
  <2> QED
    BY <1>1, <1>2, <2>1, <2>2
<1>12. SlotInv(s)'
  <2>1. Pointers(s)' \subseteq 1 .. inuse'[s] /\ inuse'[s] <= Size(s)'
    BY <1>2, <1>5, <1>6 DEF SlotInv
  <2>2. Cardinality(Pointers(s))' = nhazard'[s]
    BY <1>1, <1>2, <1>7, <1>10 DEF SlotInv
  <2>3. ASSUME NEW q \in Pages PROVE Cardinality(Confirmed(s, q))' = uses'[s][q]
    BY <1>1, <1>2, <1>10 DEF SlotInv
  <2>4. pc'[s] \in {"idle_reset", "evict_reset"} => nhazard'[s] = 0
    BY <1>1, <1>2
  <2> QED
    BY <1>7, <1>11, <2>1, <2>2, <2>3, <2>4 DEF SlotInv
<1>13. CountType'
  BY <1>1, <1>11 DEF CountType, Clear
<1>14. PlaceType' /\ PageType'
  BY <1>1 DEF PageType, PlaceType, Clear, Goto, Places, Locking
<1>15. \/ {pc[s], pc'[s]} \cap Locking = {}
       \/ pc[s] \in Evicting /\ pc'[s] \in {"evict_reset", "evict"} /\ page'[s] = page[s]
  BY <1>1 DEF Locking, Evicting
<1>16. ASSUME NEW q \in Pages, NEW j \in Confirmed(s, q)'
       PROVE  /\ j \in Confirmed(s, q)
              /\ \A v \in 1 .. Len(arrays[s]) : arrays'[s][v][j] = arrays[s][v][j]
  <2>1. j \in Confirmed(s, q) /\ j \in Nat /\ j # i
    BY <1>8 DEF Confirmed, Pointers
  <2> QED
    BY <1>5, <2>1
<1> QED
  BY <1>1, <1>2, <1>5, <1>12, <1>13, <1>14, <1>15, <1>16, PointerStep

\* The page is in memory: the pointer counts. Or it is busy: the pointer goes.
LEMMA SetConfirmStep ==
    ASSUME HazardInv, NEW s \in Sessions, SetConfirm(s)
    PROVE  HazardInv'
<1> USE DEF HazardInv, TypeInv
<1>1. /\ UNCHANGED <<state, inMemory, inuse, walk>>
      /\ pc[s] = "confirm" /\ pc'[s] = "idle" /\ page[s] \in Pages
      /\ \A t \in Sessions : t # s => pc'[t] = pc[t] /\ slot'[t] = slot[t] /\ page'[t] = page[t]
  BY DEF SetConfirm, Return, Goto, PlaceType
<1>2. /\ Size(s) \in Nat /\ inuse[s] \in Nat /\ nhazard[s] \in Nat /\ SlotInv(s)
      /\ Len(arrays[s]) \in Nat /\ \A q \in Pages : uses[s][q] \in Nat
  BY ArrayIs DEF CountType
<1>3. PICK i \in 1 .. Size(s), p \in Pages :
         i = slot[s] /\ i \in Pointers(s) /\ p = page[s] /\ Array(s)[i] = p
  BY <1>1, <1>2 DEF SlotInv, Pointers
<1>4. PlaceType' /\ PageType'
  BY <1>1 DEF PageType, PlaceType, SetConfirm, Return, Goto, Places, Locking, Refs
<1>5. {pc[s], pc'[s]} \cap Locking = {}
  BY <1>1 DEF Locking
<1>6. \A q \in Pages : i \notin Confirmed(s, q)
  BY <1>1, <1>3 DEF Confirmed
<1>7. CASE state[p] = "mem"
  <2>1. /\ arrays' = arrays /\ nhazard'[s] = nhazard[s] + 1
        /\ uses'[s][p] = uses[s][p] + 1
        /\ \A q \in Pages : q # p => uses'[s][q] = uses[s][q]
        /\ \A t \in Sessions : t # s => nhazard'[t] = nhazard[t] /\ uses'[t] = uses[t]
    BY <1>3, <1>7 DEF SetConfirm, CountType
  <2>2. Array(s)' = Array(s) /\ Size(s)' = Size(s) /\ Pointers(s)' = Pointers(s)
    BY <2>1 DEF Array, Size, Pointers
  <2>3. /\ Confirmed(s, p)' = Confirmed(s, p) \cup {i}
        /\ \A q \in Pages : q # p => Confirmed(s, q)' = Confirmed(s, q)
    BY <1>1, <1>3, <2>2 DEF Confirmed
  <2>4. ASSUME NEW q \in Pages PROVE Cardinality(Confirmed(s, q)') = uses'[s][q]
    <3>1. Cardinality(Confirmed(s, q)) = uses[s][q] /\ IsFiniteSet(Confirmed(s, q))
      BY PointersFinite DEF SlotInv
    <3>2. CASE q = p
      <4>1. Cardinality(Confirmed(s, p) \cup {i}) = Cardinality(Confirmed(s, p)) + 1
        BY <1>6, <3>1, <3>2, FS_AddElement
      <4> QED
        BY <2>1, <2>3, <3>1, <3>2, <4>1
    <3>3. CASE q # p
      BY <2>1, <2>3, <3>1, <3>3
    <3> QED
      BY <3>2, <3>3
  <2>5. SlotInv(s)'
    BY <1>1, <1>2, <2>1, <2>2, <2>4 DEF SlotInv
  <2>6. CountType'
    <3>1. /\ nhazard' = [nhazard EXCEPT ![s] = nhazard[s] + 1]
          /\ uses' = [uses EXCEPT ![s] = [uses[s] EXCEPT ![p] = uses[s][p] + 1]]
      BY <1>3, <1>7 DEF SetConfirm
    <3>2. nhazard[s] + 1 \in Nat /\ [uses[s] EXCEPT ![p] = uses[s][p] + 1] \in [Pages -> Nat]
      BY <1>2 DEF CountType
    <3> QED
      BY <1>1, <3>1, <3>2 DEF CountType
  <2>7. ArraysType'
    BY <2>1 DEF ArraysType, Array, Size
  <2>8. \A q \in Pages : \A j \in Confirmed(s, q)' : state[q] = "mem" \/ j \in Confirmed(s, q)
    BY <1>7, <2>3
  <2> QED
    BY <1>1, <1>2, <1>4, <1>5, <2>1, <2>2, <2>5, <2>6, <2>7, <2>8, PointerStep
<1>8. CASE state[p] # "mem"
  <2>1. UNCHANGED <<nhazard, uses>> /\ SetPointer(s, i, NoPage)
    BY <1>3, <1>8 DEF SetConfirm
  <2>2. /\ ArraysType'
        /\ \A t \in Sessions : t # s => arrays'[t] = arrays[t]
        /\ Len(arrays'[s]) = Len(arrays[s]) /\ Size(s)' = Size(s)
        /\ \A v \in 1 .. Len(arrays[s]) :
             /\ Len(arrays'[s][v]) = Len(arrays[s][v])
             /\ \A j \in Nat : j # i => arrays'[s][v][j] = arrays[s][v][j]
        /\ \A j \in Nat : j # i => Array(s)'[j] = Array(s)[j]
        /\ Array(s)'[i] = NoPage
    <3>1. NoPage \in Refs
      BY DEF Refs
    <3> QED
      BY <2>1, <3>1, SetPointerArrays
  <2>3. Pointers(s)' = Pointers(s) \ {i} /\ \A j \in Pointers(s)' : Array(s)'[j] = Array(s)[j]
    BY <2>2 DEF Pointers
  <2>4. \A q \in Pages : Confirmed(s, q)' = Confirmed(s, q)
    BY <1>1, <1>3, <2>3 DEF Confirmed
  <2>5. Cardinality(Pointers(s)') = Cardinality(Pointers(s)) - 1
    <3>1. i \in Pointers(s) /\ IsFiniteSet(Pointers(s))
      BY <1>3, PointersFinite
    <3>2. Cardinality(Pointers(s) \ {i}) = Cardinality(Pointers(s)) - 1
      BY <3>1, FS_RemoveElement
    <3> QED
      BY <2>3, <3>2
  <2>6. SlotInv(s)'
    BY <1>1, <1>2, <2>1, <2>2, <2>3, <2>4, <2>5 DEF SlotInv
  <2>7. CountType'
    BY <1>1, <2>1 DEF CountType
  <2>8. ASSUME NEW q \in Pages, NEW j \in Confirmed(s, q)'
        PROVE  /\ j \in Confirmed(s, q)
               /\ \A v \in 1 .. Len(arrays[s]) : arrays'[s][v][j] = arrays[s][v][j]
    <3>1. j \in Confirmed(s, q) /\ j \in Nat /\ j # i
      BY <1>6, <2>4 DEF Confirmed, Pointers
    <3> QED
      BY <2>2, <3>1
  <2> QED
    BY <1>1, <1>2, <1>4, <1>5, <2>1, <2>2, <2>6, <2>7, <2>8, PointerStep
<1> QED
  BY <1>7, <1>8

\* The last pointer is gone: no slot is in use.
LEMMA ClearResetStep ==
    ASSUME HazardInv, NEW s \in Sessions, NEW reset, NEW then, ClearReset(s, reset, then),
           \/ reset = "idle_reset" /\ then = "idle"
           \/ reset = "evict_reset" /\ then = "evict"
    PROVE  HazardInv'
<1> USE DEF HazardInv, TypeInv
<1>1. /\ UNCHANGED <<state, inMemory, arrays, nhazard, uses, page, slot, walk>>
      /\ pc[s] = reset /\ pc'[s] = then /\ inuse'[s] = 0
      /\ \A t \in Sessions : t # s => pc'[t] = pc[t] /\ inuse'[t] = inuse[t]
  BY DEF ClearReset, Goto, PlaceType, CountType
<1>2. Size(s) \in Nat /\ SlotInv(s) /\ Len(arrays[s]) \in Nat /\ nhazard[s] = 0
  BY <1>1, ArrayIs DEF SlotInv
<1>3. /\ Array(s)' = Array(s) /\ Size(s)' = Size(s) /\ Pointers(s)' = Pointers(s)
      /\ \A p \in Pages : Confirmed(s, p)' = Confirmed(s, p)
  BY <1>1 DEF Array, Size, Pointers, Confirmed
<1>4. Pointers(s) = {}
  <2>1. Cardinality(Pointers(s)) = 0 /\ IsFiniteSet(Pointers(s))
    BY <1>1, <1>2, PointersFinite DEF SlotInv
  <2> QED
    BY <2>1, FS_EmptySet
<1>5. SlotInv(s)'
  BY <1>1, <1>2, <1>3, <1>4 DEF SlotInv
<1>6. CountType'
  BY <1>1 DEF CountType, ClearReset
<1>7. PlaceType' /\ PageType' /\ ArraysType'
  BY <1>1 DEF ClearReset, PlaceType, PageType, ArraysType, Goto, Places, Locking, Array, Size
<1>8. \/ {pc[s], pc'[s]} \cap Locking = {}
      \/ pc[s] \in Evicting /\ pc'[s] \in {"evict_reset", "evict"} /\ page'[s] = page[s]
  BY <1>1 DEF Locking, Evicting
<1> QED
  BY <1>1, <1>2, <1>3, <1>5, <1>6, <1>7, <1>8, PointerStep

----------------------------------------------------------------------------
(* All steps. *)

LEMMA ContinueStep ==
    ASSUME HazardInv, NEW s \in Sessions, Continue(s)
    PROVE  HazardInv'
<1>1. CASE Read(s)
  <2>1. pc[s] \in Locking /\ page[s] \in Pages
    BY <1>1 DEF Read, Locking, HazardInv, TypeInv, PlaceType
  <2>2. PageType' /\ \A q \in Pages : q # page[s] => inMemory'[q] = inMemory[q]
    BY <1>1, <2>1 DEF Read, HazardInv, TypeInv, PageType
  <2>3. CASE /\ state' = [state EXCEPT ![page[s]] = "mem"]
             /\ inMemory' = [inMemory EXCEPT ![page[s]] = TRUE]
    <3>1. inMemory'[page[s]]
      BY <2>1, <2>3 DEF HazardInv, TypeInv, PageType
    <3> QED
      BY <1>1, <2>1, <2>2, <2>3, <3>1, LockReturned DEF Read
  <2>4. CASE /\ state' = [state EXCEPT ![page[s]] = "disk"]
             /\ UNCHANGED inMemory
    BY <1>1, <2>1, <2>2, <2>4, LockReturned DEF Read
  <2> QED
    BY <1>1, <2>3, <2>4 DEF Read
<1>2. CASE Grow(s)
  BY <1>2, GrowStep
<1>3. CASE SetSlot(s)
  BY <1>3, SetSlotStep
<1>4. CASE SetPublish(s)
  BY <1>4, SetPublishStep
<1>5. CASE SetConfirm(s)
  BY <1>5, SetConfirmStep
<1>6. CASE ReleaseClear(s)
  <2>1. page[s] \in Pages /\ pc[s] = "locked"
    BY <1>6 DEF ReleaseClear, HazardInv, TypeInv, PlaceType, Locking
  <2> QED
    BY <1>6, <2>1, ClearStep DEF ReleaseClear
<1>7. CASE ClearReset(s, "idle_reset", "idle") \/ ClearReset(s, "evict_reset", "evict")
  BY <1>7, ClearResetStep
<1>8. CASE Evict(s)
  BY <1>8, EvictStep
<1> QED
  BY <1>1, <1>2, <1>3, <1>4, <1>5, <1>6, <1>7, <1>8 DEF Continue

LEMMA UseStep ==
    ASSUME HazardInv, NEW s \in Sessions, Use(s)
    PROVE  HazardInv'
<1>1. ASSUME NEW p \in Pages, ReadLock(s, p) PROVE HazardInv'
  BY <1>1, LockTaken DEF ReadLock
<1>2. ASSUME NEW p \in Pages, ReleaseLock(s, p) PROVE HazardInv'
  BY <1>2, LockTaken DEF ReleaseLock
<1>3. ASSUME NEW p \in Pages, Release(s, p) PROVE HazardInv'
  BY <1>3, ClearStep DEF Release
<1>4. ASSUME NEW p \in Pages, SetStart(s, p) PROVE HazardInv'
  <2> USE DEF HazardInv, TypeInv
  <2>1. /\ UNCHANGED <<state, inMemory, arrays, inuse, nhazard, uses, slot, walk>>
        /\ pc[s] = "idle" /\ pc'[s] = "set" /\ page'[s] = p
        /\ \A t \in Sessions : t # s => pc'[t] = pc[t] /\ page'[t] = page[t]
    BY <1>4 DEF SetStart, Goto, PlaceType
  <2>2. /\ \A t \in Sessions : SlotInv(t)'
        /\ \A t \in Sessions, q \in Pages : Confirmed(t, q)' = Confirmed(t, q)
        /\ ArraysType' /\ CountType'
        /\ ArraysGrow /\ LockedShrink
    BY <2>1, PointersKept
  <2>3. PlaceType' /\ PageType'
    BY <1>4, <2>1 DEF SetStart, Goto, PlaceType, PageType, Places, Refs
  <2>4. ASSUME NEW t \in Sessions PROVE WalkInv(t)'
    <3>1. CASE t = s
      BY <2>1, <3>1 DEF WalkInv
    <3>2. CASE t # s
      BY <2>1, <2>2, <3>2, WalkKept
    <3> QED
      BY <3>1, <3>2
  <2>5. \A t \in Sessions : pc'[t] \in Locking => pc[t] \in Locking /\ page'[t] = page[t]
    BY <2>1 DEF Locking
  <2>6. LockInv' /\ MemInv'
    BY <2>1, <2>2, <2>5 DEF LockInv, MemInv, Evicting
  <2> QED
    BY <2>2, <2>3, <2>4, <2>6
<1>5. CASE CursorFailed(s)
  <2>1. pc[s] \in Locking /\ page[s] \in Pages /\ state[page[s]] = "locked" /\ PageType
    BY <1>5 DEF CursorFailed, Locking, HazardInv, TypeInv, PlaceType, LockInv
  <2>2. state' = [state EXCEPT ![page[s]] = "locked"] /\ PageType'
    BY <1>5, <2>1 DEF CursorFailed, PageType
  <2> QED
    BY <1>5, <2>1, <2>2, LockReturned DEF CursorFailed
<1> QED
  BY <1>1, <1>2, <1>3, <1>4, <1>5, ContinueStep DEF Use

LEMMA HazardStep == HazardInv /\ [Next]_vars => HazardInv'
<1> SUFFICES ASSUME HazardInv, [Next]_vars PROVE HazardInv'
  OBVIOUS
<1>1. CASE UNCHANGED vars
  <2>1. UNCHANGED <<state, inMemory, arrays, inuse, nhazard, uses, pc, page, slot, walk>>
    BY <1>1 DEF vars
  <2>2. \A s \in Sessions : Array(s)' = Array(s) /\ Size(s)' = Size(s) /\ Pointers(s)' = Pointers(s)
    BY <2>1 DEF Array, Size, Pointers
  <2>3. \A s \in Sessions : \A p : Confirmed(s, p)' = Confirmed(s, p)
    BY <2>1, <2>2 DEF Confirmed
  <2>4. TypeInv'
    BY <2>1, <2>2 DEF HazardInv, TypeInv, ArraysType, PageType, CountType, PlaceType
  <2>5. LockInv' /\ MemInv'
    BY <2>1, <2>3 DEF HazardInv, LockInv, MemInv
  <2>6. \A s \in Sessions : SlotInv(s)'
    BY <2>1, OthersKept
  <2>7. ASSUME NEW s \in Sessions PROVE WalkInv(s)'
    <3>1. ArraysGrow
      <4>1. \A t \in Sessions : Len(arrays[t]) \in Nat /\ Size(t) \in Nat
        BY ArrayIs DEF HazardInv, TypeInv
      <4> QED
        BY <2>1, <2>2, <4>1 DEF ArraysGrow
    <3>2. LockedShrink
      BY <2>1, <2>3 DEF LockedShrink
    <3> QED
      BY <2>1, <3>1, <3>2, WalkKept
  <2> QED
    BY <2>4, <2>5, <2>6, <2>7 DEF HazardInv
<1>2. ASSUME NEW s \in Users, Use(s) PROVE HazardInv'
  BY <1>2, UseStep, ConstantTypes
<1>3. ASSUME NEW s \in Evictors, Evict(s) PROVE HazardInv'
  BY <1>3, EvictStep, ConstantTypes
<1>4. ASSUME NEW s \in Evictors, NEW p \in Pages, EvictLock(s, p) PROVE HazardInv'
  BY <1>4, LockTaken, ConstantTypes DEF EvictLock
<1> QED
  BY <1>1, <1>2, <1>3, <1>4 DEF Next

LEMMA HazardAlways == Spec => []HazardInv
<1>1. Init => HazardInv
  BY HazardInit
<1> QED
  BY <1>1, HazardStep, PTL DEF Spec

\* What is left locked is a page.
StrandedType == stranded \subseteq Pages

\* Only the failure of the history store cursor leaves a page locked, the one it worked on.
LEMMA StrandedStep == HazardInv /\ StrandedType /\ [Next]_vars => StrandedType'
<1> SUFFICES ASSUME HazardInv, stranded \subseteq Pages, [Next]_vars
             PROVE  stranded' \subseteq Pages
  BY DEF StrandedType
<1>1. CASE UNCHANGED vars
  BY <1>1 DEF vars
<1>2. ASSUME NEW s \in Users, CursorFailed(s) PROVE stranded' \subseteq Pages
  <2>1. page[s] \in Pages
    BY <1>2, ConstantTypes DEF CursorFailed, HazardInv, TypeInv, PlaceType, Locking
  <2> QED
    BY <1>2, <2>1 DEF CursorFailed
<1>3. ASSUME NEW s, Continue(s) PROVE stranded' = stranded
  BY <1>3 DEF Continue, Read, Grow, SetSlot, SetPublish, SetConfirm, ReleaseClear, ClearReset,
     Evict, CheckStart, CheckInuse, CheckArray, CheckSlot, CheckDone, EvictFail, EvictDiscard,
     EvictDone
<1>4. ASSUME NEW s, NEW p,
             ReadLock(s, p) \/ SetStart(s, p) \/ Release(s, p) \/ ReleaseLock(s, p) \/ EvictLock(s, p)
      PROVE  stranded' = stranded
  BY <1>4 DEF ReadLock, SetStart, Release, ReleaseLock, EvictLock
<1> QED
  BY <1>1, <1>2, <1>3, <1>4 DEF Next, Use, Continue

\* Every variable keeps its type, for any number of sessions, pages and slots.
THEOREM HazardTypes == Spec => []TypeOK
<1>1. Init => HazardInv /\ StrandedType
  BY HazardInit DEF Init, StrandedType
<1>2. HazardInv /\ StrandedType /\ [Next]_vars => HazardInv' /\ StrandedType'
  BY HazardStep, StrandedStep
<1>3. HazardInv /\ StrandedType => TypeOK
  BY DEF HazardInv, TypeInv, ArraysType, PageType, CountType, PlaceType, Refs, StrandedType, TypeOK
<1> QED
  BY <1>1, <1>2, <1>3, PTL DEF Spec

\* No page is discarded while a session uses it: whatever the number of sessions that read,
\* release and evict, of pages and of slots, and however often the arrays that
\* __wt_hazard_check walks grow meanwhile.
THEOREM NoPageEverLost == Spec => []NoPageLost
<1>1. ASSUME HazardInv PROVE NoPageLost
  <2> SUFFICES ASSUME NEW s \in Sessions, NEW p \in Pages, uses[s][p] > 0
               PROVE  /\ inMemory[p]
                      /\ \A e \in Sessions : page[e] = p => pc[e] \notin {"exclusive", "discarded"}
    BY DEF NoPageLost
  <2>1. Confirmed(s, p) # {}
    <3>1. Cardinality(Confirmed(s, p)) = uses[s][p]
      BY <1>1 DEF HazardInv, SlotInv
    <3> QED
      BY <3>1, FS_EmptySet
  <2> QED
    BY <1>1, <2>1 DEF HazardInv, MemInv, WalkInv
<1> QED
  BY <1>1, HazardAlways, PTL

\* A session's count, its slots in use and its pointers always agree, and no walk reads
\* beyond the end of an array.
THEOREM CountsAlwaysAgree == Spec => []CountsAgree
<1>1. ASSUME HazardInv PROVE CountsAgree
  <2> SUFFICES ASSUME NEW s \in Sessions
               PROVE  /\ Cardinality(Pointers(s)) = nhazard[s] + (IF pc[s] = "confirm" THEN 1 ELSE 0)
                      /\ Pointers(s) \subseteq 1 .. inuse[s]
                      /\ nhazard[s] <= inuse[s] /\ inuse[s] <= Size(s)
                      /\ \A p \in Pages : uses[s][p] <= Cardinality({i \in Pointers(s) : Array(s)[i] = p})
                      /\ pc[s] = "check_slot" =>
                           walk[s].count <= Len(arrays[walk[s].session][walk[s].version])
    BY DEF CountsAgree
  <2>1. SlotInv(s) /\ WalkInv(s) /\ ArraysType /\ inuse[s] \in Nat /\ nhazard[s] \in Nat
    BY <1>1 DEF HazardInv, TypeInv, CountType
  <2>2. nhazard[s] <= inuse[s]
    <3>1. PICK n \in Nat : n = inuse[s]
      BY <2>1
    <3>2. IsFiniteSet(1 .. n) /\ Cardinality(1 .. n) = IF 1 > n THEN 0 ELSE n - 1 + 1
      BY FS_Interval
    <3>3. Pointers(s) \in SUBSET (1 .. n)
      BY <2>1, <3>1 DEF SlotInv
    <3>4. Cardinality(Pointers(s)) <= Cardinality(1 .. n)
      BY <3>2, <3>3, FS_Subset
    <3>5. Cardinality(Pointers(s)) <= n
      BY <3>2, <3>4
    <3> QED
      BY <2>1, <3>1, <3>5 DEF SlotInv
  <2>3. ASSUME NEW p \in Pages
        PROVE  uses[s][p] <= Cardinality({i \in Pointers(s) : Array(s)[i] = p})
    <3> DEFINE S == {i \in Pointers(s) : Array(s)[i] = p}
    <3>1. IsFiniteSet(Pointers(s)) /\ S \in SUBSET Pointers(s)
      BY <2>1, PointersFinite
    <3>2. IsFiniteSet(S)
      BY <3>1, FS_Subset
    <3>3. Confirmed(s, p) \in SUBSET S
      BY DEF Confirmed
    <3> HIDE DEF S
    <3>4. Cardinality(Confirmed(s, p)) <= Cardinality(S)
      BY <3>2, <3>3, FS_Subset
    <3>5. uses[s][p] <= Cardinality(S)
      BY <2>1, <3>4 DEF SlotInv
    <3> QED
      BY <3>5 DEF S
  <2> QED
    BY <2>1, <2>2, <2>3 DEF SlotInv, WalkInv
<1> QED
  BY <1>1, HazardAlways, PTL
============================================================================
