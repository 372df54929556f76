------------------------------ MODULE Hazard ------------------------------
(***************************************************************************)
(* Hazard pointers (support/hazard.c) against eviction (evict_page.c): a   *)
(* session publishes that it is about to use a page and then confirms that *)
(* the page is in memory; an evicting session locks the page's WT_REF and  *)
(* then looks through every session's hazard pointers.  Sessions keep      *)
(* their pointers in arrays that grow while others walk them; that the     *)
(* replaced arrays stay readable meanwhile is what GenStash is about.      *)
(***************************************************************************)
EXTENDS Integers, Sequences, FiniteSets

CONSTANTS N,            \* number of sessions, all active
          Pages,        \* the pages, one WT_REF each
          NoPage,       \* an empty hazard pointer
          InitialSlots, \* size of a session's first array
          MaxHazards,   \* bound on the pages a session uses at a time
          Users,        \* sessions that read pages, and may evict on release
          Evictors      \* sessions that evict pages from the queues

ASSUME HazardAssumption ==
    /\ N \in Nat \ {0}
    /\ NoPage \notin Pages
    /\ InitialSlots \in Nat \ {0}
    /\ MaxHazards \in Nat
    /\ Users \subseteq 1 .. N
    /\ Evictors \subseteq 1 .. N

Sessions == 1 .. N

VARIABLES state,    \* ref->state: "disk", "mem" or "locked"
          inMemory, \* is ref->page a valid page?
          arrays,   \* every array a session has had; the last is session->hazard
          inuse,    \* session->hazard_inuse
          nhazard,  \* session->nhazard
          uses,     \* how many references to each page a session has
          pc,       \* where each session is
          page,     \* the page it is working on
          slot,     \* the slot of its array it is about to use
          walk,     \* an evicting session's place in the others' arrays
          stranded  \* history: pages left locked by a cursor that could not be opened

vars == <<state, inMemory, arrays, inuse, nhazard, uses, pc, page, slot, walk, stranded>>

\* A session's array, and the page in slot i of it.
Array(s) == arrays[s][Len(arrays[s])]
Size(s) == Len(Array(s))

SetPointer(s, i, p) == arrays' = [arrays EXCEPT ![s][Len(arrays[s])][i] = p]

Goto(s, place) == pc' = [pc EXCEPT ![s] = place]

WalkStart == [session |-> 1, version |-> 1, count |-> 0, next |-> 1]

\* A function returns: its local variables are gone.
Return(s) ==
    /\ Goto(s, "idle")
    /\ page' = [page EXCEPT ![s] = NoPage]
    /\ slot' = [slot EXCEPT ![s] = 1]

Init ==
    /\ state = [p \in Pages |-> "disk"]
    /\ inMemory = [p \in Pages |-> FALSE]
    /\ arrays = [s \in Sessions |-> <<[i \in 1 .. InitialSlots |-> NoPage]>>]
    /\ inuse = [s \in Sessions |-> 0]
    /\ nhazard = [s \in Sessions |-> 0]
    /\ uses = [s \in Sessions |-> [p \in Pages |-> 0]]
    /\ pc = [s \in Sessions |-> "idle"]
    /\ page = [s \in Sessions |-> NoPage]
    /\ slot = [s \in Sessions |-> 1]
    /\ walk = [s \in Sessions |-> WalkStart]
    /\ stranded = {}

---------------------------------------------------------------------------
\* __page_read: lock the WT_REF and read the page.

ReadLock(s, p) ==
    /\ pc[s] = "idle"
    /\ state[p] = "disk"
    /\ state' = [state EXCEPT ![p] = "locked"]
    /\ page' = [page EXCEPT ![s] = p]
    /\ Goto(s, "read")
    /\ UNCHANGED <<inMemory, arrays, inuse, nhazard, uses, slot, walk, stranded>>

\* The page was read, or an error leaves the page as it was.
Read(s) ==
    /\ pc[s] = "read"
    /\ \/ /\ state' = [state EXCEPT ![page[s]] = "mem"]
          /\ inMemory' = [inMemory EXCEPT ![page[s]] = TRUE]
       \/ /\ state' = [state EXCEPT ![page[s]] = "disk"]
          /\ UNCHANGED inMemory
    /\ Return(s)
    /\ UNCHANGED <<arrays, inuse, nhazard, uses, walk, stranded>>

---------------------------------------------------------------------------
\* __wt_hazard_set_func.  A page that is not in memory is busy: the caller,
\* __wt_page_in_func, waits and tries again.

SetStart(s, p) ==
    /\ pc[s] = "idle"
    /\ nhazard[s] < MaxHazards
    /\ state[p] = "mem"
    /\ page' = [page EXCEPT ![s] = p]
    /\ Goto(s, "set")
    /\ UNCHANGED <<state, inMemory, arrays, inuse, nhazard, uses, slot, walk, stranded>>

\* hazard_grow: the new array is a copy, twice as large.
Grow(s) ==
    /\ pc[s] = "set"
    /\ nhazard[s] >= Size(s)
    /\ arrays' = [arrays EXCEPT ![s] =
                    Append(@, [i \in 1 .. 2 * Size(s) |->
                                 IF i <= Size(s) THEN Array(s)[i] ELSE NoPage])]
    /\ UNCHANGED <<state, inMemory, inuse, nhazard, uses, pc, page, slot, walk, stranded>>

\* The first empty slot in use, from the one after the count on, then from the
\* first.
EmptySlots(s) == {i \in 1 .. inuse[s] : Array(s)[i] = NoPage}
FindSlot(s) ==
    LET after == {i \in EmptySlots(s) : i > nhazard[s]}
        from == IF after # {} THEN after ELSE EmptySlots(s)
    IN  CHOOSE i \in from : \A j \in from : i <= j

SetSlot(s) ==
    /\ pc[s] = "set"
    /\ nhazard[s] < Size(s)
    /\ IF nhazard[s] >= inuse[s]
         THEN /\ inuse' = [inuse EXCEPT ![s] = @ + 1]
              /\ slot' = [slot EXCEPT ![s] = inuse[s] + 1]
         ELSE /\ slot' = [slot EXCEPT ![s] = FindSlot(s)]
              /\ UNCHANGED inuse
    /\ Goto(s, "publish")
    /\ UNCHANGED <<state, inMemory, arrays, nhazard, uses, page, walk, stranded>>

\* The hazard pointer, and the full barrier that makes it visible.
SetPublish(s) ==
    /\ pc[s] = "publish"
    /\ SetPointer(s, slot[s], page[s])
    /\ Goto(s, "confirm")
    /\ UNCHANGED <<state, inMemory, inuse, nhazard, uses, page, slot, walk, stranded>>

\* Mutant: the page's state is not read again.
SetConfirmBlindly(s) ==
    /\ pc[s] = "confirm"
    /\ nhazard' = [nhazard EXCEPT ![s] = @ + 1]
    /\ uses' = [uses EXCEPT ![s][page[s]] = @ + 1]
    /\ UNCHANGED arrays
    /\ Return(s)
    /\ UNCHANGED <<state, inMemory, inuse, walk, stranded>>

\* Mutant: the pointer stays set when the page is busy.
SetConfirmLeavesPointer(s) ==
    /\ pc[s] = "confirm"
    /\ IF state[page[s]] = "mem"
         THEN /\ nhazard' = [nhazard EXCEPT ![s] = @ + 1]
              /\ uses' = [uses EXCEPT ![s][page[s]] = @ + 1]
         ELSE UNCHANGED <<nhazard, uses>>
    /\ Return(s)
    /\ UNCHANGED <<state, inMemory, arrays, inuse, walk, stranded>>

\* Mutant: the count is taken back for a page that was never counted.
SetConfirmUncounts(s) ==
    /\ pc[s] = "confirm"
    /\ IF state[page[s]] = "mem"
         THEN /\ nhazard' = [nhazard EXCEPT ![s] = @ + 1]
              /\ uses' = [uses EXCEPT ![s][page[s]] = @ + 1]
              /\ UNCHANGED arrays
         ELSE /\ SetPointer(s, slot[s], NoPage)
              /\ nhazard' = [nhazard EXCEPT ![s] = @ - 1]
              /\ UNCHANGED uses
    /\ Return(s)
    /\ UNCHANGED <<state, inMemory, inuse, walk, stranded>>

SetConfirm(s) ==
    /\ pc[s] = "confirm"
    /\ IF state[page[s]] = "mem"
         THEN /\ nhazard' = [nhazard EXCEPT ![s] = @ + 1]
              /\ uses' = [uses EXCEPT ![s][page[s]] = @ + 1]
              /\ UNCHANGED arrays
         ELSE /\ SetPointer(s, slot[s], NoPage)
              /\ UNCHANGED <<nhazard, uses>>
    /\ Return(s)
    /\ UNCHANGED <<state, inMemory, inuse, walk, stranded>>

---------------------------------------------------------------------------
\* __wt_hazard_clear, and what the session does next.  The last reference also
\* resets the number of slots in use, after the pointer is cleared.

PointersTo(s, p) == {i \in 1 .. inuse[s] : Array(s)[i] = p}

Clear(s, p, then, reset) ==
    /\ \E i \in PointersTo(s, p) :
         /\ \A j \in PointersTo(s, p) : j <= i
         /\ SetPointer(s, i, NoPage)
    /\ nhazard' = [nhazard EXCEPT ![s] = @ - 1]
    /\ uses' = [uses EXCEPT ![s][p] = @ - 1]
    /\ Goto(s, IF nhazard[s] = 1 THEN reset ELSE then)

ClearReset(s, reset, then) ==
    /\ pc[s] = reset
    /\ inuse' = [inuse EXCEPT ![s] = 0]
    /\ Goto(s, then)
    /\ UNCHANGED <<state, inMemory, arrays, nhazard, uses, page, slot, walk, stranded>>

\* __wt_page_release.
Release(s, p) ==
    /\ pc[s] = "idle"
    /\ uses[s][p] > 0
    /\ Clear(s, p, "idle", "idle_reset")
    /\ UNCHANGED <<state, inMemory, inuse, page, slot, walk, stranded>>

\* __wt_page_release_evict: lock the page if it is in memory, before giving up
\* the hazard pointer that keeps it there.
ReleaseLock(s, p) ==
    /\ pc[s] = "idle"
    /\ uses[s][p] > 0
    /\ state[p] = "mem"
    /\ state' = [state EXCEPT ![p] = "locked"]
    /\ page' = [page EXCEPT ![s] = p]
    /\ Goto(s, "locked")
    /\ UNCHANGED <<inMemory, arrays, inuse, nhazard, uses, slot, walk, stranded>>

ReleaseClear(s) ==
    /\ pc[s] = "locked"
    /\ Clear(s, page[s], "evict", "evict_reset")
    /\ UNCHANGED <<state, inMemory, inuse, page, slot, walk, stranded>>

\* The history store cursor cannot be opened: the function returns, and the page
\* stays locked.
CursorFailed(s) ==
    /\ pc[s] = "evict"
    /\ s \in Users
    /\ stranded' = stranded \cup {page[s]}
    /\ Return(s)
    /\ UNCHANGED <<state, inMemory, arrays, inuse, nhazard, uses, walk>>

---------------------------------------------------------------------------
\* __evict_get_ref: an eviction thread locks a page it uses no pointer for.
EvictLock(s, p) ==
    /\ pc[s] = "idle"
    /\ state[p] = "mem"
    /\ state' = [state EXCEPT ![p] = "locked"]
    /\ page' = [page EXCEPT ![s] = p]
    /\ Goto(s, "evict")
    /\ UNCHANGED <<inMemory, arrays, inuse, nhazard, uses, slot, walk, stranded>>

\* __wt_hazard_check: for every session, the number of slots in use is read
\* first and the array afterwards (hazard_get_reference).

CheckStart(s) ==
    /\ pc[s] = "evict"
    /\ walk' = [walk EXCEPT ![s] = WalkStart]
    /\ Goto(s, "check")
    /\ UNCHANGED <<state, inMemory, arrays, inuse, nhazard, uses, page, slot, stranded>>

CheckInuse(s) ==
    /\ pc[s] = "check"
    /\ walk[s].session <= N
    /\ walk' = [walk EXCEPT ![s].count = inuse[walk[s].session]]
    /\ Goto(s, "check_array")
    /\ UNCHANGED <<state, inMemory, arrays, inuse, nhazard, uses, page, slot, stranded>>

CheckArray(s) ==
    /\ pc[s] = "check_array"
    /\ walk' = [walk EXCEPT ![s].version = Len(arrays[walk[s].session]), ![s].next = 1]
    /\ Goto(s, "check_slot")
    /\ UNCHANGED <<state, inMemory, arrays, inuse, nhazard, uses, page, slot, stranded>>

\* The pointer the walk looks at, and whether there is one more.
WalkMore(s) == walk[s].next <= walk[s].count
WalkPointer(s) == arrays[walk[s].session][walk[s].version][walk[s].next]

CheckSlot(s) ==
    /\ pc[s] = "check_slot"
    /\ IF ~WalkMore(s)
         THEN /\ walk' = [walk EXCEPT ![s] = [WalkStart EXCEPT !.session = walk[s].session + 1]]
              /\ Goto(s, "check")
         ELSE IF WalkPointer(s) = page[s]
         THEN Goto(s, "busy") /\ walk' = [walk EXCEPT ![s] = WalkStart]
         ELSE /\ walk' = [walk EXCEPT ![s].next = @ + 1]
              /\ UNCHANGED pc
    /\ UNCHANGED <<state, inMemory, arrays, inuse, nhazard, uses, page, slot, stranded>>

CheckDone(s) ==
    /\ pc[s] = "check"
    /\ walk[s].session > N
    /\ walk' = [walk EXCEPT ![s] = WalkStart]
    /\ Goto(s, "exclusive")
    /\ UNCHANGED <<state, inMemory, arrays, inuse, nhazard, uses, page, slot, stranded>>

---------------------------------------------------------------------------
\* The rest of __wt_evict.

\* Mutant: the page is not given back when the review or the reconciliation fails.
EvictFailKeepsLock(s) ==
    /\ pc[s] \in {"busy", "exclusive"}
    /\ state' = [state EXCEPT ![page[s]] = IF pc[s] = "busy" THEN "mem" ELSE "locked"]
    /\ Return(s)
    /\ UNCHANGED <<inMemory, arrays, inuse, nhazard, uses, walk, stranded>>

\* The page is in use, or the review or the reconciliation fails: the page goes
\* back to its readers.
EvictFail(s) ==
    /\ pc[s] \in {"busy", "exclusive"}
    /\ state' = [state EXCEPT ![page[s]] = "mem"]
    /\ Return(s)
    /\ UNCHANGED <<inMemory, arrays, inuse, nhazard, uses, walk, stranded>>

\* __wt_ref_out frees the page, then the state is published.
EvictDiscard(s) ==
    /\ pc[s] = "exclusive"
    /\ inMemory' = [inMemory EXCEPT ![page[s]] = FALSE]
    /\ Goto(s, "discarded")
    /\ UNCHANGED <<state, arrays, inuse, nhazard, uses, page, slot, walk, stranded>>

EvictDone(s) ==
    /\ pc[s] = "discarded"
    /\ state' = [state EXCEPT ![page[s]] = "disk"]
    /\ Return(s)
    /\ UNCHANGED <<inMemory, arrays, inuse, nhazard, uses, walk, stranded>>

---------------------------------------------------------------------------
Evict(s) ==
    \/ CheckStart(s) \/ CheckInuse(s) \/ CheckArray(s) \/ CheckSlot(s) \/ CheckDone(s)
    \/ EvictFail(s) \/ EvictDiscard(s) \/ EvictDone(s)

\* What a session does once it has begun.
Continue(s) ==
    \/ Read(s) \/ Grow(s) \/ SetSlot(s) \/ SetPublish(s) \/ SetConfirm(s)
    \/ ReleaseClear(s)
    \/ ClearReset(s, "idle_reset", "idle") \/ ClearReset(s, "evict_reset", "evict")
    \/ Evict(s)

Use(s) ==
    \/ \E p \in Pages : ReadLock(s, p) \/ SetStart(s, p) \/ Release(s, p) \/ ReleaseLock(s, p)
    \/ Continue(s)
    \/ CursorFailed(s)

Next ==
    \/ \E s \in Users : Use(s)
    \/ \E s \in Evictors : Evict(s) \/ \E p \in Pages : EvictLock(s, p)

Spec == Init /\ [][Next]_vars

\* Threads are scheduled; nothing makes a session begin anything.
FairSpec == Spec /\ \A s \in Sessions : WF_vars(Continue(s))

---------------------------------------------------------------------------
\* Types of the variables.
TypeOK ==
    /\ state \in [Pages -> {"disk", "mem", "locked"}]
    /\ inMemory \in [Pages -> BOOLEAN]
    /\ \A s \in Sessions : \A a \in 1 .. Len(arrays[s]) : arrays[s][a] \in Seq(Pages \cup {NoPage})
    /\ inuse \in [Sessions -> Nat]
    /\ nhazard \in [Sessions -> Nat]
    /\ uses \in [Sessions -> [Pages -> Nat]]
    /\ page \in [Sessions -> Pages \cup {NoPage}]
    /\ slot \in [Sessions -> Nat]
    /\ stranded \subseteq Pages

\* No page is discarded while a session uses it, and a session that evicts a
\* page is alone with it from the end of the hazard pointer check on: "we can
\* use the page because the page eviction server will see our hazard pointer
\* before it discards the page" (__wt_hazard_set_func).
NoPageLost ==
    \A s \in Sessions, p \in Pages : uses[s][p] > 0 =>
       /\ inMemory[p]
       /\ \A e \in Sessions : page[e] = p => pc[e] \notin {"exclusive", "discarded"}

\* A session's count, its slots in use and its pointers agree, whatever pages
\* were busy and however the array grew: a search for an empty slot finds one,
\* a pointer to clear is found, and the assertions on the counts hold. A walk reads
\* no slot that the array it walks does not have: the number of slots in use is read
\* before the array, which can only grow.
Pointers(s) == {i \in 1 .. Size(s) : Array(s)[i] # NoPage}
CountsAgree ==
    \A s \in Sessions :
       /\ Cardinality(Pointers(s)) = nhazard[s] + (IF pc[s] = "confirm" THEN 1 ELSE 0)
       /\ Pointers(s) \subseteq 1 .. inuse[s]
       /\ nhazard[s] <= inuse[s] /\ inuse[s] <= Size(s)
       /\ \A p \in Pages : uses[s][p] <= Cardinality({i \in Pointers(s) : Array(s)[i] = p})
       /\ pc[s] = "check_slot" => walk[s].count <= Len(arrays[walk[s].session][walk[s].version])

\* A locked page is unlocked again: "in all cases, evicting threads reset the
\* page's state when finished with the page" (btmem.h), and so do readers.  Every
\* failure has to do so, and nobody waits with the page locked for a session that
\* waits for the page.  The one failure that does not is named: the pages that
\* CursorFailed leaves locked stay so (evict_page.c, the call of __wt_curhs_cache).
LockEnds ==
    \A p \in Pages : state[p] = "locked" ~> state[p] # "locked" \/ p \in stranded
===========================================================================
