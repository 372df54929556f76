----------------------------- MODULE GenStash -----------------------------
(***************************************************************************)
(* Memory that other sessions may still be reading is retired with a       *)
(* generation and freed once no session can be in it: __wt_stash_add and   *)
(* __stash_discard (support/generation.c) with their two kinds of users.   *)
(*                                                                         *)
(* "hazard": a session grows its own hazard-pointer array (hazard_grow),   *)
(*   advances the generation and stashes the old array with the new value; *)
(*   __wt_hazard_check walks every session's array.                        *)
(* "split": a session inside the generation replaces the index of an       *)
(*   internal page it has locked (__split_root and its siblings), reads    *)
(*   the generation, stashes the old index with it, then advances it; tree *)
(*   searches read the index.                                              *)
(*                                                                         *)
(* The two have a generation each.  A behaviour is about one of them, and  *)
(* both are in every run.                                                  *)
(***************************************************************************)
EXTENDS Generation

CONSTANTS Styles,     \* the users looked at: "hazard", "split" or both
          Readers,    \* sessions that read the shared objects
          Replacers,  \* sessions that replace them
          MaxObjects  \* bound on the objects ever allocated

ASSUME StashAssumption ==
    /\ Styles \subseteq {"hazard", "split"}
    /\ Readers \subseteq Sessions
    /\ Replacers \subseteq Sessions
    /\ MaxObjects \in Nat

\* The index of one internal page, which all splits contend for, and an array
\* for each session.
PageIndex == 0
Cells == {PageIndex} \cup Sessions

\* No object: objects are numbered from 1 as they are allocated.
None == 0

VARIABLES style,   \* which of the two users the behaviour is about
          ptr,     \* the object a cell refers to
          fresh,   \* the next object to be allocated
          held,    \* the object a reader is using
          exposed, \* history: readers that read the object they are using before
                   \* their generation was visible to the others
          old,     \* the object a replacer has unlinked and not yet stashed
          stash,   \* session->stash[which], a list of [obj, gen]
          freed    \* objects whose memory has been freed

stashVars == <<style, ptr, fresh, held, exposed, old, stash, freed>>
vars == <<genVars, stashVars>>

Init ==
    /\ GenInit
    /\ style \in Styles
    /\ ptr = [c \in Cells |-> c + 1]
    /\ fresh = N + 2
    /\ held = [s \in Sessions |-> None]
    /\ exposed = {}
    /\ old = [s \in Sessions |-> None]
    /\ stash = [s \in Sessions |-> <<>>]
    /\ freed = {}

---------------------------------------------------------------------------
\* Readers.  __wt_hazard_check and tree descents read one object at a time,
\* and stop using it no later than when they leave the generation.

ReadPointer(s, c) ==
    /\ pc[s] = "inside"
    /\ c = PageIndex <=> style = "split"
    /\ held' = [held EXCEPT ![s] = ptr[c]]
    /\ exposed' = IF buf[s] = NoStore THEN exposed \ {s} ELSE exposed \cup {s}
    /\ UNCHANGED <<genVars, style, ptr, fresh, old, stash, freed>>

LeaveResource(s) ==
    /\ Leave(s)
    /\ held' = [held EXCEPT ![s] = None]
    /\ exposed' = exposed \ {s}
    /\ UNCHANGED <<style, ptr, fresh, old, stash, freed>>

---------------------------------------------------------------------------
\* Replacers.

\* A session grows its own array, outside the generation; a splitter is
\* inside and has the page's lock.
MayReplace(s, c) ==
    IF style = "hazard"
      THEN pc[s] = "idle" /\ c = s
      ELSE pc[s] = "inside" /\ c = PageIndex /\ \A t \in Sessions : old[t] = None

Swap(s, c) ==
    /\ MayReplace(s, c)
    /\ fresh <= MaxObjects
    /\ ptr' = [ptr EXCEPT ![c] = fresh]
    /\ fresh' = fresh + 1
    /\ old' = [old EXCEPT ![s] = ptr[c]]
    /\ Goto(s, "swapped")
    /\ UNCHANGED <<gen, sgen, buf, tmp, slot, style, held, exposed, stash, freed>>

\* The generation to stash with: the next one, or the current one.  The atomic
\* increment or the full barrier before the read drains the session's buffer.
StashGen(s) ==
    /\ pc[s] = "swapped"
    /\ buf[s] = NoStore
    /\ IF style = "hazard" THEN GenNext ELSE UNCHANGED gen
    /\ tmp' = [tmp EXCEPT ![s] = gen']
    /\ Goto(s, "stash")
    /\ UNCHANGED <<sgen, buf, slot, stashVars>>

\* What a replacer does once the object is stashed and the stash looked at:
\* a splitter advances the generation and is still inside.
AfterStash(s) == IF style = "split" /\ sgen[s] # 0 THEN "advance" ELSE "idle"

\* __wt_stash_add: older entries are looked at only if there are any.
StashAdd(s) ==
    /\ pc[s] = "stash"
    /\ stash' = [stash EXCEPT ![s] = Append(@, [obj |-> old[s], gen |-> tmp[s]])]
    /\ old' = [old EXCEPT ![s] = None]
    /\ Goto(s, IF stash[s] = <<>> THEN AfterStash(s) ELSE "discard")
    /\ UNCHANGED <<gen, sgen, buf, tmp, slot, style, ptr, fresh, held, exposed, freed>>

SplitNext(s) ==
    /\ pc[s] = "advance"
    /\ GenNext
    /\ Goto(s, "inside")
    /\ UNCHANGED <<sgen, buf, tmp, slot, stashVars>>

---------------------------------------------------------------------------
\* __wt_stash_discard, which __wt_txn_release and session close call.
Release(s) ==
    /\ pc[s] = "idle"
    /\ stash[s] # <<>>
    /\ Goto(s, "discard")
    /\ UNCHANGED <<gen, sgen, buf, tmp, slot, stashVars>>

\* Mutant: the entries that were freed stay in the list.
RemainingAll(list, k) == list

\* May an object stashed with generation g be freed when oldest is in use?
Discardable(g, oldest) == g < oldest

\* The list once the first k entries have been freed.
Remaining(list, k) == SubSeq(list, k + 1, Len(list))

\* __stash_discard after __gen_oldest: entries are freed from the front of
\* the list up to the first that may still be in use.
Discard(s) ==
    /\ pc[s] = "oldest"
    /\ slot[s] > N
    /\ \E k \in 0 .. Len(stash[s]) :
         /\ \A i \in 1 .. k : Discardable(stash[s][i].gen, tmp[s])
         /\ k < Len(stash[s]) => ~Discardable(stash[s][k + 1].gen, tmp[s])
         /\ freed' = freed \cup {stash[s][i].obj : i \in 1 .. k}
         /\ stash' = [stash EXCEPT ![s] = Remaining(@, k)]
    /\ Goto(s, AfterStash(s))
    /\ UNCHANGED <<gen, sgen, buf, tmp, slot, style, ptr, fresh, held, exposed, old>>

---------------------------------------------------------------------------
\* Entering the generation; with store buffers the store reaches memory later.
Enter(s) ==
    (EnterRead(s) \/ EnterStore(s) \/ EnterCheck(s) \/ Flush(s)) /\ UNCHANGED stashVars
Oldest(s) == (OldestStart(s) \/ OldestSlot(s)) /\ UNCHANGED stashVars

Next ==
    \/ \E s \in Readers :
         Enter(s) \/ LeaveResource(s) \/ \E c \in Cells : ReadPointer(s, c)
    \/ \E s \in Replacers :
         \/ \E c \in Cells : Swap(s, c)
         \/ StashGen(s) \/ StashAdd(s) \/ SplitNext(s)
         \/ Release(s) \/ Oldest(s) \/ Discard(s)

Spec == Init /\ [][Next]_vars

---------------------------------------------------------------------------
\* Types of the variables.
TypeOK ==
    /\ GenTypeOK
    /\ pc \in [Sessions -> GenSteps \cup {"swapped", "stash", "advance"}]
    /\ style \in Styles
    /\ ptr \in [Cells -> Nat]
    /\ fresh \in Nat
    /\ held \in [Sessions -> Nat]
    /\ exposed \subseteq Sessions
    /\ old \in [Sessions -> Nat]
    /\ stash \in [Sessions -> Seq([obj : Nat, gen : Nat])]
    /\ freed \subseteq Nat

\* A session uses an object that it read when its generation was visible.
Protected(s) == held[s] # None /\ s \notin exposed

\* What a session reads once its generation is visible to the others stays
\* allocated while the session uses it, whatever is retired, scanned and freed
\* meanwhile, and what a cell refers to is never freed: "It's a bad thing if
\* another thread is in this memory after we free it" (__stash_discard).  A
\* session that loads the pointer while its store is delayed is not covered: the
\* write barrier of __wt_session_gen_enter lets it do so.
ProtectedKept ==
    /\ \A s \in Sessions : Protected(s) => held[s] \notin freed
    /\ \A c \in Cells : ptr[c] \notin freed

\* What a replaced object has in common: a stash entry of session t.
Entries(t) == {stash[t][i] : i \in 1 .. Len(stash[t])}

\* An object a cell refers to has not been retired, and objects are allocated
\* in order.
LinkedApart ==
    /\ \A c, d \in Cells : ptr[c] = ptr[d] => c = d
    /\ \A c \in Cells : None < ptr[c] /\ ptr[c] < fresh /\ ptr[c] \notin freed
    /\ \A o \in freed : o < fresh
    /\ \A t \in Sessions :
         /\ old[t] < fresh
         /\ \A c \in Cells : ptr[c] # old[t]
         /\ \A e \in Entries(t) : e.obj < fresh /\ \A c \in Cells : ptr[c] # e.obj

\* A session that holds an object has stored a generation, though others may not
\* see it yet, and no session has stored one that the connection has not reached.
HeldInside(s) ==
    /\ sgen[s] <= gen /\ tmp[s] <= gen /\ buf[s] <= gen
    /\ pc[s] = "enter_store" => tmp[s] > 0
    /\ pc[s] \in {"enter_check", "inside", "advance"} => sgen[s] > 0 \/ buf[s] > 0
    /\ buf[s] # NoStore => pc[s] \in {"enter_store", "enter_check", "inside", "swapped"}
    /\ held[s] # None =>
         /\ sgen[s] > 0 \/ buf[s] > 0
         /\ s \in exposed \/ buf[s] = NoStore
         /\ pc[s] = "inside" \/ style = "split"
         /\ pc[s] \in {"inside", "swapped", "stash", "discard", "oldest", "advance"}

\* The session s entered before t retired the object that s holds, so that its
\* generation keeps the object; a scan by t that has passed s has seen it.
Covered(s, t) ==
    /\ pc[t] = "stash" /\ held[s] = old[t] => sgen[s] <= tmp[t]
    /\ \A e \in Entries(t) : held[s] = e.obj =>
         /\ sgen[s] <= e.gen
         /\ pc[t] = "oldest" /\ s < slot[t] => tmp[t] <= sgen[s]

\* The inductive invariant from which ProtectedKept follows.
IInv ==
    /\ TypeOK
    /\ LinkedApart
    /\ \A s \in Sessions : HeldInside(s)
    /\ \A s, t \in Sessions : Protected(s) => Covered(s, t)
    /\ \A s \in Sessions : Protected(s) => held[s] \notin freed

\* The places where an object that was replaced can be: unlinked by a session, in
\* an entry of a session's stash, or freed.
Unlinked(o) == {<<s, 0>> : s \in {t \in Sessions : old[t] = o}}
StashedBy(s, o) == {<<s, i>> : i \in {j \in 1 .. Len(stash[s]) : stash[s][j].obj = o}}
Places(o) ==
    Unlinked(o) \cup (UNION {StashedBy(s, o) : s \in Sessions})
      \cup {<<0, 0>> : f \in freed \cap {o}}

\* Every object allocated is in one place: linked in one cell, unlinked by one
\* replacer, in one entry of one stash, or freed.  None is lost (but for the
\* failures of stashing that the code ignores) and none is freed twice.
InOnePlace ==
    \A o \in 1 .. fresh - 1 :
       \/ Places(o) = {} /\ \E c \in Cells : {d \in Cells : ptr[d] = o} = {c}
       \/ (\E e \in Places(o) : Places(o) = {e}) /\ \A c \in Cells : ptr[c] # o
===========================================================================
