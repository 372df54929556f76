---------------------------- MODULE Generation ----------------------------
(***************************************************************************)
(* Resource generations (support/generation.c), for one resource.  The     *)
(* connection has a generation; a session that uses the resource publishes *)
(* the generation it entered in, 0 when it is not inside.  The users of    *)
(* the protocol, GenStash and GenDrain, extend this module: each operation *)
(* is a sequence of the steps below, one per access to shared memory.      *)
(*                                                                         *)
(* WT_WRITE_BARRIER, after a session's generation is stored, orders the    *)
(* store before later stores only (sfence on x86, dmb ishst on ARM): with  *)
(* StoreBuffers the store may wait in the processor's buffer, invisible to *)
(* the other sessions, while the session goes on to load.                  *)
(***************************************************************************)
EXTENDS Integers, Sequences

CONSTANTS N,             \* number of sessions, all active
          StoreBuffers,  \* may a store be delayed past later loads?
          MaxGen         \* bound on the connection's generation

ASSUME GenAssumption ==
    /\ N \in Nat \ {0}
    /\ StoreBuffers \in BOOLEAN
    /\ MaxGen \in Nat \ {0}

Sessions == 1 .. N

\* No store is waiting in the session's buffer.
NoStore == 0

VARIABLES gen,     \* conn->generations[which]
          sgen,    \* session->generations[which], as other sessions see it
          buf,     \* the delayed store of sgen, or NoStore
          pc,      \* where each session is
          tmp,     \* the generation a session has read
          slot     \* the next session a scan of the table looks at

genVars == <<gen, sgen, buf, pc, tmp, slot>>

GenInit ==
    /\ gen = 1
    /\ sgen = [s \in Sessions |-> 0]
    /\ buf = [s \in Sessions |-> NoStore]
    /\ pc = [s \in Sessions |-> "idle"]
    /\ tmp = [s \in Sessions |-> 0]
    /\ slot = [s \in Sessions |-> 1]

Goto(s, place) == pc' = [pc EXCEPT ![s] = place]

---------------------------------------------------------------------------
\* __wt_session_gen_enter: read the generation, publish it, and go round
\* again if the generation moved meanwhile.

EnterRead(s) ==
    /\ pc[s] = "idle"
    /\ tmp' = [tmp EXCEPT ![s] = gen]
    /\ Goto(s, "enter_store")
    /\ UNCHANGED <<gen, sgen, buf, slot>>

\* The bound on the buffer is one store: an earlier one has drained.
EnterStore(s) ==
    /\ pc[s] = "enter_store"
    /\ buf[s] = NoStore
    /\ IF StoreBuffers
         THEN buf' = [buf EXCEPT ![s] = tmp[s]] /\ UNCHANGED sgen
         ELSE sgen' = [sgen EXCEPT ![s] = tmp[s]] /\ UNCHANGED buf
    /\ Goto(s, "enter_check")
    /\ UNCHANGED <<gen, tmp, slot>>

EnterCheck(s) ==
    /\ pc[s] = "enter_check"
    /\ IF tmp[s] = gen
         THEN Goto(s, "inside") /\ UNCHANGED tmp
         ELSE Goto(s, "enter_store") /\ tmp' = [tmp EXCEPT ![s] = gen]
    /\ UNCHANGED <<gen, sgen, buf, slot>>

\* The processor drains the delayed store.
Flush(s) ==
    /\ buf[s] # NoStore
    /\ sgen' = [sgen EXCEPT ![s] = buf[s]]
    /\ buf' = [buf EXCEPT ![s] = NoStore]
    /\ UNCHANGED <<gen, pc, tmp, slot>>

\* __wt_session_gen_leave: it ends in a full barrier, nothing stays delayed.
Leave(s) ==
    /\ pc[s] = "inside"
    /\ sgen' = [sgen EXCEPT ![s] = 0]
    /\ buf' = [buf EXCEPT ![s] = NoStore]
    /\ Goto(s, "idle")
    /\ UNCHANGED <<gen, tmp, slot>>

---------------------------------------------------------------------------
\* __wt_gen_next: an atomic increment.
GenNext == gen < MaxGen /\ gen' = gen + 1

\* __wt_gen_next_drain(s) begins: the session waits for generation tmp[s].
DrainStart(s, from) ==
    /\ pc[s] = from
    /\ GenNext
    /\ tmp' = [tmp EXCEPT ![s] = gen + 1]
    /\ slot' = [slot EXCEPT ![s] = 1]
    /\ Goto(s, "drain")
    /\ UNCHANGED <<sgen, buf>>

\* Mutant: the drain waits for every session to be outside at some time.
DrainedOutside(v, generation) == v = 0

\* A session is no obstacle to the generation the drain waits for.
Drained(v, generation) == v = 0 \/ v >= generation

\* One slot of __wt_gen_drain's loop: it waits until the slot's session has
\* left or is in the new generation, then looks at the next slot.
DrainSlot(s) ==
    /\ pc[s] = "drain"
    /\ slot[s] <= N
    /\ Drained(sgen[slot[s]], tmp[s])
    /\ slot' = [slot EXCEPT ![s] = @ + 1]
    /\ UNCHANGED <<gen, sgen, buf, pc, tmp>>

---------------------------------------------------------------------------
\* __gen_oldest: start from the connection's generation and take the minimum
\* over the sessions inside.  tmp[s] is the local variable oldest.

OldestStart(s) ==
    /\ pc[s] = "discard"
    /\ tmp' = [tmp EXCEPT ![s] = gen]
    /\ slot' = [slot EXCEPT ![s] = 1]
    /\ Goto(s, "oldest")
    /\ UNCHANGED <<gen, sgen, buf>>

\* Mutant: the last session inside counts, not the oldest.
OldestOfLast(v, oldest) == IF v # 0 THEN v ELSE oldest

OldestOf(v, oldest) == IF v # 0 /\ v < oldest THEN v ELSE oldest

OldestSlot(s) ==
    /\ pc[s] = "oldest"
    /\ slot[s] <= N
    /\ tmp' = [tmp EXCEPT ![s] = OldestOf(sgen[slot[s]], @)]
    /\ slot' = [slot EXCEPT ![s] = @ + 1]
    /\ UNCHANGED <<gen, sgen, buf, pc>>

---------------------------------------------------------------------------
\* The steps of the protocol at which a session can be.
GenSteps == {"idle", "enter_store", "enter_check", "inside", "drain", "discard", "oldest"}

\* Types of the protocol's variables; pc is left to the users of the protocol.
GenTypeOK ==
    /\ gen \in 1 .. MaxGen
    /\ sgen \in [Sessions -> 0 .. MaxGen]
    /\ buf \in [Sessions -> 0 .. MaxGen]
    /\ tmp \in [Sessions -> 0 .. MaxGen]
    /\ slot \in [Sessions -> 1 .. N + 1]
===========================================================================
