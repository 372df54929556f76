-------------------------------- MODULE Rwlock --------------------------------
(***************************************************************************)
(* The read/write ticket lock of support/mtx_rw.c.                         *)
(*                                                                         *)
(* The five fields of the 64-bit lock word are five variables; every       *)
(* update in the code is one compare-and-swap of the whole word, so each   *)
(* successful swap is one atomic action, and a failed swap, which only     *)
(* retries, is a stutter.  A thread's program counter says where in        *)
(* __wt_readlock / __wt_writelock it is; ticket is its local variable.     *)
(* The waits on cond_readers and cond_writers all have a timeout and       *)
(* re-test the lock word, so the condition variables only affect latency   *)
(* and are not represented.                                                *)
(***************************************************************************)
EXTENDS Integers, FiniteSets

CONSTANTS
    Threads,    \* the sessions using the lock
    Tickets,    \* number of values of a uint8_t field: 256 in the code
    ActiveMax   \* number of values of readers_active: 2^32 in the code

ASSUME TicketsAssumption == Tickets \in Nat /\ Tickets >= 2
ASSUME ActiveMaxAssumption == ActiveMax \in Nat /\ ActiveMax >= Tickets
ASSUME ThreadsAssumption == IsFiniteSet(Threads)

VARIABLES
    current,         \* ticket being served
    next,            \* next ticket to hand out
    reader,          \* ticket of the group of queued readers
    readers_queued,  \* how many readers are queued
    readers_active,  \* how many readers own the lock
    pc,              \* where each thread is
    ticket           \* each thread's local ticket

word == <<current, next, reader, readers_queued, readers_active>>

vars == <<current, next, reader, readers_queued, readers_active, pc, ticket>>

-----------------------------------------------------------------------------

\* uint8_t increment.
Inc(x) == IF x = Tickets - 1 THEN 0 ELSE x + 1

\* The distance from one ticket to another, going up and wrapping.
Dist(a, b) == IF a <= b THEN b - a ELSE (b - a) + Tickets

\* The code's "writers_active": an int16_t difference of two promoted uint8_t
\* values, so it is negative when next has wrapped and current has not.
WritersActive == next - current

\* The condition on which a reader is not allowed to queue.
QueueFull == readers_queued = Tickets - 1 \/ readers_queued > WritersActive

Goto(t, label) == pc' = [pc EXCEPT ![t] = label]

\* The unlock functions return; the thread's local ticket is dead from here on.
Return(t) ==
    /\ Goto(t, "idle")
    /\ ticket' = [ticket EXCEPT ![t] = 0]

-----------------------------------------------------------------------------

\* __wt_rwlock_init
Init ==
    /\ current = 0
    /\ next = 0
    /\ reader = 0
    /\ readers_queued = 0
    /\ readers_active = 0
    /\ pc = [t \in Threads |-> "idle"]
    /\ ticket = [t \in Threads |-> 0]

JoinCurrentGroupUnguarded(t) ==
    /\ readers_active + 1 < ActiveMax
    /\ readers_active' = readers_active + 1
    /\ Goto(t, "rheld")
    /\ UNCHANGED <<current, next, reader, readers_queued, ticket>>

JoinPastWaitingWriters(t) ==
    /\ current = next \/ readers_active > 0
    /\ readers_active + 1 < ActiveMax
    /\ readers_active' = readers_active + 1
    /\ Goto(t, "rheld")
    /\ UNCHANGED <<current, next, reader, readers_queued, ticket>>

\* The swap that adds an active reader when there are no writers.
JoinCurrentGroup(t) ==
    /\ current = next
    /\ readers_active + 1 < ActiveMax
    /\ readers_active' = readers_active + 1
    /\ Goto(t, "rheld")
    /\ UNCHANGED <<current, next, reader, readers_queued, ticket>>

\* __wt_try_readlock, when it succeeds.  (Returning EBUSY changes nothing.)
TryReadLock(t) == pc[t] = "idle" /\ JoinCurrentGroup(t)

\* __wt_readlock, fast path.
ReadLockFast(t) == pc[t] \in {"idle", "rstall"} /\ JoinCurrentGroup(t)

\* __wt_readlock, neither path is open: wait on cond_readers and start again.
ReadLockStall(t) ==
    /\ pc[t] = "idle"
    /\ IF current = next THEN readers_active + 1 = ActiveMax ELSE QueueFull
    /\ Goto(t, "rstall")
    /\ UNCHANGED <<word, ticket>>

\* __wt_readlock, a writer is active: join (or open) the next group.
ReadLockQueue(t) ==
    /\ pc[t] \in {"idle", "rstall"}
    /\ current # next
    /\ ~QueueFull
    /\ readers_queued' = readers_queued + 1
    /\ reader' = IF readers_queued = 0 THEN next ELSE reader
    /\ ticket' = [ticket EXCEPT ![t] = reader']
    /\ Goto(t, "rwait")
    /\ UNCHANGED <<current, next, readers_active>>

\* __wt_readlock, the queued reader's group starts.
ReadLockGranted(t) ==
    /\ pc[t] = "rwait"
    /\ ticket[t] = current
    /\ Goto(t, "rheld")
    /\ UNCHANGED <<word, ticket>>

\* __wt_readunlock
ReadUnlock(t) ==
    /\ pc[t] = "rheld"
    /\ readers_active' = readers_active - 1
    /\ Return(t)
    /\ UNCHANGED <<current, next, reader, readers_queued>>

\* __wt_try_writelock, when it succeeds.
TryWriteLock(t) ==
    /\ pc[t] = "idle"
    /\ current = next
    /\ readers_active = 0
    /\ ticket' = [ticket EXCEPT ![t] = next]
    /\ next' = Inc(next)
    /\ Goto(t, "wheld")
    /\ UNCHANGED <<current, reader, readers_queued, readers_active>>

\* __wt_writelock, all tickets are handed out: wait on cond_writers.
WriteLockStall(t) ==
    /\ pc[t] = "idle"
    /\ Inc(next) = current
    /\ Goto(t, "wstall")
    /\ UNCHANGED <<word, ticket>>

WriteLockTicketOverflow(t) ==
    /\ pc[t] \in {"idle", "wstall"}
    /\ ticket' = [ticket EXCEPT ![t] = next]
    /\ next' = Inc(next)
    /\ Goto(t, "wwait")
    /\ UNCHANGED <<current, reader, readers_queued, readers_active>>

\* __wt_writelock, take a ticket.
WriteLockTicket(t) ==
    /\ pc[t] \in {"idle", "wstall"}
    /\ Inc(next) # current
    /\ ticket' = [ticket EXCEPT ![t] = next]
    /\ next' = Inc(next)
    /\ Goto(t, "wwait")
    /\ UNCHANGED <<current, reader, readers_queued, readers_active>>

\* __wt_writelock, the ticket is served and the group's readers are gone.
WriteLockGranted(t) ==
    /\ pc[t] = "wwait"
    /\ ticket[t] = current
    /\ readers_active = 0
    /\ Goto(t, "wheld")
    /\ UNCHANGED <<word, ticket>>

WriteUnlockForgetsQueue(t) ==
    /\ pc[t] = "wheld"
    /\ current' = Inc(current)
    /\ IF current' = reader
         THEN readers_active' = readers_queued
         ELSE UNCHANGED readers_active
    /\ Return(t)
    /\ UNCHANGED <<next, reader, readers_queued>>

\* __wt_writeunlock
WriteUnlock(t) ==
    /\ pc[t] = "wheld"
    /\ current' = Inc(current)
    /\ IF current' = reader
         THEN readers_active' = readers_queued /\ readers_queued' = 0
         ELSE UNCHANGED <<readers_active, readers_queued>>
    /\ Return(t)
    /\ UNCHANGED <<next, reader>>

Step(t) ==
    \/ TryReadLock(t)
    \/ ReadLockFast(t)
    \/ ReadLockStall(t)
    \/ ReadLockQueue(t)
    \/ ReadLockGranted(t)
    \/ ReadUnlock(t)
    \/ TryWriteLock(t)
    \/ WriteLockStall(t)
    \/ WriteLockTicket(t)
    \/ WriteLockGranted(t)
    \/ WriteUnlock(t)

Next == \E t \in Threads : Step(t)

Spec == Init /\ [][Next]_vars

\* A thread that owns the lock releases it (every caller in the tree pairs the
\* calls), and a waiting thread keeps re-testing the lock word: it spins, and
\* its waits on the condition variables end after 10 ms at the latest.  Nothing
\* makes a thread ask for the lock, and a stalled request has no ordering.
Fairness ==
    \A t \in Threads :
        /\ WF_vars(ReadLockGranted(t))
        /\ WF_vars(ReadUnlock(t))
        /\ WF_vars(WriteLockGranted(t))
        /\ WF_vars(WriteUnlock(t))

FairSpec == Spec /\ Fairness

-----------------------------------------------------------------------------

\* The lock word's fields stay in the range of their C types.
TypeOK ==
    /\ current \in 0..(Tickets - 1)
    /\ next \in 0..(Tickets - 1)
    /\ reader \in 0..(Tickets - 1)
    /\ readers_queued \in 0..(Tickets - 1)
    /\ readers_active \in 0..(ActiveMax - 1)
    /\ pc \in [Threads ->
         {"idle", "rstall", "rwait", "rheld", "wstall", "wwait", "wheld"}]
    /\ ticket \in [Threads -> 0..(Tickets - 1)]

\* Readers waiting for their group to start.
Queued == {t \in Threads : pc[t] = "rwait" /\ ticket[t] # current}

\* Readers whose group has started, whether they noticed it yet or not.
Active ==
    {t \in Threads : pc[t] = "rheld" \/ (pc[t] = "rwait" /\ ticket[t] = current)}

\* Threads that hold a write ticket.
Ticketed == {t \in Threads : pc[t] \in {"wwait", "wheld"}}

\* The two counters of the lock word never lose or invent a reader, although
\* __wt_writeunlock turns all queued readers into active ones in one swap.
CountsExact ==
    /\ readers_queued = Cardinality(Queued)
    /\ readers_active = Cardinality(Active)

\* Queued readers share one ticket, at or before the next one and after current.
QueueTicket ==
    /\ \A t \in Queued : ticket[t] = reader
    /\ Queued # {} => /\ 0 < Dist(current, reader)
                      /\ Dist(current, reader) <= Dist(current, next)

\* The 8-bit tickets wrap, yet no two writers ever hold the same one, and all
\* of them lie between current and next.
TicketsDistinct ==
    /\ \A t \in Ticketed : Dist(current, ticket[t]) < Dist(current, next)
    /\ \A t, u \in Ticketed : ticket[t] = ticket[u] => t = u

\* Whoever returned from __wt_writelock is being served and no reader is in:
\* the assertion at the end of the function, at every later moment too.
WriterServed ==
    \A t \in Threads : pc[t] = "wheld" => ticket[t] = current /\ readers_active = 0

\* The inductive invariant of the lock.
IInv ==
    /\ TypeOK
    /\ CountsExact
    /\ QueueTicket
    /\ TicketsDistinct
    /\ WriterServed

\* The owners, for the abstract specification.
Owners(label) == {t \in Threads : pc[t] = label}

Abstract == INSTANCE RwlockSpec
    WITH readers <- Owners("rheld"), writers <- Owners("wheld")

\* The ticket lock implements a readers-writer lock.
ImplementsRwlock == Abstract!Spec

\* A reader that got a queue position is eventually let in, and a writer that got a
\* ticket eventually owns the lock, whatever requests arrive after theirs.
QueuedServed ==
    \A t \in Threads : /\ pc[t] = "rwait" ~> pc[t] = "rheld"
                       /\ pc[t] = "wwait" ~> pc[t] = "wheld"
=============================================================================
