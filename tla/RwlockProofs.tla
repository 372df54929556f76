----------------------------- MODULE RwlockProofs -----------------------------
(***************************************************************************)
(* The ticket lock is correct for any finite set of threads and any width  *)
(* of the ticket counters: the inductive invariant IInv holds, and the     *)
(* lock implements the readers-writer lock RwlockSpec.                     *)
(***************************************************************************)
EXTENDS Rwlock, FiniteSetTheorems, TLAPS

Ticket == 0..(Tickets - 1)

\* Advancing the served ticket brings every other ticket one closer.
LEMMA DistServe ==
  ASSUME NEW a \in Ticket, NEW b \in Ticket, a # b
  PROVE  /\ Inc(a) \in Ticket
         /\ Dist(Inc(a), b) = Dist(a, b) - 1
         /\ Dist(a, b) > 0
         /\ Inc(a) # a
BY TicketsAssumption DEF Ticket, Inc, Dist

\* Handing out a ticket moves the next one away from the served one.
LEMMA DistHandOut ==
  ASSUME NEW a \in Ticket, NEW b \in Ticket, Inc(b) # a
  PROVE  /\ Inc(b) \in Ticket
         /\ Dist(a, Inc(b)) = Dist(a, b) + 1
BY TicketsAssumption DEF Ticket, Inc, Dist

\* Equal distances from the served ticket mean equal tickets.
LEMMA DistInjective ==
  ASSUME NEW a \in Ticket, NEW b \in Ticket, NEW c \in Ticket
  PROVE  /\ Dist(a, b) \in Nat
         /\ Dist(a, a) = 0
         /\ Dist(a, b) = Dist(a, c) => b = c
         /\ Dist(a, b) = 0 <=> a = b
BY TicketsAssumption DEF Ticket, Dist

\* Counting a set of threads that gains or loses one member.
LEMMA CountAdd ==
  ASSUME NEW S \in SUBSET Threads, NEW t \in Threads, t \notin S
  PROVE  Cardinality(S \cup {t}) = Cardinality(S) + 1
BY ThreadsAssumption, FS_Subset, FS_AddElement

\* The count of a set of threads that loses a member.
LEMMA CountRemove ==
  ASSUME NEW S \in SUBSET Threads, NEW t \in S
  PROVE  Cardinality(S \ {t}) = Cardinality(S) - 1
BY ThreadsAssumption, FS_Subset, FS_RemoveElement

\* A set of threads counts zero exactly when it is empty.
LEMMA CountEmpty ==
  ASSUME NEW S \in SUBSET Threads
  PROVE  /\ Cardinality(S) \in Nat
         /\ Cardinality(S) = 0 <=> S = {}
BY ThreadsAssumption, FS_Subset, FS_EmptySet, FS_CardinalityType

-----------------------------------------------------------------------------

\* The invariant holds of the zeroed lock word of __wt_rwlock_init.
LEMMA InitIInv == Init => IInv
<1> SUFFICES ASSUME Init PROVE IInv
  OBVIOUS
<1>1. TypeOK
  BY TicketsAssumption, ActiveMaxAssumption DEF Init, TypeOK
<1>2. Queued = {} /\ Active = {}
  BY DEF Init, Queued, Active
<1>3. CountsExact
  BY <1>2, FS_EmptySet DEF Init, CountsExact
<1>4. QueueTicket /\ TicketsDistinct /\ WriterServed
  BY <1>2 DEF Init, QueueTicket, TicketsDistinct, Ticketed, WriterServed
<1> QED BY <1>1, <1>3, <1>4 DEF IInv

\* Joining the group of readers that has the lock keeps the invariant: the
\* count grows by the thread that joins, and no ticket is outstanding.
LEMMA JoinIInv ==
  ASSUME IInv, NEW t \in Threads, pc[t] \in {"idle", "rstall"}, JoinCurrentGroup(t)
  PROVE  IInv'
<1> USE DEF IInv, JoinCurrentGroup, Goto
<1>1. TypeOK'
  BY ActiveMaxAssumption DEF TypeOK
<1>2. Queued' = Queued /\ Active' = Active \cup {t} /\ t \notin Active
  BY DEF TypeOK, Queued, Active
<1>3. CountsExact'
  <2>1. Cardinality(Active') = Cardinality(Active) + 1
    BY <1>2, CountAdd DEF Active
  <2> QED BY <1>2, <2>1 DEF CountsExact
<1>4. Ticketed' = Ticketed
  BY DEF TypeOK, Ticketed
<1>5. QueueTicket' /\ TicketsDistinct'
  BY <1>2, <1>4 DEF QueueTicket, TicketsDistinct, Dist
<1>6. WriterServed'
  <2>1. Dist(current, next) = 0
    BY DistInjective DEF TypeOK, Ticket
  <2>2. Ticketed = {}
    BY <2>1, DistInjective DEF TypeOK, Ticket, TicketsDistinct, Ticketed
  <2> QED BY <2>2 DEF WriterServed, Ticketed, TypeOK
<1> QED BY <1>1, <1>3, <1>5, <1>6

\* A reader that queues (__wt_readlock) takes the ticket of the readers queued
\* before it, or the next one to be handed out: both lie behind the served one.
LEMMA QueueIInv ==
  ASSUME IInv, NEW t \in Threads, ReadLockQueue(t)
  PROVE  IInv'
<1> USE DEF IInv, ReadLockQueue, Goto
<1>1. TypeOK'
  BY TicketsAssumption DEF TypeOK, QueueFull, WritersActive
<1>2. reader' # current /\ 0 < Dist(current, reader') /\ Dist(current, reader') <= Dist(current, next)
  <2>1. CASE readers_queued = 0
    BY <2>1, DistInjective DEF TypeOK, Ticket
  <2>2. CASE readers_queued # 0
    <3>1. Queued # {}
      BY <2>2, CountEmpty DEF CountsExact, Queued
    <3> QED BY <2>2, <3>1, DistInjective DEF QueueTicket, TypeOK, Ticket
  <2> QED BY <2>1, <2>2
<1>3. Queued' = Queued \cup {t} /\ t \notin Queued /\ Active' = Active
  BY <1>2 DEF TypeOK, Queued, Active
<1>4. CountsExact'
  <2>1. Cardinality(Queued') = Cardinality(Queued) + 1
    BY <1>3, CountAdd DEF Queued
  <2> QED BY <1>3, <2>1 DEF CountsExact
<1>5. QueueTicket'
  <2>1. ASSUME NEW u \in Queued PROVE ticket[u] = reader'
    <3>1. readers_queued # 0
      BY <2>1, CountEmpty DEF CountsExact, Queued
    <3> QED BY <2>1, <3>1 DEF QueueTicket
  <2>2. \A u \in Queued' : ticket'[u] = reader'
    BY <1>3, <2>1 DEF TypeOK, Queued
  <2> QED BY <1>2, <2>2 DEF QueueTicket, Dist
<1>6. Ticketed' = Ticketed /\ \A u \in Ticketed : ticket'[u] = ticket[u]
  BY DEF TypeOK, Ticketed
<1>7. TicketsDistinct' /\ WriterServed'
  BY <1>6 DEF TicketsDistinct, WriterServed, Dist, Ticketed, TypeOK
<1> QED BY <1>1, <1>4, <1>5, <1>7

\* The steps that only move a thread's program counter, without touching the
\* lock word or which sets the thread counts in.
LEMMA MoveIInv ==
  ASSUME IInv, NEW t \in Threads,
         ReadLockStall(t) \/ ReadLockGranted(t) \/ WriteLockStall(t)
  PROVE  IInv'
<1> USE DEF IInv, ReadLockStall, ReadLockGranted, WriteLockStall, Goto, word
<1>1. TypeOK'
  BY DEF TypeOK
<1>2. Queued' = Queued /\ Active' = Active /\ Ticketed' = Ticketed
  BY DEF TypeOK, Queued, Active, Ticketed
<1>3. CountsExact' /\ QueueTicket' /\ TicketsDistinct'
  BY <1>2 DEF CountsExact, QueueTicket, TicketsDistinct, Dist
<1>4. WriterServed'
  BY DEF WriterServed, TypeOK
<1> QED BY <1>1, <1>3, <1>4

\* __wt_readunlock takes one reader off the count.
LEMMA ReadUnlockIInv ==
  ASSUME IInv, NEW t \in Threads, ReadUnlock(t)
  PROVE  IInv'
<1> USE DEF IInv, ReadUnlock, Goto, Return
<1>1. t \in Active /\ Queued' = Queued /\ Active' = Active \ {t} /\ Ticketed' = Ticketed
  BY DEF TypeOK, Queued, Active, Ticketed
<1>2. Cardinality(Active') = Cardinality(Active) - 1 /\ readers_active # 0
  BY <1>1, CountRemove, CountEmpty DEF Active, CountsExact
<1>3. TypeOK'
  BY <1>2, TicketsAssumption, ActiveMaxAssumption DEF TypeOK
<1>4. CountsExact'
  BY <1>1, <1>2 DEF CountsExact
<1>5. \A u \in Queued \cup Ticketed : ticket'[u] = ticket[u]
  BY DEF TypeOK, Queued, Ticketed
<1>6. QueueTicket' /\ TicketsDistinct'
  BY <1>1, <1>5 DEF QueueTicket, TicketsDistinct, Dist
<1>7. WriterServed'
  BY <1>2 DEF WriterServed, TypeOK
<1> QED BY <1>3, <1>4, <1>6, <1>7

\* Taking a ticket, with or without waiting for it to be served.
LEMMA TicketIInv ==
  ASSUME IInv, NEW t \in Threads, WriteLockTicket(t) \/ TryWriteLock(t)
  PROVE  IInv'
<1> USE DEF IInv, WriteLockTicket, TryWriteLock, Goto
<1>1. Inc(next) # current
  BY TicketsAssumption DEF TypeOK, Inc
<1>2. next' \in Ticket /\ Dist(current, next') = Dist(current, next) + 1
  BY <1>1, DistHandOut DEF TypeOK, Ticket
<1>3. TypeOK'
  BY <1>2 DEF TypeOK, Ticket
<1>4. Queued' = Queued /\ Active' = Active /\ Ticketed' = Ticketed \cup {t} /\ t \notin Ticketed
  BY DEF TypeOK, Queued, Active, Ticketed
<1>5. CountsExact'
  BY <1>4 DEF CountsExact
<1>6. \A u \in Queued \cup Ticketed : ticket'[u] = ticket[u]
  BY <1>4 DEF TypeOK, Queued, Ticketed
<1>7. QueueTicket'
  BY <1>2, <1>4, <1>6, DistInjective DEF QueueTicket, TypeOK, Ticket, Dist
<1>8. \A u \in Ticketed : ticket[u] # next
  BY DistInjective DEF TicketsDistinct, TypeOK, Ticket, Ticketed
<1>9. ticket'[t] = next
  BY DEF TypeOK
<1>10. TicketsDistinct'
  <2>1. \A u \in Ticketed' : Dist(current', ticket'[u]) < Dist(current', next')
    BY <1>2, <1>4, <1>6, <1>9, DistInjective DEF TicketsDistinct, TypeOK, Ticket, Ticketed
  <2>2. \A u, v \in Ticketed' : ticket'[u] = ticket'[v] => u = v
    BY <1>4, <1>6, <1>8, <1>9 DEF TicketsDistinct
  <2> QED BY <2>1, <2>2 DEF TicketsDistinct, Dist
<1>11. WriterServed'
  BY <1>6, <1>9 DEF WriterServed, TypeOK, Ticketed
<1> QED BY <1>3, <1>5, <1>7, <1>10, <1>11

\* A writer whose ticket is served, when no reader is active, is the one the
\* served ticket belongs to.
LEMMA WriteGrantedIInv ==
  ASSUME IInv, NEW t \in Threads, WriteLockGranted(t)
  PROVE  IInv'
<1> USE DEF IInv, WriteLockGranted, Goto, word
<1>1. TypeOK'
  BY DEF TypeOK
<1>2. Queued' = Queued /\ Active' = Active /\ Ticketed' = Ticketed
  BY DEF TypeOK, Queued, Active, Ticketed
<1>3. CountsExact' /\ QueueTicket' /\ TicketsDistinct'
  BY <1>2 DEF CountsExact, QueueTicket, TicketsDistinct, Dist
<1>4. WriterServed'
  BY DEF WriterServed, TypeOK
<1> QED BY <1>1, <1>3, <1>4

\* __wt_writeunlock serves the next ticket and, if it is the readers' one,
\* activates the whole queue: each ticket comes one closer.
LEMMA WriteUnlockIInv ==
  ASSUME IInv, NEW t \in Threads, WriteUnlock(t)
  PROVE  IInv'
<1> USE DEF IInv, WriteUnlock, Goto, Return
<1>1. t \in Ticketed /\ ticket[t] = current /\ readers_active = 0 /\ Active = {}
  BY CountEmpty DEF WriterServed, Ticketed, CountsExact, Active
<1>2. current # next
  BY <1>1, DistInjective DEF TicketsDistinct, TypeOK, Ticket
<1>3. /\ current' \in Ticket /\ current' # current
      /\ Dist(current', next) = Dist(current, next) - 1
  BY <1>2, DistServe DEF TypeOK, Ticket
<1>4. TypeOK'
  BY <1>3, ActiveMaxAssumption, TicketsAssumption DEF TypeOK, Ticket
<1>5. \A u \in Threads : pc[u] = "rwait" => u \in Queued
  BY <1>1 DEF Active, Queued
<1>6. \A u \in Threads \ {t} : ticket'[u] = ticket[u] /\ pc'[u] = pc[u]
  BY DEF TypeOK
<1>7. pc'[t] = "idle" /\ t \notin Queued
  BY DEF TypeOK, Queued
<1>8. CountsExact'
  <2>1. CASE current' = reader
    <3>1. Queued' = {} /\ Active' = Queued
      BY <1>1, <1>5, <1>6, <1>7, <2>1 DEF Queued, Active, QueueTicket
    <3> QED BY <2>1, <3>1, FS_EmptySet DEF CountsExact
  <2>2. CASE current' # reader
    <3>1. Active' = {} /\ Queued' = Queued
      BY <1>1, <1>5, <1>6, <1>7, <2>2 DEF Queued, Active, QueueTicket
    <3> QED BY <2>2, <3>1, <1>1, FS_EmptySet DEF CountsExact
  <2> QED BY <2>1, <2>2
<1>9. QueueTicket'
  <2>1. \A u \in Queued' : u \in Queued /\ ticket'[u] = ticket[u]
    BY <1>5, <1>6, <1>7 DEF Queued
  <2>2. Queued' # {} => reader # current' /\ reader # current
    BY <2>1, DistInjective DEF Queued, QueueTicket
  <2>3. Queued' # {} => Dist(current', reader) = Dist(current, reader) - 1
    BY <2>2, DistServe DEF TypeOK, Ticket
  <2>4. Queued' # {} => Dist(current', reader) # 0
    BY <1>3, <2>2, DistInjective DEF TypeOK, Ticket
  <2>5. Queued' # {} => /\ 0 < Dist(current', reader)
                       /\ Dist(current', reader) <= Dist(current', next)
    BY <1>3, <2>1, <2>3, <2>4, DistInjective DEF QueueTicket, TypeOK, Ticket
  <2> QED BY <2>1, <2>5 DEF QueueTicket, Dist
<1>10. TicketsDistinct'
  <2>1. \A u \in Ticketed' : u \in Ticketed /\ u # t /\ ticket'[u] = ticket[u]
    BY <1>6, <1>7 DEF Ticketed
  <2>2. \A u \in Ticketed' : ticket[u] # current
    BY <1>1, <2>1 DEF TicketsDistinct
  <2>3. \A u \in Ticketed' : Dist(current', ticket[u]) = Dist(current, ticket[u]) - 1
    BY <2>1, <2>2, DistServe DEF TypeOK, Ticket, Ticketed
  <2>4. \A u \in Ticketed' : Dist(current', ticket'[u]) < Dist(current', next)
    BY <1>3, <2>1, <2>3, DistInjective DEF TicketsDistinct, TypeOK, Ticket, Ticketed
  <2> QED BY <2>1, <2>4 DEF TicketsDistinct, Dist
<1>11. WriterServed'
  <2>1. \A u \in Threads : pc'[u] = "wheld" => u \in Ticketed /\ u # t /\ ticket[u] = current
    BY <1>6, <1>7 DEF WriterServed, Ticketed
  <2>2. \A u \in Threads : pc'[u] # "wheld"
    BY <1>1, <2>1 DEF TicketsDistinct
  <2> QED BY <2>2 DEF WriterServed
<1> QED BY <1>4, <1>8, <1>9, <1>10, <1>11

\* Every step of every thread preserves the invariant.
LEMMA NextIInv == IInv /\ [Next]_vars => IInv'
<1> SUFFICES ASSUME IInv, [Next]_vars PROVE IInv'
  OBVIOUS
<1>1. CASE UNCHANGED vars
  BY <1>1 DEF vars, IInv, TypeOK, CountsExact, QueueTicket, TicketsDistinct, WriterServed,
              Queued, Active, Ticketed, Dist
<1>2. ASSUME NEW t \in Threads, Step(t) PROVE IInv'
  BY <1>2, JoinIInv, QueueIInv, MoveIInv, ReadUnlockIInv, TicketIInv, WriteGrantedIInv,
     WriteUnlockIInv DEF Step, TryReadLock, ReadLockFast
<1> QED BY <1>1, <1>2 DEF Next

\* The lock's invariant holds in every reachable state: the reader counts are
\* exact and no two writers share a ticket, for every ticket width.
THEOREM LockInvariant == Spec => []IInv
BY InitIInv, NextIInv, PTL DEF Spec

-----------------------------------------------------------------------------

\* Owning the lock excludes others: at most one writer, and no reader with it.
LEMMA Exclusion ==
  ASSUME IInv
  PROVE  /\ \A t, u \in Owners("wheld") : t = u
         /\ Owners("wheld") # {} => Active = {}
<1>1. ASSUME NEW t \in Owners("wheld"), NEW u \in Owners("wheld") PROVE t = u
  BY DEF IInv, Owners, WriterServed, TicketsDistinct, Ticketed
<1>2. ASSUME NEW t \in Owners("wheld") PROVE Active = {}
  BY CountEmpty DEF IInv, Owners, WriterServed, CountsExact, Active
<1> QED BY <1>1, <1>2

\* The initial states of the lock are initial states of RwlockSpec.
LEMMA InitAbstract == Init => Abstract!Init
BY DEF Init, Abstract!Init, Owners

\* A step of the ticket lock is a step of the abstract lock or changes no owner.
LEMMA StepAbstract ==
  ASSUME IInv, NEW t \in Threads, Step(t)
  PROVE  Abstract!Next \/ UNCHANGED Abstract!rwvars
<1> USE DEF Owners, Goto, Return, IInv, TypeOK
<1>0. pc \in [Threads -> {"idle", "rstall", "rwait", "rheld", "wstall", "wwait", "wheld"}]
  OBVIOUS
<1>1. CASE TryReadLock(t) \/ ReadLockFast(t) \/ ReadLockGranted(t)
  <2>1. pc' = [pc EXCEPT ![t] = "rheld"] /\ pc[t] # "rheld" /\ pc[t] # "wheld"
    BY <1>1 DEF TryReadLock, ReadLockFast, ReadLockGranted, JoinCurrentGroup
  <2>2. Owners("wheld") = {}
    <3>1. CASE current = next
      BY <3>1, DistInjective DEF Ticket, TicketsDistinct, Ticketed
    <3>2. CASE ReadLockGranted(t)
      BY <3>2, Exclusion DEF ReadLockGranted, Active
    <3> QED BY <1>1, <3>1, <3>2 DEF TryReadLock, ReadLockFast, JoinCurrentGroup
  <2>3. Owners("rheld")' = Owners("rheld") \cup {t} /\ Owners("wheld")' = Owners("wheld")
    BY <2>1, <1>0
  <2>4. Abstract!AcquireRead(t)
    BY <2>1, <2>2, <2>3 DEF Abstract!AcquireRead, Abstract!MayRead
  <2> QED BY <2>4 DEF Abstract!Next
<1>2. CASE TryWriteLock(t) \/ WriteLockGranted(t)
  <2>1. pc' = [pc EXCEPT ![t] = "wheld"] /\ pc[t] # "rheld" /\ pc[t] # "wheld" /\ readers_active = 0
    BY <1>2 DEF TryWriteLock, WriteLockGranted
  <2>2. Owners("rheld") = {}
    BY <2>1, CountEmpty DEF CountsExact, Active
  <2>3. Owners("wheld") = {}
    <3>1. CASE TryWriteLock(t)
      BY <3>1, DistInjective DEF TryWriteLock, Ticket, TicketsDistinct, Ticketed
    <3>2. CASE WriteLockGranted(t)
      BY <3>2 DEF WriteLockGranted, WriterServed, TicketsDistinct, Ticketed
    <3> QED BY <1>2, <3>1, <3>2
  <2>4. Owners("rheld")' = Owners("rheld") /\ Owners("wheld")' = {t}
    BY <2>1, <2>3, <1>0
  <2>5. Abstract!AcquireWrite(t)
    BY <2>2, <2>3, <2>4 DEF Abstract!AcquireWrite, Abstract!MayWrite
  <2> QED BY <2>5 DEF Abstract!Next
<1>3. CASE ReadUnlock(t)
  <2>1. Owners("rheld")' = Owners("rheld") \ {t} /\ Owners("wheld")' = Owners("wheld")
    BY <1>3, <1>0 DEF ReadUnlock
  <2>2. Abstract!ReleaseRead(t)
    BY <1>3, <2>1 DEF Abstract!ReleaseRead, ReadUnlock
  <2> QED BY <2>2 DEF Abstract!Next
<1>4. CASE WriteUnlock(t)
  <2>1. Owners("wheld")' = Owners("wheld") \ {t} /\ Owners("rheld")' = Owners("rheld")
    BY <1>4, <1>0 DEF WriteUnlock
  <2>2. Abstract!ReleaseWrite(t)
    BY <1>4, <2>1 DEF Abstract!ReleaseWrite, WriteUnlock
  <2> QED BY <2>2 DEF Abstract!Next
<1>5. CASE ReadLockStall(t) \/ ReadLockQueue(t) \/ WriteLockStall(t) \/ WriteLockTicket(t)
  <2>1. Owners("rheld")' = Owners("rheld") /\ Owners("wheld")' = Owners("wheld")
    BY <1>5, <1>0 DEF ReadLockStall, ReadLockQueue, WriteLockStall, WriteLockTicket
  <2> QED BY <2>1 DEF Abstract!rwvars
<1> QED BY <1>1, <1>2, <1>3, <1>4, <1>5 DEF Step

\* The ticket lock implements the readers-writer lock its callers rely on.
THEOREM LockImplements == Spec => ImplementsRwlock
<1>1. IInv /\ [Next]_vars => [Abstract!Next]_(Abstract!rwvars)
  <2> SUFFICES ASSUME IInv, [Next]_vars PROVE [Abstract!Next]_(Abstract!rwvars)
    OBVIOUS
  <2>1. CASE UNCHANGED vars
    BY <2>1 DEF vars, Abstract!rwvars, Owners
  <2>2. CASE Next
    BY <2>2, StepAbstract DEF Next
  <2> QED BY <2>1, <2>2
<1> QED BY <1>1, InitAbstract, LockInvariant, PTL DEF Spec, ImplementsRwlock, Abstract!Spec
=============================================================================
