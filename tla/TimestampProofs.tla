-------------------------- MODULE TimestampProofs --------------------------
(* The global timestamps keep their order, no history is given up that is still   *)
(* needed, and all_durable includes only transactions that have ended: for any    *)
(* number of sessions in any roles, any timestamps and any transactions, provided *)
(* that the global timestamps have been set once (Start # NONE).                  *)
EXTENDS Timestamp, FiniteSetTheorems, WellFoundedInduction, TLAPS

Labels ==
    {"idle", "publish", "resolve", "clear", "undo", "gen_next", "durable", "verify", "panic",
     "snapshot", "query", "set", "update_pinned", "scan", "pin", "ask",
     "ckpt_share", "ckpt_bump", "ckpt_write"}

\* The places of a session whose transaction has ended and is being cleaned up after,
\* with the ones of a commit.
Committed == {"clear", "gen_next", "durable", "verify"}
Ended == Committed \cup {"undo"}

\* Types, with the places of sessions and of walks, which TypeOK leaves out.
Locals == [slot : Nat, ts : Nat, oldest : Nat, stable : Nat]
Txns == [state : {"none", "running", "prepared", "reading", "reading_at", "checkpoint"},
         id : Nat, durable : Nat, commit : BOOLEAN, gen : Nat, seen : SUBSET Nat]
GlobalType ==
    /\ oldest \in Nat /\ stable \in Nat /\ durable \in Nat /\ pinned \in Nat /\ ckpt_ts \in Nat
    /\ oldest_is_pinned \in BOOLEAN
SharedType ==
    /\ read_ts \in [Sessions -> Nat] /\ pinned_durable \in [Sessions -> Nat]
    /\ table \in [Sessions -> Nat] /\ current \in Nat \ {0} /\ commit_gen \in Nat
HistoryType ==
    /\ given \in [1..MaxId -> Nat] /\ \A i \in 1..MaxId : given[i] <= MaxTs
    /\ over \in SUBSET (1..MaxId)
    /\ answer \in Nat /\ claimed \in Nat
PlaceType ==
    /\ pc \in [Sessions -> Labels]
    /\ \A s \in Sessions : pc[s] \in {"query", "scan"} => my[s].slot \in 1..(N + 1)
\* Who runs a transaction has an id, and only such a session can be at the end of one.
TxnPlace(s) ==
    /\ txn[s].id # NONE <=> txn[s].state \in {"running", "prepared"}
    /\ txn[s].id # NONE => txn[s].id \in 1..MaxId
    /\ pc[s] \in Ended \cup {"publish", "resolve"} => txn[s].id # NONE
    /\ pc[s] \in {"ckpt_share", "ckpt_bump", "ckpt_write"} => txn[s].id = NONE
TypeInv ==
    /\ GlobalType /\ SharedType /\ HistoryType /\ PlaceType
    /\ txn \in [Sessions -> Txns] /\ my \in [Sessions -> Locals]
    /\ \A s \in Sessions : TxnPlace(s)

----------------------------------------------------------------------------
(* The order of the global timestamps. *)

\* What a setter found in order is in order with whatever others have set since.
SetInOrder ==
    \A s \in Sessions : pc[s] = "set" =>
        my[s].oldest <= stable \/ my[s].oldest <= my[s].stable

\* What is claimed, or about to be, is not after the pinned timestamp.
ClaimsPinned ==
    /\ claimed <= pinned
    /\ \A s \in Sessions : pc[s] = "ask" => my[s].ts <= pinned

OrderInv ==
    /\ oldest # NONE /\ stable # NONE
    /\ OldestNotAfterStable
    /\ HistoryKept
    /\ SetInOrder
    /\ ClaimsPinned

----------------------------------------------------------------------------
(* Transactions and their durable timestamps. *)

\* A session's transaction: its id, its outcome and its timestamp.
TxnWell(s) ==
    /\ txn[s].id # NONE =>
         /\ txn[s].id < current
         /\ txn[s].id \in over <=> pc[s] \in Ended
         /\ IF txn[s].commit
            THEN given[txn[s].id] = txn[s].durable /\ txn[s].durable # NONE
            ELSE given[txn[s].id] = NONE
    /\ pc[s] \in Committed \cup {"publish", "resolve"} => txn[s].commit
    /\ txn[s].commit => txn[s].id # NONE

\* The timestamp of a transaction that may still fail is published, unless its session
\* is just about to, and then no later one has been given.
Published(s) ==
    txn[s].commit /\ pc[s] \notin Ended =>
        IF pc[s] = "publish"
        THEN \A i \in 1..MaxId : i # txn[s].id => given[i] < txn[s].durable
        ELSE pinned_durable[s] = txn[s].durable
PublishedGiven(s) == pinned_durable[s] # NONE => Start < pinned_durable[s]

\* Ids belong to one session, and who has been given a timestamp and has not ended is there.
IdsDistinct == \A s, t \in Sessions : s # t /\ txn[s].id = txn[t].id => txn[s].id = NONE
GivenKnown ==
    \A i \in 1..MaxId :
        /\ i >= current => given[i] = NONE /\ i \notin over
        /\ given[i] # NONE => Start < given[i] /\ given[i] <= MaxTs
        /\ given[i] # NONE /\ i \notin over => \E s \in Sessions : txn[s].id = i

\* The global durable timestamp is that of a transaction that has ended, and nobody is
\* told more.
DurableEnded ==
    /\ durable = Start \/ \E i \in over : given[i] = durable
    /\ Start <= durable /\ answer <= durable

\* A query in progress is below the timestamps of the running transactions it has passed.
QueryBelow(s) ==
    pc[s] = "query" =>
        /\ Start <= my[s].ts /\ my[s].ts <= durable
        /\ \A t \in Sessions :
             t < my[s].slot /\ txn[t].commit /\ pc[t] \notin Ended => my[s].ts < txn[t].durable

DurableInv ==
    /\ \A s \in Sessions : TxnWell(s) /\ Published(s) /\ PublishedGiven(s) /\ QueryBelow(s)
    /\ IdsDistinct /\ GivenKnown /\ DurableEnded
    /\ AllDurableEnded

----------------------------------------------------------------------------
(* Maxima and minima. *)

LEMMA MaxPair ==
    ASSUME NEW a \in Nat, NEW b \in Nat
    PROVE  Max({a, b}) = IF a <= b THEN b ELSE a
<1>1. \E x \in {a, b} : \A y \in {a, b} : x >= y
  OBVIOUS
<1>2. /\ Max({a, b}) \in {a, b}
      /\ \A y \in {a, b} : Max({a, b}) >= y
  BY <1>1, Zenon DEF Max
<1> QED
  BY <1>2

LEMMA MinPair ==
    ASSUME NEW a \in Nat, NEW b \in Nat
    PROVE  Min({a, b}) = IF a <= b THEN a ELSE b
<1>1. \E x \in {a, b} : \A y \in {a, b} : x =< y
  OBVIOUS
<1>2. /\ Min({a, b}) \in {a, b}
      /\ \A y \in {a, b} : Min({a, b}) =< y
  BY <1>1, Zenon DEF Min
<1> QED
  BY <1>2

\* A set of naturals that has a member has a least one.
LEMMA LeastNat ==
    ASSUME NEW S \in SUBSET Nat, S # {}
    PROVE  \E x \in S : \A y \in S : x =< y
<1>1. PICK x \in S : \A y \in S : ~ (<<y, x>> \in OpToRel(<, Nat))
  BY NatLessThanWellFounded, WFMin
<1>2. ASSUME NEW y \in S PROVE x =< y
  <2>1. x \in Nat /\ y \in Nat
    OBVIOUS
  <2>2. ASSUME y < x PROVE <<y, x>> \in OpToRel(<, Nat)
    <3>1. <<y, x>> \in Nat \X Nat /\ <<y, x>>[1] < <<y, x>>[2]
      BY <2>1, <2>2
    <3> QED
      BY <3>1, Zenon DEF OpToRel
  <2>3. ~ (y < x)
    BY <1>1, <2>2, Zenon
  <2> QED
    BY <2>1, <2>3
<1> QED
  BY <1>2

LEMMA MinNat ==
    ASSUME NEW S \in SUBSET Nat, S # {}
    PROVE  Min(S) \in S /\ \A y \in S : Min(S) =< y
BY LeastNat, Zenon DEF Min

\* One that is bounded has a greatest one.
LEMMA MaxNat ==
    ASSUME NEW S \in SUBSET Nat, S # {}, NEW b \in Nat, \A x \in S : x <= b
    PROVE  Max(S) \in S /\ \A y \in S : Max(S) >= y
<1> DEFINE T == {b - x : x \in S}
<1>1. T \in SUBSET Nat /\ T # {}
  <2>1. PICK x \in S : TRUE
    OBVIOUS
  <2>2. b - x \in T
    OBVIOUS
  <2>3. \A y \in S : b - y \in Nat
    OBVIOUS
  <2>4. T \in SUBSET Nat
    BY <2>3
  <2> QED
    BY <2>2, <2>4
<1>2. PICK m \in T : \A y \in T : m =< y
  BY <1>1, LeastNat
<1>3. PICK x \in S : m = b - x
  OBVIOUS
<1>4. \A y \in S : x >= y
  <2> TAKE y \in S
  <2>1. b - y \in T
    OBVIOUS
  <2>2. b - x =< b - y
    BY <1>2, <1>3, <2>1
  <2> QED
    BY <2>2
<1> QED
  BY <1>4, Zenon DEF Max

----------------------------------------------------------------------------
(* Types. *)

LEMMA ConstantTypes == /\ N \in Nat /\ Sessions = 1..N
                       /\ Start \in Nat /\ MaxTs \in Nat /\ MaxId \in Nat
BY RolesAssumption, StartAssumption DEF Sessions

LEMMA TypeInit == Init => TypeInv
<1> SUFFICES ASSUME Init PROVE TypeInv
  OBVIOUS
<1>1. NoTxn \in Txns /\ NoLocals \in Locals
  BY DEF NoTxn, Txns, NoLocals, Locals, NONE
<1> QED
  BY <1>1, ConstantTypes DEF Init, TypeInv, GlobalType, SharedType, HistoryType, PlaceType, TxnPlace, Ended,
                               Committed, NoTxn, NONE, Labels

\* The next timestamp that the application gives is after all the earlier ones.
LEMMA NextTsLater ==
    ASSUME HistoryType
    PROVE  NextTs \in Nat /\ Start < NextTs /\ \A i \in 1..MaxId : given[i] < NextTs
<1> DEFINE S == {Start} \cup {given[i] : i \in 1..MaxId}
<1>1. S \in SUBSET Nat /\ S # {} /\ \A x \in S : x <= Start + MaxTs
  BY ConstantTypes DEF HistoryType
<1>2. Max(S) \in S /\ \A y \in S : Max(S) >= y
  <2>1. Start + MaxTs \in Nat
    BY ConstantTypes
  <2> HIDE DEF S
  <2> QED
    BY <1>1, <2>1, MaxNat
<1>3. Max(S) \in Nat /\ Max(S) >= Start /\ \A i \in 1..MaxId : Max(S) >= given[i]
  BY <1>1, <1>2 DEF HistoryType
<1>4. NextTs = 1 + Max(S)
  BY Zenon DEF NextTs
<1> HIDE DEF S
<1> QED
  BY <1>3, <1>4, ConstantTypes DEF HistoryType

\* What a session's snapshot becomes.
LEMMA SnapshotType ==
    ASSUME NEW t \in Txns, current \in Nat, commit_gen \in Nat
    PROVE  /\ Snapshot(t) \in Txns
           /\ Snapshot(t).state = t.state /\ Snapshot(t).id = t.id
           /\ Snapshot(t).durable = t.durable /\ Snapshot(t).commit = t.commit
<1>1. Visible \in SUBSET Nat
  BY DEF Visible
<1> QED
  BY <1>1 DEF Snapshot, Txns


LEMMA NoTxnType ==
    /\ NoTxn \in Txns /\ NoLocals \in Locals
    /\ NoTxn.id = NONE /\ NoTxn.state = "none" /\ NoTxn.durable = NONE /\ NoTxn.commit = FALSE
BY DEF NoTxn, Txns, NoLocals, Locals, NONE

\* A transaction as it begins.
LEMMA BegunType ==
    ASSUME NEW id \in Nat, NEW t, t = [NoTxn EXCEPT !.state = "running", !.id = id]
    PROVE  t \in Txns /\ t.id = id /\ t.state = "running" /\ t.durable = NONE /\ t.commit = FALSE
BY DEF NoTxn, Txns, NONE

\* A transaction that is given its timestamp.
LEMMA SetTimestampType ==
    ASSUME TypeInv, NEW s \in Sessions, NEW state \in {"running", "prepared"},
           SetTimestamp(s, state)
    PROVE  TypeInv'
<1> USE ConstantTypes DEF NONE
<1>1. /\ GlobalType /\ SharedType /\ HistoryType /\ PlaceType
      /\ txn \in [Sessions -> Txns] /\ my \in [Sessions -> Locals]
      /\ \A r \in Sessions : TxnPlace(r)
  BY DEF TypeInv
<1>2. NextTs \in Nat /\ NextTs <= MaxTs
  BY <1>1, NextTsLater DEF SetTimestamp, InOrder
<1>3. /\ given' = [given EXCEPT ![txn[s].id] = NextTs]
      /\ txn' = [txn EXCEPT ![s].durable = NextTs, ![s].commit = TRUE]
      /\ pc' = [pc EXCEPT ![s] = "publish"]
      /\ txn[s].state = state
      /\ UNCHANGED <<global, shared, my, over, answer, claimed>>
  BY DEF SetTimestamp, Goto
<1> HIDE DEF NextTs
<1>4. HistoryType'
  BY <1>1, <1>2, <1>3 DEF HistoryType
<1>5. PlaceType'
  BY <1>1, <1>3 DEF PlaceType, Labels
<1>6. PICK t : t = [txn[s] EXCEPT !.durable = NextTs, !.commit = TRUE]
  BY Zenon
<1>7. txn[s] \in Txns
  BY <1>1
<1>8. t \in Txns /\ t.id = txn[s].id /\ t.state = state
  BY <1>2, <1>3, <1>6, <1>7 DEF Txns
<1>9. txn' = [txn EXCEPT ![s] = t]
  BY <1>3, <1>6
<1>10. ASSUME NEW r \in Sessions PROVE TxnPlace(r)'
  <2>1. TxnPlace(r)
    BY <1>1
  <2>2. CASE r # s
    <3>1. txn'[r] = txn[r] /\ pc'[r] = pc[r]
      BY <1>1, <1>3, <1>9, <2>2 DEF PlaceType
    <3> QED
      BY <2>1, <3>1 DEF TxnPlace
  <2>3. CASE r = s
    <3>1. txn'[r] = t /\ pc'[r] = "publish"
      BY <1>1, <1>3, <1>9, <2>3 DEF PlaceType
    <3> QED
      BY <1>3, <1>8, <2>1, <2>3, <3>1 DEF TxnPlace
  <2> QED
    BY <2>2, <2>3
<1>11. txn' \in [Sessions -> Txns]
  BY <1>1, <1>8, <1>9
<1> QED
  BY <1>1, <1>3, <1>4, <1>5, <1>10, <1>11 DEF TypeInv, GlobalType, SharedType, global, shared

\* Every step keeps the types: those of writers, ...
LEMMA WritingType ==
    ASSUME TypeInv, NEW s \in Sessions, Writing(s)
    PROVE  TypeInv'
<1> USE ConstantTypes DEF TypeInv, Goto, NONE, global, shared, history
<1>1. CASE Begin(s)
  <2>0. PICK t : t = [NoTxn EXCEPT !.state = "running", !.id = current]
    BY Zenon
  <2>a. t \in Txns /\ t.id = current /\ t.state = "running"
    BY <1>1, <2>0, BegunType DEF SharedType
  <2>b. txn' = [txn EXCEPT ![s] = t]
    BY <1>1, <2>0 DEF Begin
  <2>1. SharedType'
    BY <1>1, <2>a, <2>b DEF Begin, SharedType, SharedType
  <2>2. txn' \in [Sessions -> Txns]
    BY <1>1, <2>a, <2>b DEF Begin, SharedType
  <2>3. \A r \in Sessions : TxnPlace(r)'
    <3> TAKE r \in Sessions
    <3>1. TxnPlace(r) /\ pc' = pc /\ pc[s] = "idle" /\ current \in 1..MaxId
      BY <1>1 DEF Begin, SharedType
    <3>2. CASE r # s
      BY <2>b, <3>1, <3>2 DEF TxnPlace
    <3>3. CASE r = s
      <4>1. txn'[r] = t /\ pc'[r] = "idle"
        BY <2>b, <3>1, <3>3
      <4> QED
        BY <2>a, <3>1, <4>1 DEF TxnPlace, Ended, Committed
    <3> QED
      BY <3>2, <3>3
  <2> QED
    BY <1>1, <2>0, <2>a, <2>b, <2>1, <2>2, <2>3 DEF Begin, SharedType, GlobalType, HistoryType, PlaceType
<1>2. CASE SetCommitTimestamp(s)
  BY <1>2, SetTimestampType DEF SetCommitTimestamp
<1>3. CASE CommitPrepared(s)
  BY <1>3, SetTimestampType DEF CommitPrepared
<1>4. CASE PublishTimestamp(s)
  <2>1. SharedType'
    BY <1>4 DEF PublishTimestamp, SharedType, Txns
  <2>2. PlaceType'
    BY <1>4 DEF PublishTimestamp, PlaceType, Labels, Locals
  <2>3. \A r \in Sessions : TxnPlace(r)'
    BY <1>4 DEF PublishTimestamp, TxnPlace, PlaceType, Ended, Committed
  <2> QED
    BY <1>4, <2>1, <2>2, <2>3 DEF PublishTimestamp, GlobalType, HistoryType
<1>5. CASE Prepare(s)
  <2>1. SharedType'
    BY <1>5 DEF Prepare, SharedType
  <2>2. txn' \in [Sessions -> Txns]
    <3>1. PICK t : t = [txn[s] EXCEPT !.state = "prepared"]
      BY Zenon
    <3>2. txn[s] \in Txns
      OBVIOUS
    <3>3. t \in Txns
      BY <3>1, <3>2 DEF Txns
    <3>4. txn' = [txn EXCEPT ![s] = t]
      BY <1>5, <3>1 DEF Prepare
    <3> QED
      BY <3>3, <3>4
  <2>3. \A r \in Sessions : TxnPlace(r)'
    BY <1>5 DEF Prepare, TxnPlace, PlaceType, Ended, Committed, Txns
  <2> QED
    BY <1>5, <2>1, <2>2, <2>3 DEF Prepare, GlobalType, HistoryType, PlaceType
<1>6. CASE Commit(s)
  <2>1. SharedType'
    BY <1>6 DEF Commit, SharedType
  <2>2. HistoryType'
    BY <1>6 DEF Commit, HistoryType, TxnPlace
  <2>3. PlaceType'
    BY <1>6 DEF Commit, PlaceType, Labels, Locals
  <2>4. \A r \in Sessions : TxnPlace(r)'
    BY <1>6 DEF Commit, TxnPlace, PlaceType, Ended, Committed
  <2> QED
    BY <1>6, <2>1, <2>2, <2>3, <2>4 DEF Commit, GlobalType
<1>7. CASE Resolve(s)
  <2>1. HistoryType'
    BY <1>7 DEF Resolve, HistoryType, TxnPlace, Ended
  <2>2. PlaceType'
    BY <1>7 DEF Resolve, PlaceType, Labels, Locals
  <2>3. \A r \in Sessions : TxnPlace(r)'
    BY <1>7 DEF Resolve, TxnPlace, PlaceType, Ended, Committed
  <2> QED
    BY <1>7, <2>1, <2>2, <2>3 DEF Resolve, GlobalType, SharedType
<1>8. CASE Rollback(s)
  <2>1. SharedType'
    BY <1>8 DEF Rollback, SharedType
  <2>2. HistoryType'
    BY <1>8 DEF Rollback, HistoryType, TxnPlace
  <2>3. PlaceType'
    BY <1>8 DEF Rollback, PlaceType, Labels, Locals
  <2>4. \A r \in Sessions : TxnPlace(r)'
    BY <1>8 DEF Rollback, TxnPlace, PlaceType, Ended, Committed
  <2> QED
    BY <1>8, <2>1, <2>2, <2>3, <2>4 DEF Rollback, GlobalType
<1>9. CASE ClearDurable(s)
  <2>1. SharedType'
    BY <1>9 DEF ClearDurable, SharedType
  <2>2. PlaceType'
    BY <1>9 DEF ClearDurable, PlaceType, Labels, Locals
  <2>3. txn' \in [Sessions -> Txns]
    BY <1>9, NoTxnType DEF ClearDurable
  <2>4. \A r \in Sessions : TxnPlace(r)'
    BY <1>9, NoTxnType DEF ClearDurable, TxnPlace, PlaceType, Ended, Committed
  <2> QED
    BY <1>9, <2>1, <2>2, <2>3, <2>4 DEF ClearDurable, GlobalType, HistoryType
<1>10. CASE GenNext(s)
  <2>1. SharedType'
    BY <1>10 DEF GenNext, SharedType
  <2>2. PlaceType'
    BY <1>10 DEF GenNext, PlaceType, Labels, Locals
  <2>3. \A r \in Sessions : TxnPlace(r)'
    BY <1>10 DEF GenNext, TxnPlace, PlaceType, Ended, Committed
  <2> QED
    BY <1>10, <2>1, <2>2, <2>3 DEF GenNext, GlobalType, HistoryType
<1>11. CASE MoveDurable(s)
  <2>1. GlobalType'
    BY <1>11, MaxPair DEF MoveDurable, GlobalType, Txns
  <2>2. PlaceType'
    BY <1>11 DEF MoveDurable, PlaceType, Labels, Locals
  <2>3. txn' \in [Sessions -> Txns]
    BY <1>11, NoTxnType DEF MoveDurable
  <2>4. \A r \in Sessions : TxnPlace(r)'
    BY <1>11, NoTxnType DEF MoveDurable, TxnPlace, PlaceType, Ended, Committed
  <2> QED
    BY <1>11, <2>1, <2>2, <2>3, <2>4 DEF MoveDurable, SharedType, HistoryType
<1>12. CASE VerifyStable(s)
  <2>1. PlaceType'
    BY <1>12 DEF VerifyStable, PlaceType, Labels, Locals
  <2>2. txn' \in [Sessions -> Txns]
    BY <1>12, NoTxnType DEF VerifyStable
  <2>3. \A r \in Sessions : TxnPlace(r)'
    BY <1>12, NoTxnType DEF VerifyStable, TxnPlace, PlaceType, Ended, Committed
  <2> QED
    BY <1>12, <2>1, <2>2, <2>3 DEF VerifyStable, GlobalType, SharedType, HistoryType
<1> QED
  BY <1>1, <1>2, <1>3, <1>4, <1>5, <1>6, <1>7, <1>8, <1>9, <1>10, <1>11, <1>12 DEF Writing

\* ... of readers, ...
LEMMA ReadingType ==
    ASSUME TypeInv, NEW s \in Sessions, Reading(s)
    PROVE  TypeInv'
<1> USE ConstantTypes DEF TypeInv, Goto, NONE, global, shared, history
<1>1. ASSUME NEW ts \in 0..MaxTs, NEW round \in BOOLEAN, BeginRead(s, ts, round)
      PROVE  TypeInv'
  <2>1. SharedType'
    <3>1. ReadTimestamp(ts, round) \in Nat
      BY DEF ReadTimestamp, GlobalType
    <3>2. PICK x \in Nat : read_ts' = [read_ts EXCEPT ![s] = x]
      BY <1>1, <3>1 DEF BeginRead
    <3> QED
      BY <1>1, <3>2 DEF BeginRead, SharedType
  <2>2. PlaceType'
    BY <1>1 DEF BeginRead, PlaceType, Labels, Locals
  <2>3. PICK t \in Txns : txn' = [txn EXCEPT ![s] = t] /\ t.id = txn[s].id
                           /\ t.state \in {"reading", "reading_at"}
    <3>1. PICK a \in {"reading", "reading_at"} : txn' = [txn EXCEPT ![s].state = a]
      BY <1>1 DEF BeginRead
    <3>2. PICK t : t = [txn[s] EXCEPT !.state = a]
      BY Zenon
    <3>3. txn[s] \in Txns
      OBVIOUS
    <3>4. t \in Txns /\ t.id = txn[s].id /\ t.state = a
      BY <3>2, <3>3 DEF Txns
    <3>5. txn' = [txn EXCEPT ![s] = t]
      BY <3>1, <3>2
    <3> QED
      BY <3>4, <3>5
  <2>4. \A r \in Sessions : TxnPlace(r)'
    <3> TAKE r \in Sessions
    <3>1. TxnPlace(r) /\ pc[s] = "idle" /\ txn[s].state = "none" /\ TxnPlace(s)
      BY <1>1 DEF BeginRead
    <3>2. CASE r # s
      <4>1. txn'[r] = txn[r] /\ pc'[r] = pc[r]
        BY <1>1, <2>3, <3>2 DEF BeginRead, PlaceType
      <4> QED
        BY <3>1, <4>1 DEF TxnPlace
    <3>3. CASE r = s
      <4>1. txn'[r].id = NONE /\ txn'[r].state \in {"reading", "reading_at"} /\ pc'[r] = "snapshot"
        BY <1>1, <2>3, <3>1, <3>3 DEF BeginRead, PlaceType, TxnPlace
      <4> QED
        BY <4>1 DEF TxnPlace, Ended, Committed
    <3> QED
      BY <3>2, <3>3
  <2>5. txn' \in [Sessions -> Txns]
    BY <2>3
  <2> QED
    BY <1>1, <2>1, <2>2, <2>4, <2>5 DEF BeginRead, GlobalType, HistoryType
<1>2. ASSUME NEW ts \in 0..MaxTs, NEW round \in BOOLEAN, SetReadTimestamp(s, ts, round)
      PROVE  TypeInv'
  <2>1. SharedType'
    <3>1. ReadTimestamp(ts, round) \in Nat
      BY DEF ReadTimestamp, GlobalType
    <3>2. PICK x \in Nat : read_ts' = [read_ts EXCEPT ![s] = x]
      BY <1>2, <3>1 DEF SetReadTimestamp
    <3> QED
      BY <1>2, <3>2 DEF SetReadTimestamp, SharedType
  <2>2. PlaceType'
    BY <1>2 DEF SetReadTimestamp, PlaceType, Labels, Locals
  <2>3. PICK t \in Txns : txn' = [txn EXCEPT ![s] = t] /\ t.id = txn[s].id
                           /\ t.state = "reading_at"
    <3>1. PICK t : t = [txn[s] EXCEPT !.state = "reading_at"]
      BY Zenon
    <3>2. txn[s] \in Txns
      OBVIOUS
    <3>3. t \in Txns /\ t.id = txn[s].id /\ t.state = "reading_at"
      BY <3>1, <3>2 DEF Txns
    <3>4. txn' = [txn EXCEPT ![s] = t]
      BY <1>2, <3>1 DEF SetReadTimestamp
    <3> QED
      BY <3>3, <3>4
  <2>4. \A r \in Sessions : TxnPlace(r)'
    <3> TAKE r \in Sessions
    <3>1. TxnPlace(r) /\ pc[s] = "idle" /\ txn[s].state = "reading" /\ TxnPlace(s)
      BY <1>2 DEF SetReadTimestamp
    <3>2. CASE r # s
      <4>1. txn'[r] = txn[r] /\ pc'[r] = pc[r]
        BY <1>2, <2>3, <3>2 DEF SetReadTimestamp, PlaceType
      <4> QED
        BY <3>1, <4>1 DEF TxnPlace
    <3>3. CASE r = s
      <4>1. txn'[r].id = NONE /\ txn'[r].state = "reading_at" /\ pc'[r] = "snapshot"
        BY <1>2, <2>3, <3>1, <3>3 DEF SetReadTimestamp, PlaceType, TxnPlace
      <4> QED
        BY <4>1 DEF TxnPlace, Ended, Committed
    <3> QED
      BY <3>2, <3>3
  <2>5. txn' \in [Sessions -> Txns]
    BY <2>3
  <2> QED
    BY <1>2, <2>1, <2>2, <2>4, <2>5 DEF SetReadTimestamp, GlobalType, HistoryType
<1>3. CASE GetSnapshot(s)
  <2>1. PlaceType'
    BY <1>3 DEF GetSnapshot, SharedType, PlaceType, Labels, Locals
  <2>2. txn' \in [Sessions -> Txns]
    BY <1>3, SnapshotType DEF GetSnapshot, SharedType
  <2>3. \A r \in Sessions : TxnPlace(r)'
    BY <1>3, SnapshotType DEF GetSnapshot, SharedType, TxnPlace, PlaceType, Ended, Committed
  <2> QED
    BY <1>3, <2>1, <2>2, <2>3 DEF GetSnapshot, SharedType, GlobalType, SharedType, HistoryType
<1>4. CASE EndRead(s)
  <2>1. SharedType'
    BY <1>4 DEF EndRead, SharedType
  <2>2. txn' \in [Sessions -> Txns]
    BY <1>4, NoTxnType DEF EndRead
  <2>3. \A r \in Sessions : TxnPlace(r)'
    BY <1>4, NoTxnType DEF EndRead, TxnPlace, PlaceType, Ended, Committed
  <2> QED
    BY <1>4, <2>1, <2>2, <2>3 DEF EndRead, GlobalType, HistoryType, PlaceType
<1> QED
  BY <1>1, <1>2, <1>3, <1>4 DEF Reading

\* The pinned timestamp as a walk with the lock held for writing finds it.
LEMMA PinnedNowIs ==
    ASSUME oldest \in Nat, read_ts \in [Sessions -> Nat]
    PROVE  /\ PinnedNow \in Nat /\ PinnedNow <= oldest
           /\ \A s \in Sessions : read_ts[s] # NONE => PinnedNow <= read_ts[s]
           /\ oldest # NONE => PinnedNow # NONE
<1> DEFINE S == {oldest} \cup {read_ts[s] : s \in {t \in Sessions : read_ts[t] # NONE}}
<1>1. S \in SUBSET Nat /\ S # {} /\ oldest \in S
  OBVIOUS
<1>2. \A s \in Sessions : read_ts[s] # NONE => read_ts[s] \in S
  OBVIOUS
<1>3. oldest # NONE => NONE \notin S
  OBVIOUS
<1>4. PinnedNow = Min(S)
  BY Zenon DEF PinnedNow
<1> HIDE DEF S
<1>5. Min(S) \in S /\ \A y \in S : Min(S) =< y
  BY <1>1, MinNat
<1> QED
  BY <1>1, <1>2, <1>3, <1>4, <1>5

\* A step that gives a session new locals and a new place.
LEMMA LocalsStep ==
    ASSUME TypeInv, NEW s \in Sessions, NEW l \in Locals, NEW p \in Labels,
           my' = [my EXCEPT ![s] = l], pc' = [pc EXCEPT ![s] = p],
           p \in {"query", "scan"} => l.slot \in 1..(N + 1)
    PROVE  PlaceType' /\ my' \in [Sessions -> Locals]
BY DEF TypeInv, PlaceType

\* ... of the threads that query and set the global timestamps, ...
LEMMA SettingType ==
    ASSUME TypeInv, NEW s \in Sessions, Setting(s)
    PROVE  TypeInv'
<1> USE ConstantTypes DEF TypeInv, NONE, global, shared, history
<1>0. my[s] \in Locals /\ my[s].slot \in Nat /\ my[s].ts \in Nat
       /\ my[s].oldest \in Nat /\ my[s].stable \in Nat
  BY DEF Locals
<1>1. CASE QueryAllDurable(s)
  <2>1. PICK l : l = [NoLocals EXCEPT !.ts = durable, !.slot = 1]
    BY Zenon
  <2>2. l \in Locals /\ l.slot = 1
    BY <2>1 DEF NoLocals, Locals, GlobalType
  <2>3. my' = [my EXCEPT ![s] = l] /\ pc' = [pc EXCEPT ![s] = "query"]
    BY <1>1, <2>1 DEF QueryAllDurable, Goto
  <2>4. PlaceType' /\ my' \in [Sessions -> Locals]
    <3>1. 1 \in 1..(N + 1) /\ "query" \in Labels
      BY DEF Labels
    <3> QED
      BY <2>2, <2>3, <3>1, LocalsStep
  <2>5. \A r \in Sessions : TxnPlace(r)'
    BY <1>1, <2>3 DEF QueryAllDurable, TxnPlace, PlaceType, Ended, Committed
  <2> QED
    BY <1>1, <2>4, <2>5 DEF QueryAllDurable, GlobalType, SharedType, HistoryType
<1>2. CASE QueryWalk(s)
  <2>1. my[s].slot \in Sessions
    BY <1>2, <1>0 DEF QueryWalk, PlaceType, Sessions
  <2>2. PICK ts \in Nat : ts = pinned_durable[my[s].slot]
    BY <2>1 DEF SharedType
  <2>3. PICK new : new = IF ts = NONE THEN my[s].ts
                         ELSE IF my[s].ts = NONE THEN ts ELSE Min({my[s].ts, ts - 1})
    BY Zenon
  <2>4. new \in Nat
    <3>1. ts # NONE => ts - 1 \in Nat
      BY <2>2
    <3> QED
      BY <1>0, <2>2, <2>3, <3>1, MinPair
  <2>5. PICK l : l = [my[s] EXCEPT !.slot = my[s].slot + 1, !.ts = new]
    BY Zenon
  <2>6. l \in Locals /\ l.slot \in 1..(N + 1) /\ "query" \in Labels
    <3>1. my[s].slot + 1 \in 1..(N + 1) /\ my[s].slot + 1 \in Nat
      BY <2>1 DEF Sessions
    <3>2. PICK m \in Locals, n \in Nat : m = my[s] /\ n = my[s].slot + 1
      BY <1>0, <3>1
    <3>3. l = [m EXCEPT !.slot = n, !.ts = new]
      BY <2>5, <3>2
    <3>4. l \in Locals /\ l.slot = n
      BY <3>3, <2>4 DEF Locals
    <3> QED
      BY <3>1, <3>2, <3>4 DEF Labels
  <2>7. my' = [my EXCEPT ![s] = l] /\ pc' = [pc EXCEPT ![s] = "query"]
    BY <1>2, <2>2, <2>3, <2>5 DEF QueryWalk, PlaceType, Locals
  <2>8. PlaceType' /\ my' \in [Sessions -> Locals]
    BY <2>6, <2>7, LocalsStep
  <2> QED
    BY <1>2, <2>8 DEF QueryWalk, GlobalType, SharedType, HistoryType, TxnPlace
<1>3. CASE QueryEnd(s)
  <2>1. HistoryType'
    <3>1. answer \in Nat
      BY DEF HistoryType
    <3>2. Max({answer, my[s].ts}) = IF answer <= my[s].ts THEN my[s].ts ELSE answer
      BY <1>0, <3>1, MaxPair
    <3>3. answer' \in Nat
      BY <1>0, <1>3, <3>1, <3>2 DEF QueryEnd
    <3> QED
      BY <1>3, <3>3 DEF QueryEnd, HistoryType
  <2>2. PlaceType' /\ my' \in [Sessions -> Locals]
    BY <1>3, LocalsStep, NoTxnType DEF QueryEnd, Goto, Labels
  <2>3. \A r \in Sessions : TxnPlace(r)'
    BY <1>3 DEF QueryEnd, Goto, TxnPlace, PlaceType, Ended, Committed
  <2> QED
    BY <1>3, <2>1, <2>2, <2>3 DEF QueryEnd, GlobalType, SharedType
<1>4. ASSUME NEW o \in 0..MaxTs, NEW t \in 0..MaxTs, SetGlobal(s, o, t)
      PROVE  TypeInv'
  <2>1. PICK l \in Locals : my' = [my EXCEPT ![s] = l]
    <3>1. \A a, b \in Nat : [NoLocals EXCEPT !.oldest = a, !.stable = b] \in Locals
      BY DEF NoLocals, Locals
    <3>2. PICK a \in Nat, b \in Nat :
            my' = [my EXCEPT ![s] = [NoLocals EXCEPT !.oldest = a, !.stable = b]]
      <4> DEFINE a == IF oldest # NONE /\ o <= oldest THEN NONE ELSE o
                 b == IF stable # NONE /\ t <= stable THEN NONE ELSE t
      <4>1. a \in Nat /\ b \in Nat
        OBVIOUS
      <4>2. my' = [my EXCEPT ![s] = [NoLocals EXCEPT !.oldest = a, !.stable = b]]
        BY <1>4, Zenon DEF SetGlobal
      <4> HIDE DEF a, b
      <4> QED
        BY <4>1, <4>2
    <3> QED
      BY <3>1, <3>2
  <2>2. PlaceType' /\ my' \in [Sessions -> Locals]
    BY <1>4, <2>1, LocalsStep DEF SetGlobal, Goto, Labels
  <2>3. \A r \in Sessions : TxnPlace(r)'
    BY <1>4 DEF SetGlobal, Goto, TxnPlace, PlaceType, Ended, Committed
  <2> QED
    BY <1>4, <2>2, <2>3 DEF SetGlobal, GlobalType, SharedType, HistoryType
<1>5. CASE StoreGlobal(s)
  <2>1. GlobalType'
    BY <1>0, <1>5, MaxPair DEF StoreGlobal, GlobalType
  <2>2. PlaceType' /\ my' \in [Sessions -> Locals]
    BY <1>5, LocalsStep, NoTxnType DEF StoreGlobal, Goto, Labels
  <2>3. \A r \in Sessions : TxnPlace(r)'
    BY <1>5 DEF StoreGlobal, Goto, TxnPlace, PlaceType, Ended, Committed
  <2> QED
    BY <1>5, <2>1, <2>2, <2>3 DEF StoreGlobal, SharedType, HistoryType
<1>6. CASE UpdatePinned(s)
  <2>1. PICK l : l = [NoLocals EXCEPT !.ts = oldest, !.slot = 1]
    BY Zenon
  <2>2. l \in Locals /\ l.slot = 1 /\ "scan" \in Labels /\ "idle" \in Labels
    BY <2>1 DEF NoLocals, Locals, GlobalType, Labels
  <2>3. \/ my' = [my EXCEPT ![s] = l] /\ pc' = [pc EXCEPT ![s] = "scan"]
        \/ my' = [my EXCEPT ![s] = my[s]] /\ pc' = [pc EXCEPT ![s] = "idle"]
    BY <1>6, <2>1 DEF UpdatePinned, Goto
  <2>4. PlaceType' /\ my' \in [Sessions -> Locals]
    BY <1>0, <2>2, <2>3, LocalsStep
  <2>5. \A r \in Sessions : TxnPlace(r)'
    BY <1>6 DEF UpdatePinned, Goto, TxnPlace, PlaceType, Ended, Committed
  <2> QED
    BY <1>6, <2>4, <2>5 DEF UpdatePinned, GlobalType, SharedType, HistoryType
<1>7. CASE ScanReader(s)
  <2>1. my[s].slot \in Sessions
    BY <1>7, <1>0 DEF ScanReader, PlaceType, Sessions
  <2>2. PICK new \in Nat :
          new = IF read_ts[my[s].slot] # NONE /\ read_ts[my[s].slot] < my[s].ts
                THEN read_ts[my[s].slot] ELSE my[s].ts
    BY <1>0, <2>1 DEF SharedType
  <2>3. PICK l : l = [my[s] EXCEPT !.slot = my[s].slot + 1, !.ts = new]
    BY Zenon
  <2>4. l \in Locals /\ l.slot \in 1..(N + 1) /\ "scan" \in Labels
    <3>1. my[s].slot + 1 \in 1..(N + 1) /\ my[s].slot + 1 \in Nat
      BY <2>1 DEF Sessions
    <3>2. PICK m \in Locals, n \in Nat : m = my[s] /\ n = my[s].slot + 1
      BY <1>0, <3>1
    <3>3. l = [m EXCEPT !.slot = n, !.ts = new]
      BY <2>3, <3>2
    <3>4. l \in Locals /\ l.slot = n
      BY <3>3 DEF Locals
    <3> QED
      BY <3>1, <3>2, <3>4 DEF Labels
  <2>5. my' = [my EXCEPT ![s] = l] /\ pc' = [pc EXCEPT ![s] = "scan"]
    BY <1>7, <2>2, <2>3 DEF ScanReader, PlaceType, Locals
  <2>6. PlaceType' /\ my' \in [Sessions -> Locals]
    BY <2>4, <2>5, LocalsStep
  <2> QED
    BY <1>7, <2>6 DEF ScanReader, GlobalType, SharedType, HistoryType, TxnPlace
<1>8. CASE ScanEnd(s)
  <2>1. PICK l \in Locals, p \in {"idle", "pin"} :
          my' = [my EXCEPT ![s] = l] /\ pc' = [pc EXCEPT ![s] = p]
    BY <1>0, <1>8, NoTxnType DEF ScanEnd, Goto
  <2>2. PlaceType' /\ my' \in [Sessions -> Locals]
    BY <2>1, LocalsStep DEF Labels
  <2>3. \A r \in Sessions : TxnPlace(r)'
    BY <1>8, <2>1 DEF ScanEnd, TxnPlace, PlaceType, Ended, Committed
  <2> QED
    BY <1>8, <2>2, <2>3 DEF ScanEnd, GlobalType, SharedType, HistoryType
<1>9. CASE Pin(s)
  <2>1. GlobalType'
    <3>1. PinnedNow \in Nat /\ pinned \in Nat
      BY PinnedNowIs DEF GlobalType, SharedType
    <3>2. Max({pinned, PinnedNow}) = IF pinned <= PinnedNow THEN PinnedNow ELSE pinned
      BY <3>1, MaxPair
    <3> HIDE DEF PinnedNow
    <3>3. pinned' \in Nat
      BY <1>9, <3>1, <3>2 DEF Pin
    <3>4. oldest_is_pinned' \in BOOLEAN
      BY <1>9, Zenon DEF Pin, GlobalType
    <3> QED
      BY <1>9, <3>3, <3>4 DEF Pin, GlobalType
  <2>2. PlaceType' /\ my' \in [Sessions -> Locals]
    BY <1>9, LocalsStep, NoTxnType DEF Pin, Goto, Labels
  <2>3. \A r \in Sessions : TxnPlace(r)'
    BY <1>9 DEF Pin, Goto, TxnPlace, PlaceType, Ended, Committed
  <2> QED
    BY <1>9, <2>1, <2>2, <2>3 DEF Pin, SharedType, HistoryType
<1> QED
  BY <1>1, <1>2, <1>3, <1>4, <1>5, <1>6, <1>7, <1>8, <1>9 DEF Setting

\* ... and of those that ask and of checkpoints.
LEMMA CheckpointingType ==
    ASSUME TypeInv, NEW s \in Sessions, Checkpointing(s)
    PROVE  TypeInv'
<1> USE ConstantTypes DEF TypeInv, Goto, NONE, global, shared, history
<1>1. CASE AskPinned(s)
  <2>1. PICK l : l = [NoLocals EXCEPT !.ts = pinned]
    BY Zenon
  <2>2. l \in Locals
    BY <2>1 DEF NoLocals, Locals, GlobalType
  <2>3. PlaceType' /\ my' \in [Sessions -> Locals]
    BY <1>1, <2>1, <2>2, LocalsStep DEF AskPinned, Labels
  <2>4. \A r \in Sessions : TxnPlace(r)'
    BY <1>1 DEF AskPinned, TxnPlace, PlaceType, Ended, Committed
  <2> QED
    BY <1>1, <2>3, <2>4 DEF AskPinned, GlobalType, SharedType, HistoryType
<1>2. CASE AskCheckpoint(s)
  <2>1. HistoryType'
    <3>1. my[s].ts \in Nat
      BY DEF Locals
    <3>2. Min({my[s].ts, ckpt_ts}) \in Nat
      <4>1. ckpt_ts \in Nat
        BY DEF GlobalType
      <4>2. Min({my[s].ts, ckpt_ts}) = IF my[s].ts <= ckpt_ts THEN my[s].ts ELSE ckpt_ts
        BY <3>1, <4>1, MinPair
      <4> QED
        BY <3>1, <4>1, <4>2
    <3>3. PICK a \in Nat : claimed' = Max({claimed, a})
      BY <1>2, <3>1, <3>2 DEF AskCheckpoint
    <3>4. claimed' \in Nat
      <4>1. claimed \in Nat
        BY DEF HistoryType
      <4>2. Max({claimed, a}) = IF claimed <= a THEN a ELSE claimed
        BY <4>1, MaxPair
      <4> QED
        BY <3>3, <4>1, <4>2
    <3> QED
      BY <1>2, <3>4 DEF AskCheckpoint, HistoryType
  <2>2. PlaceType' /\ my' \in [Sessions -> Locals]
    BY <1>2, LocalsStep, NoTxnType DEF AskCheckpoint, Labels
  <2>3. \A r \in Sessions : TxnPlace(r)'
    BY <1>2 DEF AskCheckpoint, TxnPlace, PlaceType, Ended, Committed
  <2> QED
    BY <1>2, <2>1, <2>2, <2>3 DEF AskCheckpoint, GlobalType, SharedType
<1>3. CASE CkptBegin(s)
  <2>1. PICK t \in Txns : /\ txn' = [txn EXCEPT ![s] = t]
                          /\ t.id = NONE /\ t.state = "checkpoint"
    <3>1. PICK u \in Txns : u = Snapshot(NoTxn) /\ u.id = NONE
      BY SnapshotType, NoTxnType DEF SharedType
    <3>2. PICK t : t = [u EXCEPT !.state = "checkpoint"]
      BY Zenon
    <3>3. t \in Txns /\ t.id = NONE /\ t.state = "checkpoint"
      BY <3>1, <3>2 DEF Txns
    <3> QED
      BY <1>3, <3>1, <3>2, <3>3 DEF CkptBegin
  <2>2. PlaceType'
    BY <1>3 DEF CkptBegin, PlaceType, Labels, Locals
  <2>3. txn' \in [Sessions -> Txns]
    BY <2>1
  <2>4. \A r \in Sessions : TxnPlace(r)'
    <3> TAKE r \in Sessions
    <3>1. TxnPlace(r) /\ pc' = [pc EXCEPT ![s] = "ckpt_share"]
      BY <1>3 DEF CkptBegin
    <3>2. CASE r # s
      <4>1. txn'[r] = txn[r] /\ pc'[r] = pc[r]
        BY <2>1, <3>1, <3>2 DEF PlaceType
      <4> QED
        BY <3>1, <4>1 DEF TxnPlace
    <3>3. CASE r = s
      <4>1. txn'[r].id = NONE /\ txn'[r].state = "checkpoint" /\ pc'[r] = "ckpt_share"
        BY <2>1, <3>1, <3>3 DEF PlaceType
      <4> QED
        BY <4>1 DEF TxnPlace, Ended, Committed
    <3> QED
      BY <3>2, <3>3
  <2> QED
    BY <1>3, <2>2, <2>3, <2>4 DEF CkptBegin, GlobalType, SharedType, HistoryType
<1>4. CASE CkptShare(s)
  <2>1. GlobalType'
    BY <1>4 DEF CkptShare, GlobalType
  <2>2. PlaceType'
    BY <1>4 DEF CkptShare, PlaceType, Labels, Locals
  <2>3. \A r \in Sessions : TxnPlace(r)'
    BY <1>4 DEF CkptShare, TxnPlace, PlaceType, Ended, Committed
  <2> QED
    BY <1>4, <2>1, <2>2, <2>3 DEF CkptShare, SharedType, HistoryType
<1>5. CASE CkptBump(s)
  <2>1. PlaceType'
    BY <1>5 DEF CkptBump, SharedType, PlaceType, Labels, Locals
  <2>2. txn' \in [Sessions -> Txns]
    BY <1>5, SnapshotType DEF CkptBump, SharedType
  <2>3. \A r \in Sessions : TxnPlace(r)'
    BY <1>5, SnapshotType DEF CkptBump, SharedType, TxnPlace, PlaceType, Ended, Committed
  <2> QED
    BY <1>5, <2>1, <2>2, <2>3 DEF CkptBump, SharedType, GlobalType, SharedType, HistoryType
<1>6. CASE CkptRelease(s)
  <2>1. GlobalType'
    BY <1>6 DEF CkptRelease, GlobalType
  <2>2. PlaceType'
    BY <1>6, NoTxnType DEF CkptRelease, PlaceType, Labels, Locals
  <2>3. txn' \in [Sessions -> Txns]
    BY <1>6, NoTxnType DEF CkptRelease
  <2>4. \A r \in Sessions : TxnPlace(r)'
    BY <1>6, NoTxnType DEF CkptRelease, TxnPlace, PlaceType, Ended, Committed
  <2> QED
    BY <1>6, <2>1, <2>2, <2>3, <2>4 DEF CkptRelease, SharedType, HistoryType
<1> QED
  BY <1>1, <1>2, <1>3, <1>4, <1>5, <1>6 DEF Checkpointing

LEMMA TypeStep == TypeInv /\ [Next]_vars => TypeInv'
<1> SUFFICES ASSUME TypeInv, [Next]_vars PROVE TypeInv'
  OBVIOUS
<1>1. CASE UNCHANGED vars
  BY <1>1 DEF vars, global, shared, history, TypeInv, GlobalType, SharedType, HistoryType,
              PlaceType, TxnPlace
<1>2. CASE Next
  BY <1>2, WritingType, ReadingType, SettingType, CheckpointingType DEF Next
<1> QED
  BY <1>1, <1>2

\* Every variable keeps its type, whatever the roles of the sessions and the bounds.
THEOREM TimestampTypes == Spec => []TypeOK
<1>1. TypeInv => TypeOK
  BY DEF TypeInv, GlobalType, SharedType, HistoryType, Txns, Locals, TypeOK
<1> QED
  BY TypeInit, TypeStep, <1>1, PTL DEF Spec

----------------------------------------------------------------------------
(* The order of the global timestamps, and the history they keep. *)

LEMMA OrderInit == ASSUME Start # NONE, Init PROVE OrderInv
BY ConstantTypes DEF Init, OrderInv, OldestNotAfterStable, HistoryKept, SetInOrder, ClaimsPinned, NONE

\* Who moves no timestamp and is not about to does not disturb the order.
LEMMA OrderFrame ==
    ASSUME TypeInv, OrderInv, NEW s \in Sessions,
           UNCHANGED <<oldest, stable, pinned, ckpt_ts, read_ts, claimed>>,
           \A t \in Sessions : t # s => pc'[t] = pc[t] /\ my'[t] = my[t],
           pc'[s] \notin {"set", "ask"}
    PROVE  OrderInv'
BY DEF OrderInv, OldestNotAfterStable, HistoryKept, SetInOrder, ClaimsPinned

\* Writers.
LEMMA WritingOrder ==
    ASSUME TypeInv, OrderInv, NEW s \in Sessions, Writing(s)
    PROVE  OrderInv'
<1>1. UNCHANGED <<oldest, stable, pinned, ckpt_ts, read_ts, claimed, my>>
  BY DEF Writing, Begin, SetCommitTimestamp, CommitPrepared, SetTimestamp, PublishTimestamp,
         Prepare, Commit, Resolve, Rollback, ClearDurable, GenNext, MoveDurable, VerifyStable,
         global, shared, history
<1>2. /\ \A t \in Sessions : t # s => pc'[t] = pc[t]
      /\ pc'[s] \notin {"set", "ask"}
  BY DEF Writing, Begin, SetCommitTimestamp, CommitPrepared, SetTimestamp, PublishTimestamp,
         Prepare, Commit, Resolve, Rollback, ClearDurable, GenNext, MoveDurable, VerifyStable,
         Goto, TypeInv, PlaceType
<1> QED
  BY <1>1, <1>2, OrderFrame

\* A read timestamp is checked and published under the lock, when it is not before the
\* oldest one; the pinned timestamp is not after that.
LEMMA ReadingOrder ==
    ASSUME TypeInv, OrderInv, NEW s \in Sessions, Reading(s)
    PROVE  OrderInv'
<1>1. /\ UNCHANGED <<oldest, stable, pinned, ckpt_ts, claimed, my>>
      /\ \A t \in Sessions : t # s => pc'[t] = pc[t]
      /\ pc'[s] \notin {"set", "ask"}
  BY DEF Reading, BeginRead, SetReadTimestamp, GetSnapshot, EndRead, Goto, TypeInv, PlaceType,
         global, history
<1>2. ASSUME NEW t \in Sessions PROVE read_ts'[t] \in {NONE, read_ts[t]} \/ read_ts'[t] >= oldest
  <2>1. \A ts \in 0..MaxTs, round \in BOOLEAN :
          ReadTimestamp(ts, round) = NONE \/ ReadTimestamp(ts, round) >= oldest
    BY DEF ReadTimestamp, TypeInv, GlobalType
  <2>2. read_ts \in [Sessions -> Nat]
    BY DEF TypeInv, SharedType
  <2> QED
    BY <2>1, <2>2 DEF Reading, BeginRead, SetReadTimestamp, GetSnapshot, EndRead, shared
<1>3. claimed <= oldest /\ pinned <= oldest /\ read_ts' \in [Sessions -> Nat]
  <2>1. read_ts' \in [Sessions -> Nat]
    BY ReadingType DEF TypeInv, SharedType
  <2> QED
    BY <2>1 DEF OrderInv, ClaimsPinned, OldestNotAfterStable, TypeInv, GlobalType, HistoryType
<1>4. ASSUME NEW t \in Sessions, read_ts'[t] # NONE
      PROVE  claimed <= read_ts'[t] /\ pinned <= read_ts'[t]
  BY <1>2, <1>3, <1>4 DEF OrderInv, HistoryKept, TypeInv, GlobalType, HistoryType
<1> QED
  BY <1>1, <1>4 DEF OrderInv, OldestNotAfterStable, HistoryKept, SetInOrder, ClaimsPinned

\* Queries and walks move nothing; what is stored was found in order and is compared again.
LEMMA SettingOrder ==
    ASSUME TypeInv, OrderInv, NEW s \in Sessions, Setting(s)
    PROVE  OrderInv'
<1> USE DEF TypeInv
<1>1. CASE QueryAllDurable(s) \/ QueryWalk(s) \/ QueryEnd(s) \/ UpdatePinned(s) \/ ScanReader(s)
             \/ ScanEnd(s)
  <2>1. UNCHANGED <<oldest, stable, pinned, ckpt_ts, read_ts, claimed>>
    BY <1>1 DEF QueryAllDurable, QueryWalk, QueryEnd, UpdatePinned, ScanReader, ScanEnd,
                global, shared, history
  <2>2. \A t \in Sessions : t # s => pc'[t] = pc[t] /\ my'[t] = my[t]
    BY <1>1 DEF QueryAllDurable, QueryWalk, QueryEnd, UpdatePinned, ScanReader, ScanEnd,
                Goto, PlaceType
  <2>3. pc'[s] \notin {"set", "ask"}
    BY <1>1 DEF QueryAllDurable, QueryWalk, QueryEnd, UpdatePinned, ScanReader, ScanEnd,
                Goto, PlaceType
  <2> QED
    BY <2>1, <2>2, <2>3, OrderFrame
<1>2. ASSUME NEW o \in 0..MaxTs, NEW t \in 0..MaxTs, SetGlobal(s, o, t)
      PROVE  OrderInv'
  <2> DEFINE a == IF oldest # NONE /\ o <= oldest THEN NONE ELSE o
             b == IF stable # NONE /\ t <= stable THEN NONE ELSE t
  <2>1. my' = [my EXCEPT ![s] = [NoLocals EXCEPT !.oldest = a, !.stable = b]]
    BY <1>2, Zenon DEF SetGlobal
  <2>2. my'[s].oldest = a /\ my'[s].stable = b
    <3>1. PICK x, y : x = a /\ y = b
      BY Zenon
    <3>2. PICK l : l = [NoLocals EXCEPT !.oldest = x, !.stable = y]
      BY Zenon
    <3>3. l.oldest = x /\ l.stable = y
      BY <3>2 DEF NoLocals
    <3>4. my' = [my EXCEPT ![s] = l]
      BY <2>1, <3>1, <3>2, Zenon
    <3> HIDE DEF a, b
    <3> QED
      BY <3>1, <3>3, <3>4
  <2>3. a <= stable \/ a <= b
    BY <1>2, ConstantTypes DEF SetGlobal, GlobalType, OrderInv, NONE
  <2>4. \A r \in Sessions : r # s => pc'[r] = pc[r] /\ my'[r] = my[r]
    BY <1>2 DEF SetGlobal, Goto, PlaceType
  <2>5. /\ UNCHANGED <<oldest, stable, pinned, ckpt_ts, read_ts, claimed>>
        /\ pc'[s] = "set"
    BY <1>2 DEF SetGlobal, global, shared, history, Goto, PlaceType
  <2> HIDE DEF a, b
  <2> QED
    BY <2>2, <2>3, <2>4, <2>5
       DEF OrderInv, OldestNotAfterStable, HistoryKept, SetInOrder, ClaimsPinned
<1>3. CASE StoreGlobal(s)
  <2>1. my[s].oldest \in Nat /\ my[s].stable \in Nat
    BY DEF Locals
  <2>2. /\ oldest' = IF oldest <= my[s].oldest THEN my[s].oldest ELSE oldest
        /\ stable' = IF stable <= my[s].stable THEN my[s].stable ELSE stable
        /\ UNCHANGED <<pinned, ckpt_ts, read_ts, claimed>>
    BY <1>3, <2>1, MaxPair DEF StoreGlobal, GlobalType, shared, history
  <2>3. my[s].oldest <= stable \/ my[s].oldest <= my[s].stable
    BY <1>3 DEF StoreGlobal, OrderInv, SetInOrder
  <2>4. \A t \in Sessions : t # s => pc'[t] = pc[t] /\ my'[t] = my[t]
    BY <1>3 DEF StoreGlobal, Goto, PlaceType
  <2>5. pc'[s] = "update_pinned"
    BY <1>3 DEF StoreGlobal, Goto, PlaceType
  <2>6. /\ stable <= stable' /\ oldest <= oldest' /\ oldest' <= stable'
        /\ oldest' # NONE /\ stable' # NONE /\ pinned' <= oldest'
        /\ oldest' \in Nat /\ stable' \in Nat
    BY <2>1, <2>2, <2>3 DEF OrderInv, OldestNotAfterStable, GlobalType, NONE
  <2>7. SetInOrder'
    <3>1. \A t \in Sessions : my[t].oldest \in Nat
      BY DEF Locals
    <3> QED
      BY <2>4, <2>5, <2>6, <3>1 DEF OrderInv, SetInOrder, GlobalType
  <2> QED
    BY <2>2, <2>4, <2>5, <2>6, <2>7
       DEF OrderInv, OldestNotAfterStable, HistoryKept, ClaimsPinned
<1>4. CASE Pin(s)
  <2>1. /\ PinnedNow \in Nat /\ PinnedNow <= oldest
        /\ \A t \in Sessions : read_ts[t] # NONE => PinnedNow <= read_ts[t]
    BY PinnedNowIs DEF GlobalType, SharedType
  <2>2. /\ pinned' = IF pinned <= PinnedNow THEN PinnedNow ELSE pinned
        /\ UNCHANGED <<oldest, stable, ckpt_ts, read_ts, claimed>>
    BY <1>4, <2>1, MaxPair DEF Pin, GlobalType, shared, history
  <2>3. \A t \in Sessions : t # s => pc'[t] = pc[t] /\ my'[t] = my[t]
    BY <1>4 DEF Pin, Goto, PlaceType
  <2>4. pc'[s] = "idle"
    BY <1>4 DEF Pin, Goto, PlaceType
  <2>5. pinned' \in Nat /\ pinned <= pinned' /\ pinned' <= oldest
        /\ \A t \in Sessions : read_ts[t] # NONE => pinned' <= read_ts[t]
    BY <2>1, <2>2 DEF OrderInv, OldestNotAfterStable, HistoryKept, GlobalType
  <2>6. ClaimsPinned'
    <3>1. \A t \in Sessions : my[t].ts \in Nat
      BY DEF Locals
    <3> QED
      BY <2>2, <2>3, <2>4, <2>5, <3>1 DEF OrderInv, ClaimsPinned, GlobalType, HistoryType
  <2> QED
    BY <2>2, <2>3, <2>4, <2>5, <2>6 DEF OrderInv, OldestNotAfterStable, HistoryKept, SetInOrder
<1> QED
  BY <1>1, <1>2, <1>3, <1>4 DEF Setting

\* A checkpoint takes the stable timestamp, which nothing claimed is after; what is claimed
\* while it runs is not after its timestamp.
LEMMA CheckpointingOrder ==
    ASSUME TypeInv, OrderInv, NEW s \in Sessions, Checkpointing(s)
    PROVE  OrderInv'
<1> USE DEF TypeInv
<1>1. CASE AskPinned(s)
  <2>1. PICK l : l = [NoLocals EXCEPT !.ts = pinned]
    BY Zenon
  <2>2. l.ts = pinned
    BY <2>1 DEF NoLocals
  <2>3. my' = [my EXCEPT ![s] = l] /\ pc' = [pc EXCEPT ![s] = "ask"]
    BY <1>1, <2>1 DEF AskPinned, Goto
  <2>4. UNCHANGED <<oldest, stable, pinned, ckpt_ts, read_ts, claimed>>
    BY <1>1 DEF AskPinned, global, shared, history
  <2> QED
    BY <2>2, <2>3, <2>4 DEF OrderInv, OldestNotAfterStable, HistoryKept, SetInOrder, ClaimsPinned,
                            GlobalType, PlaceType
<1>2. CASE AskCheckpoint(s)
  <2>1. my[s].ts \in Nat /\ my[s].ts <= pinned
    BY <1>2 DEF Locals, AskCheckpoint, OrderInv, ClaimsPinned
  <2>2. PICK a \in Nat : /\ claimed' = Max({claimed, a})
                         /\ a <= pinned /\ (ckpt_ts # NONE => a <= ckpt_ts)
    <3>1. PICK a : a = IF ckpt_ts = NONE THEN my[s].ts ELSE Min({my[s].ts, ckpt_ts})
      BY Zenon
    <3>2. a \in Nat /\ a <= my[s].ts /\ (ckpt_ts # NONE => a <= ckpt_ts)
      BY <2>1, <3>1, MinPair DEF GlobalType
    <3>3. claimed' = Max({claimed, a})
      BY <1>2, <3>1 DEF AskCheckpoint
    <3>4. a <= pinned
      BY <2>1, <3>2 DEF GlobalType
    <3> QED
      BY <3>2, <3>3, <3>4
  <2>3. /\ claimed' \in Nat /\ claimed' <= pinned
        /\ ckpt_ts # NONE => claimed' <= ckpt_ts
    BY <2>2, MaxPair DEF OrderInv, ClaimsPinned, HistoryKept, HistoryType, GlobalType
  <2>4. \A t \in Sessions : read_ts[t] # NONE => claimed' <= read_ts[t]
    BY <2>3 DEF OrderInv, HistoryKept, GlobalType, SharedType
  <2>5. UNCHANGED <<oldest, stable, pinned, ckpt_ts, read_ts>>
    BY <1>2 DEF AskCheckpoint, global, shared
  <2>6. pc' = [pc EXCEPT ![s] = "idle"] /\ my' = [my EXCEPT ![s] = NoLocals]
    BY <1>2 DEF AskCheckpoint, Goto
  <2> QED
    BY <2>3, <2>4, <2>5, <2>6 DEF OrderInv, OldestNotAfterStable, HistoryKept, SetInOrder,
                                  ClaimsPinned, PlaceType
<1>3. CASE CkptBegin(s) \/ CkptBump(s)
  <2>1. UNCHANGED <<oldest, stable, pinned, ckpt_ts, read_ts, claimed, my>>
    BY <1>3 DEF CkptBegin, CkptBump, global, shared, history
  <2>2. (\A t \in Sessions : t # s => pc'[t] = pc[t]) /\ pc'[s] \notin {"set", "ask"}
    BY <1>3 DEF CkptBegin, CkptBump, Goto, PlaceType
  <2> QED
    BY <2>1, <2>2, OrderFrame
<1>4. CASE CkptShare(s) \/ CkptRelease(s)
  <2>1. UNCHANGED <<oldest, stable, pinned, read_ts, claimed, my>>
    BY <1>4 DEF CkptShare, CkptRelease, shared, history
  <2>2. (\A t \in Sessions : t # s => pc'[t] = pc[t]) /\ pc'[s] \notin {"set", "ask"}
    BY <1>4 DEF CkptShare, CkptRelease, Goto, PlaceType
  <2>3. ckpt_ts' = stable \/ ckpt_ts' = NONE
    BY <1>4 DEF CkptShare, CkptRelease
  <2>4. claimed <= stable
    BY DEF OrderInv, ClaimsPinned, OldestNotAfterStable, GlobalType, HistoryType
  <2> QED
    BY <2>1, <2>2, <2>3, <2>4 DEF OrderInv, OldestNotAfterStable, HistoryKept, SetInOrder,
                                  ClaimsPinned
<1> QED
  BY <1>1, <1>2, <1>3, <1>4 DEF Checkpointing

LEMMA OrderStep == TypeInv /\ OrderInv /\ [Next]_vars => OrderInv'
<1> SUFFICES ASSUME TypeInv, OrderInv, [Next]_vars PROVE OrderInv'
  OBVIOUS
<1>1. CASE UNCHANGED vars
  BY <1>1 DEF vars, global, shared, history, OrderInv, OldestNotAfterStable, HistoryKept,
              SetInOrder, ClaimsPinned
<1>2. CASE Next
  BY <1>2, WritingOrder, ReadingOrder, SettingOrder, CheckpointingOrder DEF Next
<1> QED
  BY <1>1, <1>2

LEMMA OrderAlways == ASSUME Start # NONE PROVE Spec => []OrderInv
<1>1. Init => OrderInv
  BY OrderInit
<1> QED
  BY TypeInit, TypeStep, <1>1, OrderStep, PTL DEF Spec

\* Once both are set, the oldest timestamp is never after the stable one and the pinned one
\* never after the oldest, although __wt_txn_global_set_timestamp checks under one lock and
\* stores under another, with any number of threads that do so at once.
THEOREM OldestStaysBeforeStable ==
    ASSUME Start # NONE PROVE Spec => []OldestNotAfterStable
<1>1. OrderInv => OldestNotAfterStable
  BY DEF OrderInv
<1> QED
  BY <1>1, OrderAlways, PTL

\* What __wt_txn_pinned_timestamp has ever told anybody to be dispensable is needed by no
\* reader and by no checkpoint, with any number of readers, setters and sessions that ask.
THEOREM HistoryAlwaysKept ==
    ASSUME Start # NONE PROVE Spec => []HistoryKept
<1>1. OrderInv => HistoryKept
  BY DEF OrderInv
<1> QED
  BY <1>1, OrderAlways, PTL

----------------------------------------------------------------------------
(* Transactions and all_durable. *)

LEMMA DurableInit == ASSUME Init PROVE DurableInv
<1> USE ConstantTypes, NoTxnType DEF Init, NONE
<1>1. \A s \in Sessions : TxnWell(s) /\ Published(s) /\ PublishedGiven(s) /\ QueryBelow(s)
  BY DEF TxnWell, Published, PublishedGiven, QueryBelow, Committed, Ended
<1>2. IdsDistinct /\ GivenKnown
  BY DEF IdsDistinct, GivenKnown
<1>3. DurableEnded /\ AllDurableEnded
  BY DEF DurableEnded, AllDurableEnded
<1> QED
  BY <1>1, <1>2, <1>3 DEF DurableInv

\* The global durable timestamp is before that of any transaction that may still fail
\* and is not published, and before any that will be given.
LEMMA DurableBefore ==
    ASSUME TypeInv, DurableInv
    PROVE  /\ \A s \in Sessions : pc[s] = "publish" => durable < txn[s].durable
           /\ durable < NextTs
<1>1. NextTs \in Nat /\ Start < NextTs /\ \A i \in 1..MaxId : given[i] < NextTs
  BY NextTsLater DEF TypeInv
<1>2. ASSUME NEW s \in Sessions, pc[s] = "publish" PROVE durable < txn[s].durable
  <2>1. /\ txn[s].id \in 1..MaxId /\ txn[s].id \notin over /\ txn[s].commit
        /\ given[txn[s].id] = txn[s].durable /\ txn[s].durable # NONE
    BY <1>2 DEF DurableInv, TxnWell, TypeInv, TxnPlace, Committed, Ended
  <2>2. Start < txn[s].durable
    BY <2>1 DEF DurableInv, GivenKnown
  <2>3. \A i \in 1..MaxId : i # txn[s].id => given[i] < txn[s].durable
    BY <1>2, <2>1 DEF DurableInv, Published, Ended, Committed
  <2> QED
    BY <2>1, <2>2, <2>3 DEF DurableInv, DurableEnded, TypeInv, HistoryType
<1>3. durable < NextTs
  BY <1>1 DEF DurableInv, DurableEnded, TypeInv, HistoryType
<1> QED
  BY <1>2, <1>3

\* Who neither begins nor ends a transaction and does not query disturbs none.
LEMMA DurableFrame ==
    ASSUME TypeInv, DurableInv, NEW s \in Sessions,
           UNCHANGED <<durable, answer, given, over, pinned_durable, current>>,
           \A t \in Sessions : /\ txn'[t].id = txn[t].id /\ txn'[t].commit = txn[t].commit
                               /\ txn[t].commit => txn'[t].durable = txn[t].durable,
           \A t \in Sessions : t # s => pc'[t] = pc[t] /\ my'[t] = my[t],
           {pc[s], pc'[s]} \cap (Ended \cup {"publish", "resolve", "query"}) = {}
    PROVE  DurableInv'
<1>1. ASSUME NEW t \in Sessions PROVE TxnWell(t)'
  <2>1. TxnWell(t)
    BY DEF DurableInv
  <2> QED
    BY <2>1 DEF TxnWell, Ended, Committed
<1>2. ASSUME NEW t \in Sessions PROVE Published(t)' /\ PublishedGiven(t)'
  <2>1. Published(t) /\ PublishedGiven(t)
    BY DEF DurableInv
  <2> QED
    BY <2>1 DEF Published, PublishedGiven, Ended, Committed
<1>3. ASSUME NEW t \in Sessions PROVE QueryBelow(t)'
  <2>1. QueryBelow(t)
    BY DEF DurableInv
  <2>2. \A u \in Sessions : pc'[u] \notin Ended => pc[u] \notin Ended
    OBVIOUS
  <2> QED
    BY <2>1, <2>2 DEF QueryBelow
<1>4. IdsDistinct' /\ GivenKnown'
  BY DEF DurableInv, IdsDistinct, GivenKnown
<1>5. DurableEnded' /\ AllDurableEnded'
  BY DEF DurableInv, DurableEnded, AllDurableEnded
<1> QED
  BY <1>1, <1>2, <1>3, <1>4, <1>5 DEF DurableInv

\* A new transaction has an id that nobody had before, and no timestamp.
LEMMA BeginDurable ==
    ASSUME TypeInv, DurableInv, NEW s \in Sessions, Begin(s)
    PROVE  DurableInv'
<1> USE ConstantTypes
<1>1. PICK new : new = [NoTxn EXCEPT !.state = "running", !.id = current]
  BY Zenon
<1>2. /\ txn' = [txn EXCEPT ![s] = new] /\ new.id = current /\ new.commit = FALSE
      /\ current \in 1..MaxId /\ current' = current + 1 /\ pc[s] = "idle"
      /\ UNCHANGED <<durable, answer, given, over, pinned_durable, pc, my>>
  <2>1. txn' = [txn EXCEPT ![s] = new]
    BY <1>1, Zenon DEF Begin
  <2>2. current \in 1..MaxId /\ current \in Nat
    BY DEF Begin, TypeInv, SharedType
  <2>3. new.id = current /\ new.commit = FALSE
    BY <1>1, <2>2, BegunType
  <2> QED
    BY <2>1, <2>2, <2>3 DEF Begin, global, history
<1>3. \A t \in Sessions : t # s => txn'[t] = txn[t]
  BY <1>2 DEF TypeInv
<1>4. txn'[s] = new
  BY <1>2 DEF TypeInv
<1>5. given[current] = NONE /\ current \notin over
  BY <1>2 DEF DurableInv, GivenKnown
<1>6. ASSUME NEW t \in Sessions PROVE TxnWell(t)'
  <2>1. TxnWell(t) /\ txn[t].id \in Nat
    BY DEF DurableInv, TypeInv, Txns
  <2> QED
    BY <1>2, <1>3, <1>4, <1>5, <2>1 DEF TxnWell, Ended, Committed
<1>7. ASSUME NEW t \in Sessions PROVE Published(t)' /\ PublishedGiven(t)'
  <2>1. Published(t) /\ PublishedGiven(t)
    BY DEF DurableInv
  <2> QED
    BY <1>2, <1>3, <1>4, <2>1 DEF Published, PublishedGiven
<1>8. ASSUME NEW t \in Sessions PROVE QueryBelow(t)'
  <2>1. QueryBelow(t)
    BY DEF DurableInv
  <2> QED
    BY <1>2, <1>3, <1>4, <2>1 DEF QueryBelow
<1>9. IdsDistinct'
  <2>1. \A t \in Sessions : txn[t].id # current
    <3> TAKE t \in Sessions
    <3>1. txn[t].id = NONE \/ txn[t].id < current
      BY DEF DurableInv, TxnWell
    <3> QED
      BY <1>2, <3>1 DEF NONE
  <2> QED
    BY <1>2, <1>3, <1>4, <2>1 DEF DurableInv, IdsDistinct
<1>10. GivenKnown'
  <2>1. \A t \in Sessions : txn[t].id # NONE => txn'[t].id = txn[t].id
    <3>1. txn[s].id = NONE
      BY DEF Begin, TypeInv, TxnPlace
    <3> QED
      BY <1>3, <3>1
  <2> QED
    BY <1>2, <2>1 DEF DurableInv, GivenKnown, NONE
<1>11. DurableEnded' /\ AllDurableEnded'
  BY <1>2 DEF DurableInv, DurableEnded, AllDurableEnded
<1> QED
  BY <1>6, <1>7, <1>8, <1>9, <1>10, <1>11 DEF DurableInv

\* A timestamp is after all that were given and after what anybody was told, and no
\* other one is waiting to be published.
LEMMA SetTimestampDurable ==
    ASSUME TypeInv, DurableInv, NEW s \in Sessions, NEW state \in {"running", "prepared"},
           SetTimestamp(s, state)
    PROVE  DurableInv'
<1> USE ConstantTypes
<1>1. NextTs \in Nat /\ Start < NextTs /\ durable < NextTs /\ \A i \in 1..MaxId : given[i] < NextTs
  BY NextTsLater, DurableBefore DEF TypeInv
<1>2. PICK id \in 1..MaxId : txn[s].id = id /\ id \notin over /\ id < current /\ given[id] = NONE
  BY DEF SetTimestamp, TypeInv, TxnPlace, DurableInv, TxnWell, NONE, Ended, Committed
<1>3. /\ txn'[s].id = id /\ txn'[s].durable = NextTs /\ txn'[s].commit
      /\ \A t \in Sessions : t # s => txn'[t] = txn[t]
  BY <1>2 DEF SetTimestamp, TypeInv, Txns
<1>4. /\ given'[id] = NextTs /\ \A i \in 1..MaxId : i # id => given'[i] = given[i]
      /\ pc'[s] = "publish" /\ \A t \in Sessions : t # s => pc'[t] = pc[t] /\ pc[t] # "publish"
      /\ pc[s] = "idle" /\ NextTs <= MaxTs
      /\ UNCHANGED <<durable, answer, over, pinned_durable, current, my>>
  BY <1>2 DEF SetTimestamp, InOrder, Goto, TypeInv, PlaceType, HistoryType, global, shared
<1>5. \A t \in Sessions : t # s => txn[t].id # id
  BY <1>2 DEF DurableInv, IdsDistinct, NONE
<1>6. ASSUME NEW t \in Sessions PROVE TxnWell(t)'
  <2>1. TxnWell(t) /\ (txn[t].id # NONE => txn[t].id \in 1..MaxId)
    BY DEF DurableInv, TypeInv, TxnPlace
  <2> QED
    <3>1. CASE t = s
      <4>1. /\ txn'[t].id = id /\ txn'[t].durable = NextTs /\ txn'[t].commit /\ given'[id] = NextTs
            /\ id # NONE /\ id < current' /\ id \notin over' /\ pc'[t] = "publish" /\ NextTs # NONE
        BY <1>1, <1>2, <1>3, <1>4, <3>1 DEF NONE
      <4> QED
        BY <4>1 DEF TxnWell, Ended, Committed
    <3>2. CASE t # s
      <4>1. /\ txn'[t] = txn[t] /\ pc'[t] = pc[t] /\ over' = over /\ current' = current
            /\ txn[t].id # NONE => given'[txn[t].id] = given[txn[t].id]
        BY <1>3, <1>4, <1>5, <2>1, <3>2
      <4> QED
        BY <2>1, <4>1 DEF TxnWell
    <3> QED
      BY <3>1, <3>2
<1>7. ASSUME NEW t \in Sessions PROVE Published(t)' /\ PublishedGiven(t)'
  <2>1. Published(t) /\ PublishedGiven(t)
    BY DEF DurableInv
  <2> QED
    BY <1>1, <1>3, <1>4, <2>1 DEF Published, PublishedGiven
<1>8. ASSUME NEW t \in Sessions PROVE QueryBelow(t)'
  <2>1. QueryBelow(t) /\ my[t].ts \in Nat /\ durable \in Nat
    BY DEF DurableInv, TypeInv, Locals, GlobalType
  <2>2. CASE t = s
    BY <1>4, <2>2 DEF QueryBelow
  <2>3. CASE t # s
    BY <1>1, <1>3, <1>4, <2>1, <2>3 DEF QueryBelow, Ended, Committed
  <2> QED
    BY <2>2, <2>3
<1>9. IdsDistinct'
  BY <1>2, <1>3 DEF DurableInv, IdsDistinct
<1>10. GivenKnown'
  <2>1. \A t \in Sessions : txn'[t].id = txn[t].id
    BY <1>2, <1>3
  <2> QED
    <3>1. SUFFICES ASSUME NEW i \in 1..MaxId
                   PROVE  /\ i >= current' => given'[i] = NONE /\ i \notin over'
                          /\ given'[i] # NONE => Start < given'[i] /\ given'[i] <= MaxTs
                          /\ given'[i] # NONE /\ i \notin over' => \E t \in Sessions : txn'[t].id = i
      BY DEF GivenKnown
    <3>2. CASE i = id
      <4>1. given'[i] = NextTs /\ Start < NextTs /\ NextTs <= MaxTs /\ txn'[s].id = i
        BY <1>1, <1>3, <1>4, <3>2
      <4>2. ~(i >= current')
        BY <1>2, <1>4, <3>2 DEF TypeInv, SharedType
      <4> QED
        BY <4>1, <4>2
    <3>3. CASE i # id
      BY <1>4, <2>1, <3>3 DEF DurableInv, GivenKnown
    <3> QED
      BY <3>2, <3>3
<1>11. DurableEnded'
  BY <1>2, <1>4 DEF DurableInv, DurableEnded, TypeInv, HistoryType
<1>12. AllDurableEnded'
  BY <1>1, <1>4 DEF DurableInv, DurableEnded, AllDurableEnded, TypeInv, HistoryType, GlobalType
<1> QED
  BY <1>6, <1>7, <1>8, <1>9, <1>10, <1>11, <1>12 DEF DurableInv

LEMMA PublishDurable ==
    ASSUME TypeInv, DurableInv, NEW s \in Sessions, PublishTimestamp(s)
    PROVE  DurableInv'
<1> USE ConstantTypes
<1>1. /\ pinned_durable'[s] = txn[s].durable
      /\ \A t \in Sessions : t # s => pinned_durable'[t] = pinned_durable[t] /\ pc'[t] = pc[t]
      /\ pc[s] = "publish" /\ pc'[s] \in {"idle", "resolve"}
      /\ UNCHANGED <<durable, answer, given, over, current, my, txn>>
  BY DEF PublishTimestamp, Goto, TypeInv, PlaceType, SharedType, global, history
<1>2. txn[s].commit /\ txn[s].id # NONE /\ Start < txn[s].durable
  <2>1. txn[s].commit /\ txn[s].id \in 1..MaxId /\ given[txn[s].id] = txn[s].durable
         /\ txn[s].durable # NONE
    BY <1>1 DEF DurableInv, TxnWell, TypeInv, TxnPlace, Committed, Ended
  <2> QED
    BY <2>1 DEF DurableInv, GivenKnown, NONE
<1>3. ASSUME NEW t \in Sessions PROVE TxnWell(t)'
  <2>1. TxnWell(t)
    BY DEF DurableInv
  <2> QED
    BY <1>1, <1>2, <2>1 DEF TxnWell, Ended, Committed
<1>4. ASSUME NEW t \in Sessions PROVE Published(t)' /\ PublishedGiven(t)'
  <2>1. Published(t) /\ PublishedGiven(t)
    BY DEF DurableInv
  <2> QED
    BY <1>1, <1>2, <2>1 DEF Published, PublishedGiven
<1>5. ASSUME NEW t \in Sessions PROVE QueryBelow(t)'
  <2>1. QueryBelow(t)
    BY DEF DurableInv
  <2>2. \A u \in Sessions : pc'[u] \notin Ended => pc[u] \notin Ended
    BY <1>1 DEF Ended, Committed
  <2> QED
    BY <1>1, <2>1, <2>2 DEF QueryBelow
<1>6. IdsDistinct' /\ GivenKnown'
  BY <1>1 DEF DurableInv, IdsDistinct, GivenKnown
<1>7. DurableEnded' /\ AllDurableEnded'
  BY <1>1 DEF DurableInv, DurableEnded, AllDurableEnded
<1> QED
  BY <1>3, <1>4, <1>5, <1>6, <1>7 DEF DurableInv

\* A transaction commits, is resolved or rolls back.
LEMMA EndDurable ==
    ASSUME TypeInv, DurableInv, NEW s \in Sessions, Commit(s) \/ Resolve(s) \/ Rollback(s)
    PROVE  DurableInv'
<1> USE ConstantTypes
<1>1. /\ over' = over \cup {txn[s].id} /\ pc'[s] \in Ended
      /\ \A t \in Sessions : t # s => pc'[t] = pc[t]
      /\ pc'[s] \in Committed => txn[s].commit
      /\ pc[s] \in {"idle", "resolve"}
      /\ UNCHANGED <<durable, answer, given, pinned_durable, current, my, txn>>
  BY DEF Commit, Resolve, Rollback, Goto, TypeInv, PlaceType, global, shared, Ended, Committed,
         DurableInv, TxnWell
<1>2. txn[s].id # NONE /\ txn[s].id < current
  BY DEF Commit, Resolve, Rollback, TypeInv, TxnPlace, DurableInv, TxnWell
<1>3. \A t \in Sessions : t # s => txn[t].id # txn[s].id
  BY <1>2 DEF DurableInv, IdsDistinct
<1>4. ASSUME NEW t \in Sessions PROVE TxnWell(t)'
  <2>1. TxnWell(t)
    BY DEF DurableInv
  <2> QED
    BY <1>1, <1>2, <1>3, <2>1 DEF TxnWell, Ended, Committed
<1>5. ASSUME NEW t \in Sessions PROVE Published(t)' /\ PublishedGiven(t)'
  <2>1. Published(t) /\ PublishedGiven(t)
    BY DEF DurableInv
  <2> QED
    BY <1>1, <2>1 DEF Published, PublishedGiven
<1>6. ASSUME NEW t \in Sessions PROVE QueryBelow(t)'
  <2>1. QueryBelow(t)
    BY DEF DurableInv
  <2>2. \A u \in Sessions : pc'[u] \notin Ended => pc[u] \notin Ended
    BY <1>1
  <2> QED
    BY <1>1, <2>1, <2>2 DEF QueryBelow, Ended, Committed
<1>7. IdsDistinct' /\ GivenKnown'
  <2>1. IdsDistinct'
    BY <1>1 DEF DurableInv, IdsDistinct
  <2>2. \A i \in 1..MaxId : i >= current => i # txn[s].id
    BY <1>2 DEF TypeInv, SharedType, TxnPlace
  <2>3. GivenKnown'
    BY <1>1, <2>2 DEF DurableInv, GivenKnown
  <2> QED
    BY <2>1, <2>3
<1>8. DurableEnded' /\ AllDurableEnded'
  BY <1>1 DEF DurableInv, DurableEnded, AllDurableEnded
<1> QED
  BY <1>4, <1>5, <1>6, <1>7, <1>8 DEF DurableInv

\* What a session does after its transaction has ended: its entry goes, the generation and
\* the global durable timestamp move on, and the session is done with it.
LEMMA CleanDurable ==
    ASSUME TypeInv, DurableInv, NEW s \in Sessions, pc[s] \in Ended,
           UNCHANGED <<given, over, answer, current, my>>,
           \A t \in Sessions : t # s => /\ pinned_durable'[t] = pinned_durable[t]
                                        /\ txn'[t] = txn[t] /\ pc'[t] = pc[t],
           pinned_durable'[s] \in {NONE, pinned_durable[s]},
           \/ txn'[s] = txn[s] /\ pc[s] \in Committed /\ pc'[s] \in Committed
           \/ txn'[s] = NoTxn /\ pc'[s] \in {"idle", "panic"},
           durable' = durable \/ (pc[s] \in Committed /\ durable' = Max({durable, txn[s].durable}))
    PROVE  DurableInv'
<1> USE ConstantTypes, NoTxnType
<1>1. txn[s].id \in over /\ txn[s].id \in 1..MaxId
       /\ (pc[s] \in Committed => given[txn[s].id] = txn[s].durable)
  BY DEF DurableInv, TxnWell, TypeInv, TxnPlace
<1>2. /\ durable <= durable' /\ durable' \in Nat /\ durable \in Nat
      /\ durable' = durable \/ \E i \in over : given[i] = durable'
  <2>1. durable \in Nat /\ txn[s].durable \in Nat
    BY DEF TypeInv, Txns, GlobalType
  <2>2. Max({durable, txn[s].durable}) = IF durable <= txn[s].durable THEN txn[s].durable ELSE durable
    BY <2>1, MaxPair
  <2>3. CASE durable' = durable
    BY <2>1, <2>3
  <2>4. CASE pc[s] \in Committed /\ durable' = Max({durable, txn[s].durable})
    <3>1. CASE durable <= txn[s].durable
      <4>1. durable' = txn[s].durable /\ given[txn[s].id] = durable'
        BY <1>1, <2>2, <2>4, <3>1
      <4> QED
        BY <1>1, <2>1, <3>1, <4>1
    <3>2. CASE ~ (durable <= txn[s].durable)
      BY <2>1, <2>2, <2>4, <3>2
    <3> QED
      BY <3>1, <3>2
  <2> QED
    BY <2>3, <2>4
<1>3. ASSUME NEW t \in Sessions PROVE TxnWell(t)'
  <2>1. TxnWell(t)
    BY DEF DurableInv
  <2> QED
    BY <2>1 DEF TxnWell, Ended, Committed
<1>4. ASSUME NEW t \in Sessions PROVE Published(t)' /\ PublishedGiven(t)'
  <2>1. Published(t) /\ PublishedGiven(t)
    BY DEF DurableInv
  <2> QED
    BY <2>1 DEF Published, PublishedGiven, Ended
<1>5. ASSUME NEW t \in Sessions PROVE QueryBelow(t)'
  <2>1. QueryBelow(t) /\ my[t].ts \in Nat
    BY DEF DurableInv, TypeInv, Locals
  <2>2. \A u \in Sessions : txn'[u].commit /\ pc'[u] \notin Ended =>
                              /\ pc[u] \notin Ended /\ txn[u].commit
                              /\ txn'[u].durable = txn[u].durable
    BY DEF Ended
  <2>3. pc'[t] = "query" => pc[t] = "query"
    BY DEF Committed
  <2> QED
    BY <1>2, <2>1, <2>2, <2>3 DEF QueryBelow
<1>6. IdsDistinct'
  BY DEF DurableInv, IdsDistinct
<1>7. GivenKnown'
  <2>1. \A t \in Sessions : txn[t].id \notin over => txn'[t].id = txn[t].id
    BY <1>1
  <2> QED
    BY <2>1 DEF DurableInv, GivenKnown
<1>8. DurableEnded'
  <2>1. durable' = Start \/ \E i \in over : given[i] = durable'
    BY <1>2 DEF DurableInv, DurableEnded
  <2>2. Start <= durable /\ answer <= durable /\ answer \in Nat
    BY DEF DurableInv, DurableEnded, TypeInv, HistoryType
  <2> QED
    BY <1>2, <2>1, <2>2 DEF DurableEnded
<1>9. AllDurableEnded'
  BY DEF DurableInv, AllDurableEnded
<1> QED
  BY <1>3, <1>4, <1>5, <1>6, <1>7, <1>8, <1>9 DEF DurableInv

\* Writers.
LEMMA WritingDurable ==
    ASSUME TypeInv, DurableInv, NEW s \in Sessions, Writing(s)
    PROVE  DurableInv'
<1> USE DEF TypeInv, PlaceType, Goto, global, shared, history
<1>1. CASE Begin(s)
  BY <1>1, BeginDurable
<1>2. CASE SetCommitTimestamp(s) \/ CommitPrepared(s)
  BY <1>2, SetTimestampDurable DEF SetCommitTimestamp, CommitPrepared
<1>3. CASE PublishTimestamp(s)
  BY <1>3, PublishDurable
<1>4. CASE Prepare(s)
  <2>1. UNCHANGED <<durable, answer, given, over, pinned_durable, current, pc, my>> /\ pc[s] = "idle"
    BY <1>4 DEF Prepare
  <2>2. \A t \in Sessions : /\ txn'[t].id = txn[t].id /\ txn'[t].commit = txn[t].commit
                            /\ txn'[t].durable = txn[t].durable
    BY <1>4 DEF Prepare, Txns
  <2> QED
    BY <2>1, <2>2, DurableFrame DEF Ended, Committed
<1>5. CASE Commit(s) \/ Resolve(s) \/ Rollback(s)
  BY <1>5, EndDurable
<1>6. CASE ClearDurable(s)
  <2>1. /\ UNCHANGED <<given, over, answer, current, my, durable>> /\ pc[s] \in Ended
        /\ \A t \in Sessions : t # s => /\ pinned_durable'[t] = pinned_durable[t]
                                        /\ txn'[t] = txn[t] /\ pc'[t] = pc[t]
        /\ pinned_durable'[s] = NONE
    BY <1>6 DEF ClearDurable, SharedType, Ended, Committed
  <2>2. \/ txn'[s] = txn[s] /\ pc[s] \in Committed /\ pc'[s] \in Committed
        \/ txn'[s] = NoTxn /\ pc'[s] \in {"idle", "panic"}
    BY <1>6 DEF ClearDurable, Committed
  <2> QED
    BY <2>1, <2>2, CleanDurable
<1>7. CASE GenNext(s)
  <2>1. /\ UNCHANGED <<given, over, answer, current, my, durable, pinned_durable, txn>>
        /\ \A t \in Sessions : t # s => pc'[t] = pc[t]
        /\ pc[s] = "gen_next" /\ pc'[s] = "durable"
    BY <1>7 DEF GenNext
  <2> QED
    BY <2>1, CleanDurable DEF Ended, Committed
<1>8. CASE MoveDurable(s)
  <2>1. /\ UNCHANGED <<given, over, answer, current, my, pinned_durable>> /\ pc[s] = "durable"
        /\ \A t \in Sessions : t # s => txn'[t] = txn[t] /\ pc'[t] = pc[t]
        /\ durable' = Max({durable, txn[s].durable})
    BY <1>8 DEF MoveDurable
  <2>2. \/ txn'[s] = txn[s] /\ pc'[s] = "verify"
        \/ txn'[s] = NoTxn /\ pc'[s] = "idle"
    BY <1>8 DEF MoveDurable
  <2> QED
    BY <2>1, <2>2, CleanDurable DEF Ended, Committed
<1>9. CASE VerifyStable(s)
  <2>1. /\ UNCHANGED <<given, over, answer, current, my, pinned_durable, durable>> /\ pc[s] = "verify"
        /\ \A t \in Sessions : t # s => txn'[t] = txn[t] /\ pc'[t] = pc[t]
        /\ txn'[s] = NoTxn /\ pc'[s] \in {"idle", "panic"}
    BY <1>9 DEF VerifyStable
  <2> QED
    BY <2>1, CleanDurable DEF Ended, Committed
<1> QED
  BY <1>1, <1>2, <1>3, <1>4, <1>5, <1>6, <1>7, <1>8, <1>9 DEF Writing

\* Readers and checkpoints have no timestamps of their own to publish.
LEMMA ReadingDurable ==
    ASSUME TypeInv, DurableInv, NEW s \in Sessions, Reading(s) \/ Checkpointing(s)
    PROVE  DurableInv'
<1> USE DEF TypeInv, PlaceType, Goto, global, shared, history
<1>1. UNCHANGED <<durable, answer, given, over, pinned_durable, current>>
  BY DEF Reading, BeginRead, SetReadTimestamp, GetSnapshot, EndRead, Checkpointing, AskPinned,
         AskCheckpoint, CkptBegin, CkptShare, CkptBump, CkptRelease
<1>2. /\ \A t \in Sessions : t # s => pc'[t] = pc[t] /\ my'[t] = my[t] /\ txn'[t] = txn[t]
      /\ {pc[s], pc'[s]} \cap (Ended \cup {"publish", "resolve", "query"}) = {}
  BY DEF Reading, BeginRead, SetReadTimestamp, GetSnapshot, EndRead, Checkpointing, AskPinned,
         AskCheckpoint, CkptBegin, CkptShare, CkptBump, CkptRelease, Ended, Committed
<1>3. /\ txn'[s].id = txn[s].id /\ txn'[s].commit = txn[s].commit
      /\ txn[s].commit => txn'[s].durable = txn[s].durable
  <2>1. CASE UNCHANGED txn
    BY <2>1
  <2>2. CASE \E ts \in 0..MaxTs, round \in BOOLEAN :
                BeginRead(s, ts, round) \/ SetReadTimestamp(s, ts, round)
    BY <2>2 DEF BeginRead, SetReadTimestamp, Txns
  <2>3. CASE GetSnapshot(s) \/ CkptBump(s)
    BY <2>3, SnapshotType DEF GetSnapshot, CkptBump, SharedType
  <2>4. txn[s].state \notin {"running", "prepared"} => txn[s].id = NONE /\ txn[s].commit = FALSE
    BY DEF TxnPlace, DurableInv, TxnWell, Txns
  <2>5. CASE EndRead(s)
    BY <2>4, <2>5, NoTxnType DEF EndRead
  <2>6. CASE CkptBegin(s)
    <3>1. Snapshot(NoTxn) \in Txns /\ Snapshot(NoTxn).id = NONE /\ Snapshot(NoTxn).commit = FALSE
      BY SnapshotType, NoTxnType DEF SharedType
    <3>2. PICK t : t = Snapshot(NoTxn)
      OBVIOUS
    <3>3. txn' = [txn EXCEPT ![s] = [t EXCEPT !.state = "checkpoint"]] /\ txn[s].state = "none"
      BY <2>6, <3>2 DEF CkptBegin
    <3>4. [t EXCEPT !.state = "checkpoint"].id = NONE /\ [t EXCEPT !.state = "checkpoint"].commit = FALSE
      BY <3>1, <3>2 DEF Txns
    <3> QED
      BY <2>4, <3>3, <3>4
  <2>7. CASE CkptRelease(s)
    BY <2>4, <2>7, NoTxnType DEF CkptRelease, TxnPlace
  <2> QED
    BY <2>1, <2>2, <2>3, <2>5, <2>6, <2>7 DEF Reading, Checkpointing, AskPinned, AskCheckpoint, CkptShare
<1> QED
  BY <1>1, <1>2, <1>3, DurableFrame

\* A query starts from the global durable timestamp, before it looks at anybody's.
LEMMA QueryAllDurableDurable ==
    ASSUME TypeInv, DurableInv, NEW s \in Sessions, QueryAllDurable(s)
    PROVE  DurableInv'
<1> USE ConstantTypes DEF TypeInv, PlaceType, Goto, global, shared, history
<1>1. /\ UNCHANGED <<durable, answer, given, over, pinned_durable, current, txn>>
      /\ pc[s] = "idle" /\ pc'[s] = "query" /\ my'[s].slot = 1 /\ my'[s].ts = durable
      /\ \A t \in Sessions : t # s => pc'[t] = pc[t] /\ my'[t] = my[t]
  BY DEF QueryAllDurable, NoLocals
<1>2. ASSUME NEW t \in Sessions PROVE TxnWell(t)' /\ Published(t)' /\ PublishedGiven(t)'
  <2>1. TxnWell(t) /\ Published(t) /\ PublishedGiven(t)
    BY DEF DurableInv
  <2> QED
    BY <1>1, <2>1 DEF TxnWell, Published, PublishedGiven, Ended, Committed
<1>3. ASSUME NEW t \in Sessions PROVE QueryBelow(t)'
  <2>1. QueryBelow(t) /\ Start <= durable /\ durable \in Nat
    BY DEF DurableInv, DurableEnded, GlobalType
  <2>2. \A u \in Sessions : ~ (u < 1)
    OBVIOUS
  <2>3. \A u \in Sessions : pc'[u] \notin Ended => pc[u] \notin Ended
    BY <1>1 DEF Ended, Committed
  <2> QED
    BY <1>1, <2>1, <2>2, <2>3 DEF QueryBelow
<1> QED
  BY <1>1, <1>2, <1>3 DEF DurableInv, IdsDistinct, GivenKnown, DurableEnded, AllDurableEnded

\* The query goes past a session: what it has is below the timestamp of that session's
\* transaction, published or not, if that may still fail.
LEMMA QueryWalkDurable ==
    ASSUME Start # NONE, TypeInv, DurableInv, NEW s \in Sessions, QueryWalk(s)
    PROVE  DurableInv'
<1> USE ConstantTypes DEF TypeInv, PlaceType, global, shared, history
<1>1. PICK n \in Sessions : my[s].slot = n
  BY DEF QueryWalk
<1>2. /\ UNCHANGED <<durable, answer, given, over, pinned_durable, current, txn, pc>>
      /\ pc[s] = "query" /\ my'[s].slot = n + 1
      /\ \A t \in Sessions : t # s => my'[t] = my[t]
  BY <1>1 DEF QueryWalk, Locals
<1>3. my'[s].ts = IF pinned_durable[n] = NONE THEN my[s].ts
                  ELSE IF my[s].ts = NONE THEN pinned_durable[n]
                  ELSE Min({my[s].ts, pinned_durable[n] - 1})
  BY <1>1 DEF QueryWalk, Locals
<1>4. /\ my[s].ts \in Nat /\ Start <= my[s].ts /\ my[s].ts <= durable /\ durable \in Nat
      /\ \A t \in Sessions : t < n /\ txn[t].commit /\ pc[t] \notin Ended => my[s].ts < txn[t].durable
  BY <1>1, <1>2 DEF DurableInv, QueryBelow, Locals, GlobalType
<1>5. my[s].ts # NONE
  BY <1>4 DEF NONE
<1>6. /\ my'[s].ts \in Nat /\ Start <= my'[s].ts /\ my'[s].ts <= my[s].ts
      /\ pinned_durable[n] # NONE => my'[s].ts < pinned_durable[n]
  <2>1. CASE pinned_durable[n] = NONE
    BY <1>3, <1>4, <2>1
  <2>2. CASE pinned_durable[n] # NONE
    <3>1. pinned_durable[n] \in Nat /\ Start < pinned_durable[n]
      BY <2>2 DEF DurableInv, PublishedGiven, SharedType
    <3>2. pinned_durable[n] - 1 \in Nat /\ Start <= pinned_durable[n] - 1
      BY <3>1
    <3>3. my'[s].ts = IF my[s].ts <= pinned_durable[n] - 1 THEN my[s].ts ELSE pinned_durable[n] - 1
      BY <1>3, <1>4, <1>5, <2>2, <3>2, MinPair
    <3> QED
      BY <1>4, <3>1, <3>2, <3>3
  <2> QED
    BY <2>1, <2>2
<1>7. txn[n].commit /\ pc[n] \notin Ended => my'[s].ts < txn[n].durable
  <2> SUFFICES ASSUME txn[n].commit, pc[n] \notin Ended PROVE my'[s].ts < txn[n].durable
    OBVIOUS
  <2>1. CASE pc[n] = "publish"
    <3>1. durable < txn[n].durable /\ txn[n].durable \in Nat
      BY <2>1, DurableBefore DEF Txns
    <3> QED
      BY <1>4, <1>6, <3>1
  <2>2. CASE pc[n] # "publish"
    <3>1. pinned_durable[n] = txn[n].durable
      BY <2>2 DEF DurableInv, Published
    <3>2. txn[n].id # NONE
      BY DEF DurableInv, TxnWell
    <3>3. txn[n].durable # NONE
      BY <3>2 DEF DurableInv, TxnWell
    <3> QED
      BY <1>6, <3>1, <3>3
  <2> QED
    BY <2>1, <2>2
<1>8. ASSUME NEW t \in Sessions PROVE TxnWell(t)' /\ Published(t)' /\ PublishedGiven(t)'
  <2>1. TxnWell(t) /\ Published(t) /\ PublishedGiven(t)
    BY DEF DurableInv
  <2> QED
    BY <1>2, <2>1 DEF TxnWell, Published, PublishedGiven
<1>9. QueryBelow(s)'
  <2>1. my'[s].ts <= durable
    BY <1>4, <1>6
  <2>2. ASSUME NEW t \in Sessions, t < n + 1, txn[t].commit, pc[t] \notin Ended
        PROVE  my'[s].ts < txn[t].durable
    <3>1. CASE t = n
      BY <1>7, <2>2, <3>1
    <3>2. CASE t # n
      <4>1. t < n
        BY <2>2, <3>2
      <4>2. my[s].ts < txn[t].durable /\ txn[t].durable \in Nat
        BY <1>4, <2>2, <4>1 DEF Txns
      <4> QED
        BY <1>4, <1>6, <4>2
    <3> QED
      BY <3>1, <3>2
  <2> QED
    BY <1>2, <1>6, <2>1, <2>2 DEF QueryBelow
<1>10. ASSUME NEW t \in Sessions, t # s PROVE QueryBelow(t)'
  <2>1. QueryBelow(t)
    BY DEF DurableInv
  <2> QED
    BY <1>2, <1>10, <2>1 DEF QueryBelow
<1> QED
  BY <1>2, <1>8, <1>9, <1>10 DEF DurableInv, IdsDistinct, GivenKnown, DurableEnded, AllDurableEnded

\* Having passed everybody, a query is below the timestamp of every transaction that may
\* still fail: what it tells includes only others.
LEMMA QueryEndDurable ==
    ASSUME TypeInv, DurableInv, NEW s \in Sessions, QueryEnd(s)
    PROVE  DurableInv'
<1> USE ConstantTypes DEF TypeInv, PlaceType, Goto, global, shared, history
<1>1. /\ UNCHANGED <<durable, given, over, pinned_durable, current, txn>>
      /\ pc[s] = "query" /\ pc'[s] = "idle" /\ answer' = Max({answer, my[s].ts})
      /\ \A t \in Sessions : t # s => pc'[t] = pc[t] /\ my'[t] = my[t]
  BY DEF QueryEnd
<1>2. /\ my[s].ts \in Nat /\ my[s].ts <= durable /\ answer \in Nat /\ answer <= durable
      /\ durable \in Nat
  BY <1>1 DEF DurableInv, QueryBelow, DurableEnded, Locals, GlobalType, HistoryType
<1>3. answer' = IF answer <= my[s].ts THEN my[s].ts ELSE answer
  BY <1>1, <1>2, MaxPair
<1>4. ASSUME NEW i \in 1..MaxId, given[i] # NONE, given[i] <= my[s].ts PROVE i \in over
  <2> SUFFICES ASSUME i \notin over PROVE FALSE
    OBVIOUS
  <2>1. PICK t \in Sessions : txn[t].id = i
    BY <1>4 DEF DurableInv, GivenKnown
  <2>2. txn[t].id # NONE /\ pc[t] \notin Ended /\ txn[t].commit /\ given[i] = txn[t].durable
    <3>1. TxnWell(t) /\ i # NONE
      BY DEF DurableInv, NONE
    <3> QED
      BY <1>4, <2>1, <3>1 DEF TxnWell
  <2>3. t < my[s].slot
    <3>1. my[s].slot \in Nat /\ my[s].slot > N
      BY DEF QueryEnd, Locals
    <3> QED
      BY <3>1
  <2>4. my[s].ts < txn[t].durable
    BY <1>1, <2>2, <2>3 DEF DurableInv, QueryBelow
  <2> QED
    BY <1>2, <1>4, <2>2, <2>4 DEF HistoryType
<1>5. AllDurableEnded'
  <2>1. ASSUME NEW i \in 1..MaxId, given[i] # NONE, given[i] <= answer' PROVE i \in over
    BY <1>3, <1>4, <2>1 DEF DurableInv, AllDurableEnded
  <2> QED
    BY <1>1, <2>1 DEF AllDurableEnded
<1>6. DurableEnded'
  BY <1>1, <1>2, <1>3 DEF DurableInv, DurableEnded
<1>7. ASSUME NEW t \in Sessions PROVE TxnWell(t)' /\ Published(t)' /\ PublishedGiven(t)'
  <2>1. TxnWell(t) /\ Published(t) /\ PublishedGiven(t)
    BY DEF DurableInv
  <2> QED
    BY <1>1, <2>1 DEF TxnWell, Published, PublishedGiven, Ended, Committed
<1>8. ASSUME NEW t \in Sessions PROVE QueryBelow(t)'
  <2>1. QueryBelow(t)
    BY DEF DurableInv
  <2>2. \A u \in Sessions : pc'[u] \notin Ended => pc[u] \notin Ended
    BY <1>1 DEF Ended, Committed
  <2> QED
    BY <1>1, <2>1, <2>2 DEF QueryBelow
<1> QED
  BY <1>1, <1>5, <1>6, <1>7, <1>8 DEF DurableInv, IdsDistinct, GivenKnown

\* Setters.
LEMMA SettingDurable ==
    ASSUME Start # NONE, TypeInv, DurableInv, NEW s \in Sessions, Setting(s)
    PROVE  DurableInv'
<1> USE DEF TypeInv, PlaceType, Goto, global, shared, history
<1>1. CASE QueryAllDurable(s)
  BY <1>1, QueryAllDurableDurable
<1>2. CASE QueryWalk(s)
  BY <1>2, QueryWalkDurable
<1>3. CASE QueryEnd(s)
  BY <1>3, QueryEndDurable
<1>4. CASE \/ \E o, t \in 0..MaxTs : SetGlobal(s, o, t)
           \/ StoreGlobal(s) \/ UpdatePinned(s) \/ ScanReader(s) \/ ScanEnd(s) \/ Pin(s)
  <2>1. UNCHANGED <<durable, answer, given, over, pinned_durable, current, txn>>
    BY <1>4 DEF SetGlobal, StoreGlobal, UpdatePinned, ScanReader, ScanEnd, Pin
  <2>2. /\ \A t \in Sessions : t # s => pc'[t] = pc[t] /\ my'[t] = my[t]
        /\ pc[s] \in {"idle", "set", "update_pinned", "scan", "pin"}
        /\ pc'[s] \in {"idle", "set", "update_pinned", "scan", "pin"}
    BY <1>4 DEF SetGlobal, StoreGlobal, UpdatePinned, ScanReader, ScanEnd, Pin
  <2> QED
    BY <2>1, <2>2, DurableFrame DEF Ended, Committed
<1> QED
  BY <1>1, <1>2, <1>3, <1>4 DEF Setting

LEMMA DurableStep == ASSUME Start # NONE PROVE TypeInv /\ DurableInv /\ [Next]_vars => DurableInv'
<1> SUFFICES ASSUME TypeInv, DurableInv, [Next]_vars PROVE DurableInv'
  OBVIOUS
<1>1. CASE UNCHANGED vars
  BY <1>1 DEF vars, global, shared, history, DurableInv, TxnWell, Published, PublishedGiven,
              QueryBelow, IdsDistinct, GivenKnown, DurableEnded, AllDurableEnded
<1>2. CASE Next
  BY <1>2, WritingDurable, ReadingDurable, SettingDurable DEF Next
<1> QED
  BY <1>1, <1>2

\* all_durable includes no timestamp of a transaction that could still fail, however
\* commits, rollbacks and publications of timestamps interleave with any number of queries.
THEOREM AllDurableOnlyEnded ==
    ASSUME Start # NONE PROVE Spec => []AllDurableEnded
<1>1. Init => DurableInv
  BY DurableInit
<1>2. DurableInv => AllDurableEnded
  BY DEF DurableInv
<1>3. TypeInv /\ DurableInv /\ [Next]_vars => DurableInv'
  BY DurableStep
<1> QED
  BY TypeInit, TypeStep, <1>1, <1>2, <1>3, PTL DEF Spec
=============================================================================
