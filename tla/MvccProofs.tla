----------------------------- MODULE MvccProofs -----------------------------
(* Every read returns the version its snapshot calls for, no update is lost, and what a *)
(* transaction may read is not freed: for any number of sessions, keys, transaction ids *)
(* and timestamps.                                                                      *)
EXTENDS Mvcc, FiniteSetTheorems, TLAPS

-----------------------------------------------------------------------------
(* The inductive invariant. *)

Ids == 1..MaxId
Prepares == {"init", "inprogress", "locked", "resolved"}
Kinds == {"standard", "modify", "reserve"}
Updates == [txn : Ids \cup {ABORTED}, key : Keys, kind : Kinds, start : Nat, durable : Nat,
            prepare : Prepares]
Txns == [state : {"none", "running", "committing", "prepared", "error"}, id : Nat,
         seen : SUBSET Ids, read : Nat, prepare : Nat, commit : Nat]
Locals == [op : {"none", "read", "write"}, key : Keys \cup {NONE}, at : Nat, old : Nat,
           state : Prepares, vis : BOOLEAN, first : Nat]

\* Types of what is shared, and of what a session has.
SharedType ==
    /\ upd \in Seq(Updates)
    /\ chain \in [Keys -> Seq(Nat)]
    /\ running \subseteq Ids /\ current \in 1..MaxId + 1 /\ pinned_ts \in Nat
SessionType ==
    /\ txn \in [Sessions -> Txns]
    /\ pc \in [Sessions -> Labels]
    /\ my \in [Sessions -> Locals]
Types == SharedType /\ SessionType

\* An update that is not aborted; one that is not prepared or no longer; one whose
\* transaction has also given up its id; one that is older than a session's snapshot.
Live(u) == upd[u].txn # ABORTED
Readable(u) == upd[u].prepare \in {"init", "resolved"}
Settled(u) == upd[u].txn \notin running /\ Readable(u)
Own(s, u) == upd[u].txn = txn[s].id /\ txn[s].id # NONE
Sees(s, u) == /\ upd[u].txn \in txn[s].seen
              /\ txn[s].read = NONE \/ upd[u].start = NONE \/ upd[u].start <= txn[s].read
Of(k) == {u \in DOMAIN upd : upd[u].key = k}

\* Where a session may be, for the state of its transaction.
Traversing == {"state", "visible", "recheck"}
Resolving == {"resolve", "stamp", "unlock"}
Busy == Traversing \cup {"base", "done", "modify", "serial", "scan"}
Place(s) ==
    /\ pc[s] \in {"idle", "release", "prepared", "resolve", "abort"} => my[s] = NoLocals
    /\ pc[s] = "idle" => txn[s].state # "committing"
    /\ pc[s] \in Busy \cup {"prepared"} => txn[s].state = "running"
    /\ pc[s] \in {"serial", "scan", "prepared"} => txn[s].id # NONE
    /\ pc[s] \in Resolving => txn[s].state = "prepared" /\ txn[s].commit >= txn[s].prepare
    /\ pc[s] = "release" => txn[s].state # "none"
    /\ pc[s] = "abort" => txn[s].state \in {"running", "prepared", "error"}
    /\ txn[s].state = "none" => txn[s] = NoTxn
    /\ txn[s].state = "committing" => pc[s] = "release"
    /\ pc[s] = "prepared" \/ txn[s].state = "prepared" => txn[s].prepare # NONE

\* An id is in the table from when it is given out until its transaction ends or is
\* prepared; no two sessions have the same one, and no snapshot shows one in the table.
IdInv(s) ==
    /\ txn[s].id < current
    /\ txn[s].id # NONE => (txn[s].state = "prepared" <=> txn[s].id \notin running)
    /\ txn[s].state = "prepared" => txn[s].id # NONE
    /\ \A t \in Sessions : t # s /\ txn[s].id # NONE => txn[t].id # txn[s].id
    /\ \A i \in txn[s].seen : i < current /\ i \notin running
    /\ txn[s].read # NONE => pinned_ts <= txn[s].read
TableInv == \A i \in running : i < current

\* The updates of a session's transaction, from the first write to the release.
OwnInv(s, u) ==
    /\ txn[s].state \in {"running", "error"} =>
          /\ pc[s] # "release"
          /\ IF pc[s] = "prepared"
             THEN upd[u].prepare = "inprogress"
             ELSE upd[u].prepare = "init" /\ upd[u].start = NONE /\ upd[u].durable = NONE
    /\ txn[s].state = "committing" => upd[u].prepare = "init" /\ upd[u].durable # NONE
    /\ txn[s].state = "prepared" =>
          /\ upd[u].prepare # "init"
          /\ upd[u].prepare = "locked" => pc[s] \in {"stamp", "unlock"} /\ my[s].at = u
          /\ pc[s] \in {"idle", "abort"} => upd[u].prepare = "inprogress"
          /\ pc[s] = "release" => upd[u].prepare = "resolved"
          /\ upd[u].prepare = "resolved" => upd[u].durable # NONE
          /\ upd[u].prepare = "locked" => (upd[u].durable # NONE <=> pc[s] = "unlock")
          /\ pc[s] \in Resolving /\ upd[u].durable = NONE =>
                \A v \in Of(upd[u].key) : upd[v].durable <= txn[s].commit
    /\ upd[u].prepare # "init" => upd[u].kind # "reserve"
    /\ upd[u].prepare = "inprogress" \/ (upd[u].prepare = "locked" /\ pc[s] = "stamp") =>
          upd[u].start = txn[s].prepare /\ upd[u].durable = NONE
    /\ upd[u].durable # NONE => upd[u].kind # "reserve"

\* Those of transactions that have ended are committed.
UpdateInv(u) ==
    /\ ~ Live(u) => upd[u].prepare = "init" /\ upd[u].start = NONE /\ upd[u].durable = NONE
    /\ upd[u].durable # NONE => upd[u].start = upd[u].durable
    /\ Live(u) =>
          /\ upd[u].txn < current
          /\ \A s \in Sessions : Own(s, u) => OwnInv(s, u)
          /\ (\A s \in Sessions : ~ Own(s, u)) =>
                Settled(u) /\ upd[u].durable # NONE /\ upd[u].kind # "reserve"

LockedInv(s) ==
    pc[s] \in {"stamp", "unlock"} =>
       my[s].at \in DOMAIN upd /\ Own(s, my[s].at) /\ upd[my[s].at].prepare = "locked"

\* First writer wins: of two updates of a key, the older one is settled unless one
\* transaction wrote both, it has the smaller timestamp, and who sees the newer one sees it.
OrderInv(u, v) ==
    /\ upd[u].txn = upd[v].txn \/ Settled(u)
    /\ upd[v].durable # NONE => upd[u].durable # NONE /\ upd[u].durable <= upd[v].durable
    /\ upd[v].prepare # "inprogress" => Readable(u)
    /\ \A s \in Sessions :
          /\ upd[v].txn \in txn[s].seen => upd[u].txn \in txn[s].seen
          /\ txn[s].state = "running" /\ Own(s, v) => Visible(s, u)

\* What was cut off a chain is aborted, and older than a full value that everyone sees.
Cutter(c) ==
    /\ Live(c) /\ upd[c].kind = "standard" /\ Settled(c) /\ upd[c].start <= pinned_ts
    /\ \A s \in Sessions : Active(s) => upd[c].txn \in txn[s].seen
ChainInv(k) ==
    /\ \A i \in DOMAIN chain[k] : chain[k][i] \in Of(k)
    /\ \A i, j \in DOMAIN chain[k] : i < j => chain[k][i] > chain[k][j]
    /\ \A u \in Of(k) \ Linked(k) : ~ Live(u) /\ \E c \in Linked(k) : c > u /\ Cutter(c)

\* The newest update of a key below n that a session may read is older than a.
Passed(s, k, a) ==
    \A u \in Of(k) : Live(u) /\ u > a /\ upd[u].kind # "reserve" => ~ Visible(s, u)
\* No full value of a key from a to b.
NoFull(k, a, b) ==
    \A u \in Of(k) : a <= u /\ u <= b /\ Live(u) => upd[u].kind # "standard"

\* A walk down a chain, and what has been found out about the update it is at.
Walk(s) ==
    LET k == my[s].key
        a == my[s].at
        o == my[s].old
    IN  /\ my[s].op \in {"read", "write"} /\ k \in Keys /\ a \in Linked(k)
        /\ Passed(s, k, a)
        /\ my[s].op = "read" => o = NONE
        /\ my[s].op = "write" =>
              o \in Of(k) /\ \A u \in Of(k) : Live(u) /\ u > a => u > o
Found(s) ==
    LET u == my[s].at
        e == my[s].state
    IN  /\ my[s].op = "read" => upd[u].kind # "reserve"
        /\ e # "locked"
        /\ Live(u) =>
              /\ e = "resolved" => upd[u].prepare = "resolved"
              /\ e = "inprogress" => upd[u].prepare # "init"
              /\ e = "init" /\ Visible(s, u) => upd[u].prepare = "init"
        /\ pc[s] = "recheck" =>
              /\ Live(u) /\ upd[u].prepare = e => (my[s].vis <=> Visible(s, u))
              /\ e = "init" /\ my[s].vis => Live(u) /\ Visible(s, u)

\* A read has found its version, and is looking for the value below it or has it.
Version(s, k, o) ==
    /\ o \in Of(k) /\ Live(o) /\ upd[o].kind # "reserve" /\ Visible(s, o) /\ Readable(o)
BaseInv(s) ==
    LET k == my[s].key
        a == my[s].at
        o == my[s].old
    IN  /\ my[s].op = "read" /\ k \in Keys /\ a \in Linked(k)
        /\ Version(s, k, o) /\ Passed(s, k, o) /\ a <= o /\ NoFull(k, a, o)
DoneInv(s) ==
    LET k == my[s].key
        a == my[s].at
        o == my[s].old
    IN  /\ k \in Keys /\ Passed(s, k, o)
        /\ IF o = NONE THEN a = NONE ELSE Version(s, k, o)
        /\ a # NONE => a \in Of(k) /\ Live(a) /\ upd[a].kind = "standard" /\ a <= o
        /\ NoFull(k, a + 1, o)

\* A write has met no conflict up to the head that it checked.
CheckedInv(s) ==
    LET k == my[s].key
        o == my[s].old
    IN  /\ my[s].op = "write" /\ k \in Keys /\ o \in Of(k) \cup {NONE} /\ my[s].at = NONE
        /\ \A u \in Of(k) : Live(u) /\ u <= o => Visible(s, u) /\ Readable(u)

\* A session looks for what it may cut off below an update of its own.
ScanInv(s) ==
    LET k == my[s].key
        a == my[s].at
        f == my[s].first
    IN  /\ k \in Keys /\ a \in Linked(k) \cup {NONE}
        /\ f # NONE => f \in Linked(k) /\ Cutter(f) /\ a < f
        /\ \E w \in Linked(k) : Live(w) /\ Own(s, w) /\ w > a /\ w > f

WalkInv(s) ==
    /\ pc[s] \in Traversing => Walk(s)
    /\ pc[s] \in {"visible", "recheck"} => Found(s)
    /\ pc[s] = "base" => BaseInv(s)
    /\ pc[s] = "done" => DoneInv(s)
    /\ pc[s] \in {"modify", "serial"} => CheckedInv(s)
    /\ pc[s] = "scan" => ScanInv(s)

TxnInv == TableInv /\ \A s \in Sessions : Place(s) /\ IdInv(s) /\ LockedInv(s)
UpdInv == \A u \in DOMAIN upd : UpdateInv(u)
Ordered == \A k \in Keys : \A u, v \in Of(k) : u < v /\ Live(u) /\ Live(v) => OrderInv(u, v)
Chains == \A k \in Keys : ChainInv(k)
Walks == \A s \in Sessions : WalkInv(s)

MvccInv == Types /\ TxnInv /\ UpdInv /\ Ordered /\ Chains /\ Walks

-----------------------------------------------------------------------------
(* Types, and chains. *)

LEMMA UpdTyped ==
    ASSUME SharedType, NEW u \in DOMAIN upd
    PROVE  /\ u \in Nat /\ u >= 1 /\ u <= Len(upd) /\ upd[u] \in Updates
           /\ upd[u].txn \in Int /\ upd[u].start \in Nat /\ upd[u].durable \in Nat
           /\ upd[u].key \in Keys /\ upd[u].kind \in Kinds /\ upd[u].prepare \in Prepares
<1>1. upd \in Seq(Updates)
  BY DEF SharedType
<1>2. Len(upd) \in Nat /\ DOMAIN upd = 1..Len(upd) /\ upd[u] \in Updates
  BY <1>1
<1>3. MaxId \in Nat
  BY MvccAssumption
<1>4. upd[u].txn \in Int
  BY <1>2, <1>3 DEF Updates, Ids, ABORTED
<1> QED
  BY <1>2, <1>4 DEF Updates

LEMMA OfDomain ==
    ASSUME SharedType, NEW k, NEW u \in Of(k)
    PROVE  u \in DOMAIN upd /\ upd[u].key = k /\ u \in Nat /\ u >= 1 /\ u <= Len(upd)
  BY UpdTyped DEF Of

LEMMA TxnTyped ==
    ASSUME SessionType, NEW s \in Sessions
    PROVE  /\ txn[s] \in Txns /\ my[s] \in Locals /\ pc[s] \in Labels
           /\ txn[s].id \in Nat /\ txn[s].read \in Nat /\ txn[s].prepare \in Nat
           /\ txn[s].commit \in Nat /\ txn[s].seen \in SUBSET Ids
           /\ my[s].at \in Nat /\ my[s].old \in Nat /\ my[s].first \in Nat
           /\ my[s].vis \in BOOLEAN /\ my[s].state \in Prepares
<1>1. txn[s] \in Txns /\ my[s] \in Locals /\ pc[s] \in Labels
  BY DEF SessionType
<1> QED
  BY <1>1 DEF Txns, Locals

\* A chain as a sequence, from the newest to the oldest.
LEMMA ChainTyped ==
    ASSUME SharedType, NEW k \in Keys
    PROVE  /\ chain[k] \in Seq(Nat) /\ Len(chain[k]) \in Nat
           /\ DOMAIN chain[k] = 1..Len(chain[k])
           /\ \A i \in DOMAIN chain[k] : chain[k][i] \in Nat
<1>1. chain[k] \in Seq(Nat)
  BY DEF SharedType
<1> QED
  BY <1>1

LEMMA LinkedIs ==
    ASSUME NEW k, NEW u
    PROVE  u \in Linked(k) <=> \E i \in DOMAIN chain[k] : chain[k][i] = u
  BY DEF Linked

LEMMA LinkedOf ==
    ASSUME NEW k \in Keys, ChainInv(k), NEW u \in Linked(k)
    PROVE  u \in Of(k)
  BY LinkedIs DEF ChainInv

LEMMA LiveLinked ==
    ASSUME NEW k \in Keys, ChainInv(k), NEW u \in Of(k), Live(u)
    PROVE  u \in Linked(k)
  BY DEF ChainInv

\* A key that has updates has a chain.
LEMMA ChainNotEmpty ==
    ASSUME NEW k \in Keys, ChainInv(k), NEW u \in Of(k)
    PROVE  chain[k] # <<>>
<1>1. \E c : c \in Linked(k)
  BY DEF ChainInv
<1>2. PICK c : c \in Linked(k)
  BY <1>1
<1>3. PICK i \in DOMAIN chain[k] : chain[k][i] = c
  BY <1>2, LinkedIs
<1> QED
  BY <1>3

\* The head of a chain is the newest update.
LEMMA HeadTop ==
    ASSUME SharedType, NEW k \in Keys, ChainInv(k), chain[k] # <<>>
    PROVE  Head1(k) \in Linked(k) /\ \A u \in Linked(k) : u <= Head1(k)
<1>1. /\ chain[k] \in Seq(Nat) /\ Len(chain[k]) \in Nat
      /\ DOMAIN chain[k] = 1..Len(chain[k])
      /\ \A i \in DOMAIN chain[k] : chain[k][i] \in Nat
  BY ChainTyped
<1>2. 1 \in DOMAIN chain[k] /\ Head1(k) = chain[k][1]
  BY <1>1 DEF Head1
<1>3. Head1(k) \in Linked(k)
  BY <1>2, LinkedIs
<1>4. ASSUME NEW u \in Linked(k) PROVE u <= Head1(k)
  <2>1. PICK i \in DOMAIN chain[k] : chain[k][i] = u
    BY LinkedIs
  <2>2. i = 1 \/ chain[k][1] > chain[k][i]
    BY <1>1, <1>2, <2>1 DEF ChainInv
  <2> QED
    BY <1>1, <1>2, <2>1, <2>2
<1> QED
  BY <1>3, <1>4

LEMMA HeadNone ==
    ASSUME NEW k \in Keys, chain[k] = <<>>
    PROVE  Head1(k) = NONE /\ Linked(k) = {}
<1>1. Head1(k) = NONE
  BY DEF Head1
<1>2. ASSUME NEW u \in Linked(k) PROVE FALSE
  BY LinkedIs
<1> QED
  BY <1>1, <1>2

LEMMA HeadNat ==
    ASSUME SharedType, NEW k \in Keys, ChainInv(k)
    PROVE  Head1(k) \in Nat /\ Head1(k) \in Linked(k) \cup {NONE}
<1>1. CASE chain[k] = <<>>
  BY <1>1, HeadNone DEF NONE
<1>2. CASE chain[k] # <<>>
  <2>1. Head1(k) \in Linked(k)
    BY <1>2, HeadTop
  <2>2. Head1(k) \in Of(k)
    BY <2>1, LinkedOf
  <2>3. Head1(k) \in Nat
    BY <2>2, OfDomain
  <2> QED
    BY <2>1, <2>3
<1> QED
  BY <1>1, <1>2

\* No live update of a key is above the head of its chain.
LEMMA HeadLive ==
    ASSUME SharedType, NEW k \in Keys, ChainInv(k), NEW u \in Of(k), Live(u)
    PROVE  u <= Head1(k) /\ chain[k] # <<>>
  BY LiveLinked, ChainNotEmpty, HeadTop

LEMMA PositionIs ==
    ASSUME NEW k \in Keys, NEW u \in Linked(k)
    PROVE  Position(k, u) \in DOMAIN chain[k] /\ chain[k][Position(k, u)] = u
<1>1. \E i \in DOMAIN chain[k] : chain[k][i] = u
  BY LinkedIs
<1> QED
  BY <1>1, Zenon DEF Position

\* What follows an update in its chain is the next older one.
LEMMA AfterNext ==
    ASSUME SharedType, NEW k \in Keys, ChainInv(k), NEW u \in Linked(k)
    PROVE  /\ After(k, u) \in Linked(k) \cup {NONE} /\ After(k, u) \in Nat /\ After(k, u) < u
           /\ \A v \in Linked(k) : v < u => v <= After(k, u)
<1>1. /\ Len(chain[k]) \in Nat /\ DOMAIN chain[k] = 1..Len(chain[k])
      /\ \A i \in DOMAIN chain[k] : chain[k][i] \in Nat
  BY ChainTyped
<1>2. PICK p : p = Position(k, u)
  OBVIOUS
<1>3. p \in DOMAIN chain[k] /\ chain[k][p] = u
  BY <1>2, PositionIs
<1>4. p \in 1..Len(chain[k]) /\ u \in Nat
  BY <1>1, <1>3
<1>5. u >= 1
  BY LinkedOf, OfDomain
<1>6. \A i, j \in DOMAIN chain[k] : i < j => chain[k][i] > chain[k][j]
  BY DEF ChainInv
<1>7. CASE p = Len(chain[k])
  <2>1. After(k, u) = NONE
    BY <1>2, <1>7 DEF After
  <2>2. ASSUME NEW v \in Linked(k), v < u PROVE FALSE
    <3>1. PICK i \in DOMAIN chain[k] : chain[k][i] = v
      BY LinkedIs
    <3>2. i = p \/ i < p
      BY <1>1, <1>4, <1>7, <3>1
    <3> QED
      BY <1>1, <1>3, <1>6, <2>2, <3>1, <3>2
  <2> QED
    BY <1>4, <1>5, <2>1, <2>2 DEF NONE
<1>8. CASE p # Len(chain[k])
  <2>1. After(k, u) = chain[k][p + 1] /\ p + 1 \in DOMAIN chain[k] /\ p < p + 1
    BY <1>1, <1>2, <1>4, <1>8 DEF After
  <2>2. After(k, u) \in Linked(k)
    BY <2>1, LinkedIs
  <2>3. After(k, u) < u /\ After(k, u) \in Nat
    BY <1>1, <1>3, <1>6, <2>1
  <2>4. ASSUME NEW v \in Linked(k), v < u PROVE v <= After(k, u)
    <3>1. PICK i \in DOMAIN chain[k] : chain[k][i] = v
      BY LinkedIs
    <3>2. CASE i <= p
      <4>1. chain[k][i] >= u
        BY <1>1, <1>3, <1>4, <1>6, <3>1, <3>2
      <4> QED
        BY <1>1, <1>4, <2>4, <3>1, <4>1
    <3>3. CASE i = p + 1
      BY <1>1, <2>1, <3>1, <3>3
    <3>4. CASE i > p + 1
      <4>1. chain[k][p + 1] > chain[k][i]
        BY <1>1, <1>4, <1>6, <2>1, <3>1, <3>4
      <4> QED
        BY <1>1, <2>1, <3>1, <4>1
    <3> QED
      BY <1>1, <1>4, <3>1, <3>2, <3>3, <3>4
  <2> QED
    BY <2>2, <2>3, <2>4
<1> QED
  BY <1>7, <1>8

\* A walk passes every live update of a key.
LEMMA AfterLive ==
    ASSUME SharedType, NEW k \in Keys, ChainInv(k), NEW u \in Linked(k),
           NEW v \in Of(k), Live(v), v > After(k, u)
    PROVE  v >= u
<1>1. v \in Linked(k) /\ v \in Nat
  BY LiveLinked, OfDomain
<1>2. u \in Nat
  BY LinkedOf, OfDomain
<1>3. After(k, u) \in Nat /\ (v < u => v <= After(k, u))
  BY <1>1, AfterNext
<1> QED
  BY <1>1, <1>2, <1>3

-----------------------------------------------------------------------------
(* What a session sees. *)

LEMMA TxnParts ==
    ASSUME TxnInv, NEW s \in Sessions
    PROVE  Place(s) /\ IdInv(s) /\ LockedInv(s)
  BY DEF TxnInv

LEMMA VisibleIs ==
    ASSUME NEW s, NEW u
    PROVE  Visible(s, u) <=> Own(s, u) \/ Sees(s, u)
  BY DEF Visible, Own, Sees

\* What a snapshot shows is not in the table.
LEMMA SeenEnded ==
    ASSUME TxnInv, NEW s \in Sessions, NEW u, upd[u].txn \in txn[s].seen
    PROVE  upd[u].txn \notin running
<1>1. IdInv(s)
  BY TxnParts
<1> QED
  BY <1>1 DEF IdInv

LEMMA VisibleSettled ==
    ASSUME TxnInv, NEW s \in Sessions, NEW u, Readable(u), Visible(s, u)
    PROVE  Own(s, u) \/ (Settled(u) /\ Sees(s, u))
<1>1. CASE Own(s, u)
  BY <1>1
<1>2. CASE Sees(s, u)
  BY <1>2, SeenEnded DEF Sees, Settled
<1> QED
  BY <1>1, <1>2, VisibleIs

\* The owner of an update is one session.
LEMMA OneOwner ==
    ASSUME TxnInv, NEW s \in Sessions, NEW r \in Sessions, NEW u, Own(s, u), Own(r, u)
    PROVE  s = r
<1>1. IdInv(s)
  BY TxnParts
<1> QED
  BY <1>1 DEF IdInv, Own

\* The id of a transaction that is neither prepared nor over is in the table.
LEMMA OwnRunning ==
    ASSUME TxnInv, NEW s \in Sessions, NEW u, Own(s, u), txn[s].state # "prepared"
    PROVE  upd[u].txn \in running /\ ~ Settled(u)
<1>1. IdInv(s)
  BY TxnParts
<1> QED
  BY <1>1 DEF IdInv, Own, Settled

LEMMA OwnState ==
    ASSUME TxnInv, SessionType, NEW s \in Sessions, NEW u, Own(s, u)
    PROVE  txn[s].state \in {"running", "error", "committing", "prepared"}
<1>1. Place(s) /\ txn[s].id # NONE
  BY TxnParts DEF Own
<1>2. txn[s].state # "none"
  BY <1>1 DEF Place, NoTxn
<1> QED
  BY <1>2, TxnTyped DEF Txns

\* A settled update has its timestamp.
LEMMA SettledLive ==
    ASSUME Types, TxnInv, UpdInv, NEW u \in DOMAIN upd, Live(u), Settled(u)
    PROVE  upd[u].durable # NONE /\ upd[u].start = upd[u].durable /\ upd[u].kind # "reserve"
<1>1. UpdateInv(u)
  BY DEF UpdInv
<1>2. upd[u].durable # NONE
  <2>1. CASE \A s \in Sessions : ~ Own(s, u)
    BY <1>1, <2>1 DEF UpdateInv
  <2>2. ASSUME NEW s \in Sessions, Own(s, u) PROVE upd[u].durable # NONE
    <3>1. OwnInv(s, u)
      BY <1>1, <2>2 DEF UpdateInv
    <3>2. txn[s].state = "prepared"
      BY <2>2, OwnRunning
    <3> QED
      BY <3>1, <3>2 DEF OwnInv, Settled, Readable
  <2> QED
    BY <2>1, <2>2
<1>3. upd[u].kind # "reserve"
  <2>1. CASE \A s \in Sessions : ~ Own(s, u)
    BY <1>1, <2>1 DEF UpdateInv
  <2>2. ASSUME NEW s \in Sessions, Own(s, u) PROVE upd[u].kind # "reserve"
    <3>1. OwnInv(s, u)
      BY <1>1, <2>2 DEF UpdateInv
    <3> QED
      BY <3>1, <1>2 DEF OwnInv
  <2> QED
    BY <2>1, <2>2
<1> QED
  BY <1>1, <1>2, <1>3 DEF UpdateInv

LEMMA OrderPair ==
    ASSUME Ordered, NEW k \in Keys, NEW u \in Of(k), NEW v \in Of(k), u < v, Live(u), Live(v)
    PROVE  OrderInv(u, v)
  BY DEF Ordered

\* Who may read an update may read every older one of its key.
LEMMA VisibleOlder ==
    ASSUME Types, TxnInv, UpdInv, Ordered, NEW s \in Sessions, Active(s), NEW k \in Keys,
           NEW u \in Of(k), NEW v \in Of(k), u <= v, Live(u), Live(v),
           Visible(s, v), Readable(v)
    PROVE  Visible(s, u) /\ Readable(u)
<1>0. /\ u \in DOMAIN upd /\ v \in DOMAIN upd /\ u \in Nat /\ v \in Nat
      /\ upd[u].start \in Nat /\ upd[v].start \in Nat /\ txn[s].read \in Nat
      /\ upd[u].durable \in Nat /\ upd[v].durable \in Nat
  BY OfDomain, UpdTyped, TxnTyped DEF Types
<1>1. CASE u = v
  BY <1>1
<1>2. CASE u < v
  <2>1. OrderInv(u, v)
    BY <1>2, OrderPair
  <2>2. Readable(u)
    BY <2>1 DEF OrderInv, Readable
  <2>3. CASE Own(s, v)
    BY <2>1, <2>2, <2>3 DEF OrderInv, Active
  <2>4. CASE Settled(v) /\ Sees(s, v)
    <3>1. /\ upd[v].durable # NONE /\ upd[v].start = upd[v].durable
      BY <1>0, <2>4, SettledLive
    <3>2. upd[u].durable # NONE /\ upd[u].durable <= upd[v].durable
      BY <2>1, <3>1 DEF OrderInv
    <3>3. upd[u].txn \in txn[s].seen
      BY <2>1, <2>4 DEF OrderInv, Sees
    <3>4. Settled(u)
      BY <2>2, <3>3, SeenEnded DEF Settled
    <3>5. upd[u].start = upd[u].durable
      BY <1>0, <3>4, SettledLive
    <3>6. txn[s].read = NONE \/ upd[v].start <= txn[s].read
      BY <2>4, <3>1 DEF Sees
    <3>7. Sees(s, u)
      BY <1>0, <3>1, <3>2, <3>3, <3>5, <3>6 DEF Sees
    <3> QED
      BY <2>2, <3>7, VisibleIs
  <2> QED
    BY <2>3, <2>4, VisibleSettled
<1> QED
  BY <1>0, <1>1, <1>2

\* An update that ends a chain is seen by every transaction.
LEMMA CutterVisible ==
    ASSUME Types, TxnInv, UpdInv, NEW s \in Sessions, Active(s), NEW c \in DOMAIN upd, Cutter(c)
    PROVE  Visible(s, c) /\ Readable(c) /\ Live(c) /\ upd[c].kind = "standard"
           /\ ~ Own(s, c)
<1>0. /\ upd[c].start \in Nat /\ txn[s].read \in Nat /\ pinned_ts \in Nat
  BY UpdTyped, TxnTyped DEF Types, SharedType
<1>1. upd[c].txn \in txn[s].seen /\ upd[c].start <= pinned_ts
  BY DEF Cutter
<1>2. IdInv(s)
  BY TxnParts
<1>3. txn[s].read # NONE => pinned_ts <= txn[s].read
  BY <1>2 DEF IdInv
<1>4. Sees(s, c)
  BY <1>0, <1>1, <1>3 DEF Sees
<1>5. txn[s].state # "prepared"
  BY DEF Active
<1>6. ~ Own(s, c)
  BY <1>5, OwnRunning DEF Cutter
<1> QED
  BY <1>4, <1>6, VisibleIs DEF Cutter, Settled

-----------------------------------------------------------------------------
(* The oldest id. *)

\* A set of naturals that has a member has a least one.
LEMMA LeastNat ==
    ASSUME NEW S \in SUBSET Nat, S # {}
    PROVE  \E x \in S : \A y \in S : x =< y
<1>1. PICK x \in S : \A y \in S : ~ (<<y, x>> \in OpToRel(<, Nat))
  BY NatLessThanWellFounded, WFMin
<1>2. ASSUME NEW y \in S PROVE x =< y
  <2>1. x \in Nat /\ y \in Nat
    OBVIOUS
  <2>2. ASSUME y < x PROVE <<y, x>> \in OpToRel(<, Nat)
    <3>1. <<y, x>> \in Nat \X Nat /\ <<y, x>>[1] < <<y, x>>[2]
      BY <2>1, <2>2
    <3> QED
      BY <3>1, Zenon DEF OpToRel
  <2>3. ~ (y < x)
    BY <1>1, <2>2, Zenon
  <2> QED
    BY <2>1, <2>3
<1> QED
  BY <1>2

LEMMA MinNat ==
    ASSUME NEW S \in SUBSET Nat, S # {}
    PROVE  Min(S) \in S /\ \A y \in S : Min(S) =< y
<1>1. \E x \in S : \A y \in S : x =< y
  BY LeastNat
<1> QED
  BY <1>1, Zenon DEF Min

LEMMA SnapMinIs ==
    ASSUME Types, TxnInv, NEW s \in Sessions
    PROVE  SnapMin(s) \in Nat /\ \A i \in 1..current : i < SnapMin(s) => i \in txn[s].seen
<1> DEFINE S == (1..current) \ txn[s].seen
<1>1. current \in Nat /\ current >= 1
  BY MvccAssumption DEF Types, SharedType
<1>2. current \notin txn[s].seen
  <2>1. IdInv(s)
    BY TxnParts
  <2> QED
    BY <1>1, <2>1 DEF IdInv
<1>3. S \in SUBSET Nat /\ S # {}
  BY <1>1, <1>2
<1>4. Min(S) \in S /\ \A i \in S : Min(S) <= i
  BY <1>3, MinNat
<1>5. SnapMin(s) = Min(S)
  BY DEF SnapMin
<1>6. Min(S) \in Nat
  BY <1>3, <1>4
<1> HIDE DEF S
<1>7. ASSUME NEW i \in 1..current, i < SnapMin(s) PROVE i \in txn[s].seen
  <2>1. i \notin S
    BY <1>1, <1>4, <1>5, <1>6, <1>7
  <2> QED
    BY <2>1 DEF S
<1> QED
  BY <1>5, <1>6, <1>7

LEMMA OldestIs ==
    ASSUME Types, TxnInv
    PROVE  /\ OldestId \in Nat /\ OldestId <= current
           /\ \A i \in running : OldestId <= i
           /\ \A s \in Sessions : Active(s) => OldestId <= SnapMin(s)
<1> DEFINE A == {SnapMin(s) : s \in {t \in Sessions : Active(t)}}
           S == ({current} \cup running) \cup A
<1>1. current \in Nat /\ running \subseteq Nat
  BY MvccAssumption DEF Types, SharedType, Ids
<1>2. A \subseteq Nat
  BY SnapMinIs
<1>3. OldestId = Min(S)
  BY DEF OldestId
<1>4. \A s \in Sessions : Active(s) => SnapMin(s) \in A
  OBVIOUS
<1> HIDE DEF A
<1>5. S \in SUBSET Nat /\ current \in S /\ running \subseteq S /\ A \subseteq S
  BY <1>1, <1>2
<1>6. S # {}
  BY <1>5
<1> HIDE DEF S
<1>7. Min(S) \in S /\ \A i \in S : Min(S) <= i
  BY <1>5, <1>6, MinNat
<1>8. Min(S) \in Nat
  BY <1>5, <1>7
<1> QED
  BY <1>3, <1>4, <1>5, <1>7, <1>8

\* A full value that is visible to all may end a chain.
LEMMA VisibleAllCutter ==
    ASSUME Types, TxnInv, UpdInv, NEW u \in DOMAIN upd, Live(u), VisibleAll(u),
           upd[u].kind = "standard"
    PROVE  Cutter(u)
<1>1. /\ upd[u] \in Updates /\ upd[u].txn \in Int /\ upd[u].prepare \in Prepares
      /\ upd[u].start \in Nat /\ upd[u].durable \in Nat
  BY UpdTyped DEF Types
<1>2. upd[u].txn \in Ids /\ upd[u].txn \in Nat /\ upd[u].txn >= 1
  <2>1. upd[u].txn \in Ids
    BY <1>1 DEF Updates, Live
  <2> QED
    BY <2>1, MvccAssumption DEF Ids
<1>3. /\ OldestId \in Nat /\ OldestId <= current /\ current \in Nat
      /\ \A i \in running : OldestId <= i
      /\ running \subseteq Nat
  BY OldestIs, MvccAssumption DEF Types, SharedType, Ids
<1>4. upd[u].txn < OldestId /\ Readable(u)
  BY <1>1 DEF VisibleAll, Readable, Prepares
<1>5. upd[u].txn \notin running
  BY <1>1, <1>3, <1>4
<1>6. ASSUME NEW s \in Sessions, Active(s) PROVE upd[u].txn \in txn[s].seen
  <2>1. SnapMin(s) \in Nat /\ OldestId <= SnapMin(s)
    BY <1>6, OldestIs, SnapMinIs
  <2>2. upd[u].txn \in 1..current /\ upd[u].txn < SnapMin(s)
    BY <1>2, <1>3, <1>4, <2>1
  <2> QED
    BY <2>2, SnapMinIs
<1>7. Settled(u)
  BY <1>4, <1>5 DEF Settled
<1>8. upd[u].durable # NONE /\ upd[u].start = upd[u].durable
  BY <1>7, SettledLive
<1>9. upd[u].start <= pinned_ts
  BY <1>8 DEF VisibleAll
<1> QED
  BY <1>6, <1>7, <1>9 DEF Cutter

-----------------------------------------------------------------------------
(* What a step of one session leaves of what another has found out. *)

\* A chain is cut below an update, unless that is none.
Cut(k, f, u) == f # NONE /\ u \in Of(k) /\ u < f

\* What a transaction does to an update of its own.
Progress(u) ==
    /\ upd'[u].key = upd[u].key
    /\ \/ upd'[u] = Aborted(upd[u])
       \/ /\ upd'[u].txn = upd[u].txn /\ upd'[u].kind = upd[u].kind
          /\ upd'[u].start \in Nat /\ upd'[u].start >= upd[u].start
          /\ upd[u].prepare # "resolved"
          /\ upd'[u].prepare = "init" => upd[u].prepare = "init"
          /\ upd'[u].prepare = "inprogress" => upd[u].prepare = "init"
          /\ upd'[u].prepare = "resolved" => upd[u].prepare = "locked"

Kept(r) == pc'[r] = pc[r] /\ my'[r] = my[r] /\ txn'[r] = txn[r]

\* Seen by session r: others add and change what it does not see or cannot read yet, and
\* cut chains where it sees all.
OldKept(r, k, f) ==
    /\ DOMAIN upd \subseteq DOMAIN upd'
    /\ \A u \in DOMAIN upd :
          \/ upd'[u] = upd[u]
          \/ Cut(k, f, u) /\ upd'[u] = Aborted(upd[u])
          \/ Progress(u) /\ ~ Own(r, u) /\ ~ (Readable(u) /\ Visible(r, u))
NewHidden(r) ==
    \A u \in DOMAIN upd' \ DOMAIN upd :
       u \in Nat /\ u > 0 /\ ~ Visible(r, u)' /\ \A v \in DOMAIN upd : u > v
LinkedKept(k, f) ==
    /\ \A j \in Keys : \A u \in Linked(j) : u \in Linked(j)' \/ (j = k /\ f # NONE /\ u < f)
    /\ f # NONE => f \in Of(k) /\ Cutter(f)
OtherStep(r, k, f) == Kept(r) /\ OldKept(r, k, f) /\ NewHidden(r) /\ LinkedKept(k, f)

LEMMA AbortedIs ==
    ASSUME SharedType, NEW u \in DOMAIN upd
    PROVE  /\ Aborted(upd[u]) \in Updates
           /\ Aborted(upd[u]).txn = ABORTED /\ Aborted(upd[u]).key = upd[u].key
           /\ Aborted(upd[u]).kind = "standard" /\ Aborted(upd[u]).prepare = "init"
           /\ Aborted(upd[u]).start = NONE /\ Aborted(upd[u]).durable = NONE
<1>1. upd[u] \in Updates
  BY UpdTyped
<1>3. PICK w : w = upd[u]
  OBVIOUS
<1>4. /\ w \in [txn : Ids \cup {ABORTED}, key : Keys, kind : Kinds, start : Nat, durable : Nat,
                prepare : Prepares]
      /\ w.key \in Keys
  BY <1>1, <1>3 DEF Updates
<1>5. PICK l : l = [w EXCEPT !.txn = ABORTED, !.kind = "standard", !.start = NONE,
                             !.durable = NONE, !.prepare = "init"]
  BY Zenon
<1>6. /\ l.txn = ABORTED /\ l.key = w.key /\ l.kind = "standard" /\ l.start = NONE
      /\ l.durable = NONE /\ l.prepare = "init"
  BY <1>4, <1>5
<1>7. l \in Updates
  BY <1>4, <1>5 DEF Updates, Kinds, Prepares, NONE
<1>8. Aborted(upd[u]) = l
  BY <1>3, <1>5, Zenon DEF Aborted
<1> QED
  BY <1>3, <1>6, <1>7, <1>8

LEMMA AbortedHidden ==
    ASSUME SessionType, NEW r \in Sessions, NEW u, upd'[u].txn = ABORTED, txn'[r] = txn[r]
    PROVE  ~ Visible(r, u)'
<1>1. txn[r].seen \in SUBSET Ids /\ txn[r].id \in Nat
  BY TxnTyped
<1>2. ABORTED \notin Ids /\ ABORTED \notin Nat
  BY MvccAssumption DEF ABORTED, Ids
<1> QED
  BY <1>1, <1>2 DEF Visible

LEMMA OldUpdate ==
    ASSUME Types, TxnInv, NEW r \in Sessions, txn'[r] = txn[r], NEW k, NEW f,
           OldKept(r, k, f), NEW u \in DOMAIN upd
    PROVE  /\ u \in DOMAIN upd' /\ upd'[u].key = upd[u].key
           /\ Live(u)' => Live(u) /\ upd'[u].txn = upd[u].txn /\ upd'[u].kind = upd[u].kind
           /\ Visible(r, u)' => Visible(r, u)
           /\ Visible(r, u) /\ Readable(u) =>
                 upd'[u] = upd[u] \/ (Cut(k, f, u) /\ upd'[u] = Aborted(upd[u]))
<1>1. u \in DOMAIN upd'
  BY DEF OldKept
<1>2. \/ upd'[u] = upd[u]
      \/ Cut(k, f, u) /\ upd'[u] = Aborted(upd[u])
      \/ Progress(u) /\ ~ Own(r, u) /\ ~ (Readable(u) /\ Visible(r, u))
  BY DEF OldKept
<1>3. /\ Aborted(upd[u]).txn = ABORTED /\ Aborted(upd[u]).key = upd[u].key
  BY AbortedIs DEF Types
<1>4. CASE upd'[u] = upd[u]
  BY <1>1, <1>4 DEF Live, Visible
<1>5. CASE upd'[u] = Aborted(upd[u])
  <2>1. ~ Live(u)' /\ ~ Visible(r, u)'
    BY <1>3, <1>5, AbortedHidden DEF Live, Types
  <2>2. Visible(r, u) /\ Readable(u) => upd'[u] = upd[u] \/ Cut(k, f, u)
    BY <1>2
  <2> QED
    BY <1>1, <1>3, <1>5, <2>1, <2>2
<1>6. CASE /\ Progress(u) /\ ~ Own(r, u) /\ ~ (Readable(u) /\ Visible(r, u))
           /\ upd'[u] # Aborted(upd[u])
  <2>1. /\ upd'[u].txn = upd[u].txn /\ upd'[u].kind = upd[u].kind
        /\ upd'[u].start \in Nat /\ upd'[u].start >= upd[u].start
        /\ upd'[u].key = upd[u].key
    BY <1>6 DEF Progress
  <2>2. upd[u].start \in Nat /\ txn[r].read \in Nat
    BY UpdTyped, TxnTyped DEF Types
  <2>3. ASSUME Visible(r, u)' PROVE Visible(r, u)
    <3>1. \/ upd[u].txn = txn[r].id /\ txn[r].id # NONE
          \/ /\ upd[u].txn \in txn[r].seen
             /\ txn[r].read = NONE \/ upd'[u].start = NONE \/ upd'[u].start <= txn[r].read
      BY <2>1, <2>3 DEF Visible
    <3>2. upd'[u].start = NONE => upd[u].start = NONE
      BY <2>1, <2>2 DEF NONE
    <3>3. upd'[u].start <= txn[r].read => upd[u].start = NONE \/ upd[u].start <= txn[r].read
      BY <2>1, <2>2
    <3> QED
      BY <3>1, <3>2, <3>3 DEF Visible
  <2> QED
    BY <1>1, <1>6, <2>1, <2>3 DEF Live
<1> QED
  BY <1>2, <1>4, <1>5, <1>6

\* An update of a key after such a step is an old one, or a new one nobody else sees.
LEMMA OldOrNew ==
    ASSUME Types, TxnInv, NEW r \in Sessions, txn'[r] = txn[r], NEW k, NEW f,
           OldKept(r, k, f), NewHidden(r), NEW j, NEW u \in Of(j)'
    PROVE  \/ u \in Of(j) /\ u \in DOMAIN upd
           \/ /\ u \notin DOMAIN upd /\ ~ Visible(r, u)' /\ u \in Nat /\ u > 0
              /\ \A v \in DOMAIN upd : u > v
<1>1. u \in DOMAIN upd' /\ upd'[u].key = j
  BY DEF Of
<1>2. CASE u \in DOMAIN upd
  <2>1. upd'[u].key = upd[u].key
    BY <1>2, OldUpdate
  <2> QED
    BY <1>1, <1>2, <2>1 DEF Of
<1>3. CASE u \notin DOMAIN upd
  BY <1>1, <1>3 DEF NewHidden
<1> QED
  BY <1>2, <1>3

LEMMA OldOf ==
    ASSUME Types, TxnInv, NEW r \in Sessions, txn'[r] = txn[r], NEW k, NEW f,
           OldKept(r, k, f), NEW j, NEW u \in Of(j)
    PROVE  u \in Of(j)'
<1>1. u \in DOMAIN upd /\ upd[u].key = j
  BY DEF Of
<1>2. u \in DOMAIN upd' /\ upd'[u].key = upd[u].key
  BY <1>1, OldUpdate
<1> QED
  BY <1>1, <1>2 DEF Of

LEMMA PassedKept ==
    ASSUME Types, TxnInv, NEW r \in Sessions, txn'[r] = txn[r], NEW k, NEW f,
           OldKept(r, k, f), NewHidden(r), NEW j, NEW a, Passed(r, j, a)
    PROVE  Passed(r, j, a)'
<1>1. ASSUME NEW u \in Of(j)', Live(u)', u > a, upd'[u].kind # "reserve", Visible(r, u)'
      PROVE  FALSE
  <2>1. u \in Of(j) /\ u \in DOMAIN upd
    BY <1>1, OldOrNew
  <2>2. Live(u) /\ upd'[u].kind = upd[u].kind /\ Visible(r, u)
    BY <1>1, <2>1, OldUpdate
  <2> QED
    BY <1>1, <2>1, <2>2 DEF Passed
<1> QED
  BY <1>1 DEF Passed

LEMMA NoFullKept ==
    ASSUME Types, TxnInv, NEW r \in Sessions, txn'[r] = txn[r], NEW k, NEW f,
           OldKept(r, k, f), NewHidden(r), NEW j, NEW a, NEW b,
           b \in DOMAIN upd \cup {NONE}, NoFull(j, a, b)
    PROVE  NoFull(j, a, b)'
<1>1. ASSUME NEW u \in Of(j)', Live(u)', a <= u, u <= b, upd'[u].kind = "standard"
      PROVE  FALSE
  <2>1. CASE u \in Of(j) /\ u \in DOMAIN upd
    <3>1. Live(u) /\ upd'[u].kind = upd[u].kind
      BY <1>1, <2>1, OldUpdate
    <3> QED
      BY <1>1, <2>1, <3>1 DEF NoFull
  <2>2. CASE u \in Nat /\ u > 0 /\ \A v \in DOMAIN upd : u > v
    <3>1. b \in Nat
      BY UpdTyped DEF Types, NONE
    <3>2. b < u
      BY <2>2, <3>1 DEF NONE
    <3> QED
      BY <1>1, <2>2, <3>1, <3>2
  <2> QED
    BY <2>1, <2>2, OldOrNew
<1> QED
  BY <1>1 DEF NoFull


\* Nobody is below where a chain is cut.
LEMMA WalkersAbove ==
    ASSUME Types, TxnInv, UpdInv, NEW r \in Sessions, NEW k, NEW f, f # NONE,
           f \in Of(k), Cutter(f), my[r].key = k, WalkInv(r)
    PROVE  /\ pc[r] \in Traversing => my[r].at >= f
           /\ pc[r] = "base" => my[r].at >= f /\ my[r].old >= f
           /\ pc[r] = "done" => my[r].at >= f /\ my[r].old >= f
<1>1. f \in DOMAIN upd /\ f \in Nat /\ upd[f].key = k /\ f >= 1
  BY OfDomain DEF Types
<1>2. my[r].at \in Nat /\ my[r].old \in Nat
  BY TxnTyped DEF Types
<1>3. pc[r] \in Busy => Active(r)
  BY TxnParts DEF Place, Active
<1>4. ASSUME pc[r] \in Busy
      PROVE  Visible(r, f) /\ Live(f) /\ upd[f].kind = "standard"
  BY <1>1, <1>3, <1>4, CutterVisible
<1>5. ASSUME pc[r] \in Busy, NEW a \in Nat, Passed(r, k, a) PROVE a >= f
  BY <1>1, <1>4, <1>5 DEF Passed
<1>6. ASSUME pc[r] \in Busy, NEW a \in Nat, NEW b \in Nat, NoFull(k, a, b), b >= f PROVE a > f
  BY <1>1, <1>4, <1>6 DEF NoFull
<1>7. ASSUME pc[r] \in Traversing PROVE my[r].at >= f
  <2>1. pc[r] \in Busy /\ Passed(r, k, my[r].at)
    BY <1>7 DEF Busy, WalkInv, Walk
  <2> QED
    BY <1>2, <1>5, <2>1
<1>8. ASSUME pc[r] = "base" PROVE my[r].at >= f /\ my[r].old >= f
  <2>1. pc[r] \in Busy /\ Passed(r, k, my[r].old) /\ NoFull(k, my[r].at, my[r].old)
    BY <1>8 DEF Busy, WalkInv, BaseInv
  <2>2. my[r].old >= f
    BY <1>2, <1>5, <2>1
  <2>3. my[r].at > f
    BY <1>2, <1>6, <2>1, <2>2
  <2> QED
    BY <1>1, <1>2, <2>2, <2>3
<1>9. ASSUME pc[r] = "done" PROVE my[r].at >= f /\ my[r].old >= f
  <2>1. pc[r] \in Busy /\ Passed(r, k, my[r].old) /\ NoFull(k, my[r].at + 1, my[r].old)
    BY <1>9 DEF Busy, WalkInv, DoneInv
  <2>2. my[r].old >= f
    BY <1>2, <1>5, <2>1
  <2>3. my[r].at + 1 > f
    BY <1>2, <1>6, <2>1, <2>2
  <2> QED
    BY <1>1, <1>2, <2>2, <2>3
<1> QED
  BY <1>7, <1>8, <1>9

\* What is above the cut stays as it is.
LEMMA AboveKept ==
    ASSUME Types, TxnInv, NEW r \in Sessions, txn'[r] = txn[r], NEW k, NEW f,
           OldKept(r, k, f), LinkedKept(k, f), NEW u \in DOMAIN upd,
           (f # NONE /\ upd[u].key = k) => u >= f
    PROVE  /\ Visible(r, u) /\ Readable(u) => upd'[u] = upd[u]
           /\ \A j \in Keys : u \in Linked(j) /\ u \in Of(j) => u \in Linked(j)'
<1>1. u \in Nat /\ (f # NONE => f \in Nat)
  BY UpdTyped, OfDomain DEF Types, LinkedKept
<1>2. ~ Cut(k, f, u)
  BY <1>1 DEF Cut, Of
<1>3. \A j \in Keys : u \in Linked(j) /\ u \in Of(j) => u \in Linked(j)'
  BY <1>1 DEF LinkedKept, Of
<1> QED
  BY <1>2, <1>3, OldUpdate

LEMMA VersionKept ==
    ASSUME Types, TxnInv, NEW r \in Sessions, txn'[r] = txn[r], NEW k, NEW f,
           OldKept(r, k, f), LinkedKept(k, f), NEW j, NEW o, Version(r, j, o),
           (f # NONE /\ j = k) => o >= f
    PROVE  Version(r, j, o)'
<1>1. o \in DOMAIN upd /\ upd[o].key = j
  BY DEF Version, Of
<1>2. upd'[o] = upd[o] /\ o \in DOMAIN upd'
  BY <1>1, AboveKept, OldUpdate DEF Version
<1> QED
  BY <1>1, <1>2 DEF Version, Of, Live, Visible, Readable

LEMMA WalkOther ==
    ASSUME Types, TxnInv, UpdInv, Chains, NEW r \in Sessions, NEW k, NEW f, OtherStep(r, k, f),
           WalkInv(r), pc[r] \in Traversing
    PROVE  Walk(r)'
<1>j. PICK j : j = my[r].key
  OBVIOUS
<1>a. PICK a : a = my[r].at
  OBVIOUS
<1>o. PICK o : o = my[r].old
  OBVIOUS
<1>0. /\ my'[r] = my[r] /\ txn'[r] = txn[r]
      /\ OldKept(r, k, f) /\ NewHidden(r) /\ LinkedKept(k, f)
  BY DEF OtherStep, Kept
<1>1. Walk(r)
  BY DEF WalkInv
<1>2. /\ my[r].op \in {"read", "write"} /\ j \in Keys /\ a \in Linked(j) /\ Passed(r, j, a)
      /\ my[r].op = "read" => o = NONE
      /\ my[r].op = "write" => o \in Of(j) /\ \A u \in Of(j) : Live(u) /\ u > a => u > o
  BY <1>1, <1>j, <1>a, <1>o DEF Walk
<1>3. (f # NONE /\ j = k) => a >= f
  BY <1>0, <1>j, <1>a, WalkersAbove DEF LinkedKept
<1>4. ChainInv(j)
  BY <1>2 DEF Chains
<1>5. a \in Of(j) /\ a \in DOMAIN upd /\ upd[a].key = j
  BY <1>2, <1>4, LinkedOf, OfDomain DEF Types
<1>6. a \in Linked(j)'
  BY <1>0, <1>2, <1>3, <1>5, AboveKept
<1>7. Passed(r, j, a)'
  BY <1>0, <1>2, PassedKept
<1>8. ASSUME my[r].op = "write"
      PROVE  o \in Of(j)' /\ \A u \in Of(j)' : Live(u)' /\ u > a => u > o
  <2>1. o \in Of(j) /\ o \in DOMAIN upd
    BY <1>2, <1>8, OfDomain DEF Types
  <2>2. o \in Of(j)'
    BY <1>0, <2>1, OldOf
  <2>3. ASSUME NEW u \in Of(j)', Live(u)', u > a PROVE u > o
    <3>1. CASE u \in Of(j) /\ u \in DOMAIN upd
      <4>1. Live(u)
        BY <1>0, <2>3, <3>1, OldUpdate
      <4> QED
        BY <1>2, <1>8, <2>3, <3>1, <4>1
    <3>2. CASE \A v \in DOMAIN upd : u > v
      BY <2>1, <3>2
    <3> QED
      BY <1>0, <3>1, <3>2, OldOrNew
  <2> QED
    BY <2>2, <2>3
<1>9. my'[r].key = j /\ my'[r].at = a /\ my'[r].old = o /\ my'[r].op = my[r].op
  BY <1>0, <1>j, <1>a, <1>o
<1> QED
  BY <1>0, <1>2, <1>6, <1>7, <1>8, <1>9 DEF Walk

LEMMA FoundOther ==
    ASSUME Types, TxnInv, UpdInv, Chains, NEW r \in Sessions, NEW k, NEW f, OtherStep(r, k, f),
           WalkInv(r), pc[r] \in {"visible", "recheck"}
    PROVE  Found(r)'
<1>u. PICK u : u = my[r].at
  OBVIOUS
<1>e. PICK e : e = my[r].state
  OBVIOUS
<1>0. /\ my'[r] = my[r] /\ txn'[r] = txn[r] /\ pc'[r] = pc[r]
      /\ OldKept(r, k, f) /\ NewHidden(r) /\ LinkedKept(k, f)
  BY DEF OtherStep, Kept
<1>1. Walk(r) /\ Found(r) /\ pc[r] \in Traversing
  BY DEF WalkInv, Traversing
<1>2. /\ my[r].op = "read" => upd[u].kind # "reserve"
      /\ e # "locked"
      /\ Live(u) =>
            /\ e = "resolved" => upd[u].prepare = "resolved"
            /\ e = "inprogress" => upd[u].prepare # "init"
            /\ e = "init" /\ Visible(r, u) => upd[u].prepare = "init"
      /\ pc[r] = "recheck" =>
            /\ Live(u) /\ upd[u].prepare = e => (my[r].vis <=> Visible(r, u))
            /\ e = "init" /\ my[r].vis => Live(u) /\ Visible(r, u)
  BY <1>1, <1>u, <1>e DEF Found
<1>3. (f # NONE /\ my[r].key = k) => u >= f
  BY <1>0, <1>1, <1>u, WalkersAbove DEF LinkedKept
<1>4. my[r].key \in Keys /\ u \in Linked(my[r].key) /\ ChainInv(my[r].key)
  BY <1>1, <1>u DEF Walk, Chains
<1>5. u \in DOMAIN upd /\ upd[u].key = my[r].key
  BY <1>4, LinkedOf, OfDomain DEF Types
<1>6. u \in Nat /\ (f # NONE => f \in Nat)
  BY <1>0, <1>5, UpdTyped, OfDomain DEF Types, LinkedKept
<1>7. ~ Cut(k, f, u)
  BY <1>3, <1>5, <1>6 DEF Cut, Of
<1>8. my'[r].at = u /\ my'[r].state = e /\ my'[r].op = my[r].op /\ my'[r].vis = my[r].vis
  BY <1>0, <1>u, <1>e
<1>9. my[r].op = "read" => upd'[u].kind # "reserve"
  <2>1. CASE upd'[u] = upd[u]
    BY <1>2, <2>1
  <2>2. CASE Progress(u)
    <3>1. upd'[u] = Aborted(upd[u]) \/ upd'[u].kind = upd[u].kind
      BY <2>2 DEF Progress
    <3> QED
      BY <1>2, <1>5, <3>1, AbortedIs DEF Types
  <2> QED
    BY <1>0, <1>5, <1>7, <2>1, <2>2 DEF OldKept
<1>10. CASE upd'[u] = upd[u]
  BY <1>0, <1>2, <1>8, <1>9, <1>10 DEF Found, Live, Visible
<1>11. CASE Progress(u) /\ ~ (Readable(u) /\ Visible(r, u))
  <2>1. Live(u)' => Live(u)
    BY <1>0, <1>5, OldUpdate
  <2>2. Visible(r, u)' => Visible(r, u)
    BY <1>0, <1>5, OldUpdate
  <2>3. ASSUME Live(u)'
        PROVE  /\ upd[u].prepare # "resolved"
               /\ upd'[u].prepare = "init" => upd[u].prepare = "init"
               /\ upd'[u].prepare = "inprogress" => upd[u].prepare = "init"
               /\ upd'[u].prepare = "resolved" => upd[u].prepare = "locked"
    <3>1. upd'[u] # Aborted(upd[u])
      BY <1>5, <2>3, AbortedIs DEF Live, Types
    <3> QED
      BY <1>11, <3>1 DEF Progress
  <2>4. e = "init" => ~ (Live(u) /\ Visible(r, u))
    BY <1>2, <1>11 DEF Readable
  <2>5. e = "resolved" => ~ Live(u)'
    BY <1>2, <2>1, <2>3
  <2>6. ASSUME Live(u)', e = "inprogress" PROVE upd'[u].prepare \notin {"init", "inprogress"}
    BY <1>2, <2>1, <2>3, <2>6
  <2>7. e \in {"init", "inprogress", "resolved"}
    BY <1>2, <1>e, TxnTyped DEF Prepares, Types
  <2>8. Live(u)' => /\ e # "resolved"
                    /\ e = "inprogress" => upd'[u].prepare # "init"
                    /\ e = "init" => ~ Visible(r, u)'
    BY <2>1, <2>2, <2>4, <2>5, <2>6
  <2>9. ASSUME pc[r] = "recheck"
        PROVE  /\ Live(u)' /\ upd'[u].prepare = e => (my[r].vis <=> Visible(r, u)')
               /\ ~ (e = "init" /\ my[r].vis)
    <3>1. ~ (e = "init" /\ my[r].vis)
      BY <1>2, <2>4, <2>9
    <3>2. ASSUME Live(u)', upd'[u].prepare = e PROVE e = "init"
      BY <2>5, <2>6, <2>7, <3>2
    <3>3. Live(u)' /\ e = "init" => ~ Visible(r, u)'
      BY <2>8
    <3> QED
      BY <3>1, <3>2, <3>3
  <2> QED
    BY <1>0, <1>2, <1>8, <1>9, <2>8, <2>9 DEF Found
<1> QED
  BY <1>0, <1>5, <1>7, <1>10, <1>11 DEF OldKept

LEMMA BaseOther ==
    ASSUME Types, TxnInv, UpdInv, Chains, NEW r \in Sessions, NEW k, NEW f, OtherStep(r, k, f),
           WalkInv(r), pc[r] = "base"
    PROVE  BaseInv(r)'
<1>j. PICK j : j = my[r].key
  OBVIOUS
<1>a. PICK a : a = my[r].at
  OBVIOUS
<1>o. PICK o : o = my[r].old
  OBVIOUS
<1>0. /\ my'[r] = my[r] /\ txn'[r] = txn[r]
      /\ OldKept(r, k, f) /\ NewHidden(r) /\ LinkedKept(k, f)
  BY DEF OtherStep, Kept
<1>1. BaseInv(r)
  BY DEF WalkInv
<1>2. /\ my[r].op = "read" /\ j \in Keys /\ a \in Linked(j)
      /\ Version(r, j, o) /\ Passed(r, j, o) /\ a <= o /\ NoFull(j, a, o)
  BY <1>1, <1>j, <1>a, <1>o DEF BaseInv
<1>3. (f # NONE /\ j = k) => a >= f /\ o >= f
  BY <1>0, <1>j, <1>a, <1>o, WalkersAbove DEF LinkedKept
<1>4. ChainInv(j)
  BY <1>2 DEF Chains
<1>5. a \in Of(j) /\ a \in DOMAIN upd /\ upd[a].key = j
  BY <1>2, <1>4, LinkedOf, OfDomain DEF Types
<1>6. a \in Linked(j)'
  BY <1>0, <1>2, <1>3, <1>5, AboveKept
<1>7. Passed(r, j, o)'
  BY <1>0, <1>2, PassedKept
<1>8. Version(r, j, o)'
  BY <1>0, <1>2, <1>3, VersionKept
<1>9. o \in DOMAIN upd
  BY <1>2 DEF Version, Of
<1>10. NoFull(j, a, o)'
  BY <1>0, <1>2, <1>9, NoFullKept
<1>11. my'[r].key = j /\ my'[r].at = a /\ my'[r].old = o /\ my'[r].op = my[r].op
  BY <1>0, <1>j, <1>a, <1>o
<1> QED
  BY <1>2, <1>6, <1>7, <1>8, <1>10, <1>11 DEF BaseInv

LEMMA DoneOther ==
    ASSUME Types, TxnInv, UpdInv, Chains, Ordered, NEW r \in Sessions, NEW k, NEW f,
           OtherStep(r, k, f), WalkInv(r), pc[r] = "done"
    PROVE  DoneInv(r)'
<1>j. PICK j : j = my[r].key
  OBVIOUS
<1>a. PICK a : a = my[r].at
  OBVIOUS
<1>o. PICK o : o = my[r].old
  OBVIOUS
<1>0. /\ my'[r] = my[r] /\ txn'[r] = txn[r]
      /\ OldKept(r, k, f) /\ NewHidden(r) /\ LinkedKept(k, f)
  BY DEF OtherStep, Kept
<1>1. DoneInv(r)
  BY DEF WalkInv
<1>2. /\ j \in Keys /\ Passed(r, j, o)
      /\ (o = NONE => a = NONE) /\ (o # NONE => Version(r, j, o))
      /\ a # NONE => a \in Of(j) /\ Live(a) /\ upd[a].kind = "standard" /\ a <= o
      /\ NoFull(j, a + 1, o)
  BY <1>1, <1>j, <1>a, <1>o DEF DoneInv
<1>3. (f # NONE /\ j = k) => a >= f /\ o >= f
  BY <1>0, <1>j, <1>a, <1>o, WalkersAbove DEF LinkedKept
<1>4. Passed(r, j, o)'
  BY <1>0, <1>2, PassedKept
<1>5. o # NONE => Version(r, j, o)'
  BY <1>0, <1>2, <1>3, VersionKept
<1>6. o \in DOMAIN upd \cup {NONE}
  BY <1>2 DEF Version, Of
<1>7. NoFull(j, a + 1, o)'
  BY <1>0, <1>2, <1>6, NoFullKept
<1>8. ASSUME a # NONE
      PROVE  a \in Of(j)' /\ Live(a)' /\ upd'[a].kind = "standard" /\ a <= o
  <2>1. a \in Of(j) /\ Live(a) /\ upd[a].kind = "standard" /\ a <= o /\ o # NONE
    BY <1>2, <1>8
  <2>2. /\ a \in DOMAIN upd /\ upd[a].key = j /\ o \in Of(j) /\ Live(o)
        /\ Visible(r, o) /\ Readable(o)
    BY <1>2, <2>1 DEF Version, Of
  <2>3. Active(r)
    BY TxnParts DEF Place, Active, Busy
  <2>4. Visible(r, a) /\ Readable(a)
    BY <1>2, <2>1, <2>2, <2>3, VisibleOlder
  <2>5. upd'[a] = upd[a]
    BY <1>0, <1>3, <2>2, <2>4, AboveKept
  <2>6. a \in Of(j)'
    BY <1>0, <2>1, OldOf
  <2> QED
    BY <2>1, <2>5, <2>6 DEF Live
<1>9. my'[r].key = j /\ my'[r].at = a /\ my'[r].old = o
  BY <1>0, <1>j, <1>a, <1>o
<1> QED
  BY <1>2, <1>4, <1>5, <1>7, <1>8, <1>9 DEF DoneInv

LEMMA CheckedOther ==
    ASSUME Types, TxnInv, UpdInv, Chains, NEW r \in Sessions, NEW k, NEW f, OtherStep(r, k, f),
           WalkInv(r), pc[r] \in {"modify", "serial"}
    PROVE  CheckedInv(r)'
<1>j. PICK j : j = my[r].key
  OBVIOUS
<1>o. PICK o : o = my[r].old
  OBVIOUS
<1>0. /\ my'[r] = my[r] /\ txn'[r] = txn[r]
      /\ OldKept(r, k, f) /\ NewHidden(r) /\ LinkedKept(k, f)
  BY DEF OtherStep, Kept
<1>1. CheckedInv(r)
  BY DEF WalkInv
<1>2. /\ my[r].op = "write" /\ j \in Keys /\ o \in Of(j) \cup {NONE} /\ my[r].at = NONE
      /\ \A u \in Of(j) : Live(u) /\ u <= o => Visible(r, u) /\ Readable(u)
  BY <1>1, <1>j, <1>o DEF CheckedInv
<1>3. o \in DOMAIN upd \cup {NONE} /\ o \in Nat
  BY <1>2, OfDomain DEF NONE, Types
<1>4. o \in Of(j)' \cup {NONE}
  BY <1>0, <1>2, OldOf
<1>5. ASSUME NEW u \in Of(j)', Live(u)', u <= o
      PROVE  (Visible(r, u) /\ Readable(u))'
  <2>1. CASE u \in Of(j) /\ u \in DOMAIN upd
    <3>1. Live(u)
      BY <1>0, <1>5, <2>1, OldUpdate
    <3>2. Visible(r, u) /\ Readable(u)
      BY <1>2, <1>5, <2>1, <3>1
    <3>3. upd'[u] = upd[u] \/ upd'[u] = Aborted(upd[u])
      BY <1>0, <2>1, <3>2, OldUpdate
    <3>4. upd'[u] = upd[u]
      BY <1>5, <2>1, <3>3, AbortedIs DEF Live, Types
    <3> QED
      BY <1>0, <3>2, <3>4 DEF Visible, Readable
  <2>2. CASE u \in Nat /\ u > 0 /\ \A v \in DOMAIN upd : u > v
    <3>1. u > o
      BY <1>3, <2>2 DEF NONE
    <3> QED
      BY <1>3, <1>5, <2>2, <3>1
  <2> QED
    BY <1>0, <2>1, <2>2, OldOrNew
<1>6. my'[r].key = j /\ my'[r].old = o /\ my'[r].op = my[r].op /\ my'[r].at = my[r].at
  BY <1>0, <1>j, <1>o
<1> QED
  BY <1>2, <1>4, <1>5, <1>6 DEF CheckedInv

\* All of a session's work but a scan outlives the steps of others.
LEMMA WalkInvOther ==
    ASSUME Types, TxnInv, UpdInv, Chains, Ordered, NEW r \in Sessions, NEW k, NEW f,
           OtherStep(r, k, f), WalkInv(r), pc[r] = "scan" => ScanInv(r)'
    PROVE  WalkInv(r)'
<1>1. pc'[r] = pc[r]
  BY DEF OtherStep, Kept
<1>2. pc'[r] \in Traversing => Walk(r)'
  BY <1>1, WalkOther
<1>3. pc'[r] \in {"visible", "recheck"} => Found(r)'
  BY <1>1, FoundOther
<1>4. pc'[r] = "base" => BaseInv(r)'
  BY <1>1, BaseOther
<1>5. pc'[r] = "done" => DoneInv(r)'
  BY <1>1, DoneOther
<1>6. pc'[r] \in {"modify", "serial"} => CheckedInv(r)'
  BY <1>1, CheckedOther
<1>7. pc'[r] = "scan" => ScanInv(r)'
  BY <1>1
<1> QED
  BY <1>2, <1>3, <1>4, <1>5, <1>6, <1>7 DEF WalkInv

-----------------------------------------------------------------------------
(* Steps that leave the updates alone. *)

\* Ids are given out in order, and a new snapshot shows all that have ended.
IdStep ==
    /\ running' \subseteq running \cup {current}
    /\ pinned_ts' \in Nat /\ pinned_ts' >= pinned_ts
SnapStep ==
    \A t \in Sessions : Active(t)' =>
       \/ Active(t) /\ txn'[t].seen = txn[t].seen
       \/ txn'[t].seen = (1 .. current - 1) \ running

LEMMA IdsBelow ==
    ASSUME MvccInv, NEW u \in DOMAIN upd, Live(u)
    PROVE  upd[u].txn \in 1 .. current - 1 /\ current \in Nat /\ upd[u].txn # current
<1>1. upd[u] \in Updates /\ current \in Nat /\ current >= 1
  BY UpdTyped, MvccAssumption DEF MvccInv, Types, SharedType
<1>2. upd[u].txn \in Ids
  BY <1>1 DEF Updates, Live
<1>3. upd[u].txn < current
  BY DEF MvccInv, UpdInv, UpdateInv
<1> QED
  BY <1>1, <1>2, <1>3, MvccAssumption DEF Ids

LEMMA SettledKept ==
    ASSUME MvccInv, IdStep, NEW u \in DOMAIN upd, Live(u), Settled(u), upd'[u] = upd[u]
    PROVE  Settled(u)'
<1>1. upd[u].txn # current
  BY IdsBelow
<1> QED
  BY <1>1 DEF Settled, Readable, IdStep

LEMMA CutterKept ==
    ASSUME MvccInv, IdStep, SnapStep, NEW c \in DOMAIN upd, Cutter(c), upd'[c] = upd[c]
    PROVE  Cutter(c)'
<1>1. Live(c) /\ upd[c].kind = "standard" /\ Settled(c) /\ upd[c].start <= pinned_ts
  BY DEF Cutter
<1>2. Settled(c)' /\ Live(c)'
  BY <1>1, SettledKept DEF Live
<1>3. upd[c].start \in Nat /\ pinned_ts \in Nat
  BY UpdTyped DEF MvccInv, Types, SharedType
<1>4. upd[c].start <= pinned_ts'
  BY <1>1, <1>3 DEF IdStep
<1>5. ASSUME NEW t \in Sessions, Active(t)' PROVE upd[c].txn \in txn'[t].seen
  <2>1. CASE Active(t) /\ txn'[t].seen = txn[t].seen
    BY <2>1 DEF Cutter
  <2>2. CASE txn'[t].seen = (1 .. current - 1) \ running
    <3>1. upd[c].txn \in 1 .. current - 1 /\ upd[c].txn \notin running
      BY <1>1, IdsBelow DEF Settled
    <3> QED
      BY <2>2, <3>1
  <2> QED
    BY <1>5, <2>1, <2>2 DEF SnapStep
<1> QED
  BY <1>1, <1>2, <1>4, <1>5 DEF Cutter

LEMMA ScanOther ==
    ASSUME MvccInv, IdStep, SnapStep, NEW r \in Sessions, NEW k, NEW f, OtherStep(r, k, f),
           f = NONE \/ my[r].key # k, pc[r] = "scan"
    PROVE  ScanInv(r)'
<1>j. PICK j : j = my[r].key
  OBVIOUS
<1>a. PICK a : a = my[r].at
  OBVIOUS
<1>b. PICK b : b = my[r].first
  OBVIOUS
<1>0. /\ my'[r] = my[r] /\ txn'[r] = txn[r]
      /\ OldKept(r, k, f) /\ NewHidden(r) /\ LinkedKept(k, f)
  BY DEF OtherStep, Kept
<1>i. Types /\ TxnInv /\ UpdInv
  BY DEF MvccInv
<1>1. ScanInv(r)
  BY DEF MvccInv, Walks, WalkInv
<1>2. /\ j \in Keys /\ a \in Linked(j) \cup {NONE}
      /\ b # NONE => b \in Linked(j) /\ Cutter(b) /\ a < b
      /\ \E w \in Linked(j) : Live(w) /\ Own(r, w) /\ w > a /\ w > b
  BY <1>1, <1>j, <1>a, <1>b DEF ScanInv
<1>3. PICK w \in Linked(j) : Live(w) /\ Own(r, w) /\ w > a /\ w > b
  BY <1>2
<1>4. ChainInv(j)
  BY <1>2 DEF MvccInv, Chains
<1>5. ~ (f # NONE /\ j = k)
  BY <1>j
<1>6. \A u \in Linked(j) : u \in Linked(j)'
  BY <1>0, <1>2, <1>5 DEF LinkedKept
<1>7. \A u \in Linked(j) : u \in DOMAIN upd /\ upd[u].key = j
  BY <1>2, <1>4, LinkedOf DEF Of
<1>8. Active(r)
  BY <1>i, TxnParts DEF Place, Active, Busy
<1>9. b # NONE => Cutter(b)'
  <2>1. ASSUME b # NONE PROVE Cutter(b)'
    <3>1. b \in DOMAIN upd /\ upd[b].key = j /\ Cutter(b)
      BY <1>2, <1>7, <2>1
    <3>2. Visible(r, b) /\ Readable(b)
      BY <1>i, <1>8, <3>1, CutterVisible
    <3>3. upd'[b] = upd[b]
      BY <1>0, <1>i, <1>5, <3>1, <3>2, AboveKept
    <3> QED
      BY <3>1, <3>3, CutterKept
  <2> QED
    BY <2>1
<1>10. upd'[w] = upd[w]
  <2>1. w \in DOMAIN upd /\ upd[w].key = j /\ Own(r, w)
    BY <1>3, <1>7
  <2>2. ~ Cut(k, f, w)
    BY <1>5, <2>1 DEF Cut, Of
  <2> QED
    BY <1>0, <2>1, <2>2 DEF OldKept
<1>11. Live(w)' /\ Own(r, w)' /\ w \in Linked(j)'
  BY <1>0, <1>3, <1>6, <1>10 DEF Live, Own
<1>12. my'[r].key = j /\ my'[r].at = a /\ my'[r].first = b
  BY <1>0, <1>j, <1>a, <1>b
<1>13. a \in Linked(j)' \cup {NONE} /\ (b # NONE => b \in Linked(j)')
  BY <1>2, <1>6
<1>14. \E y \in Linked(j)' : Live(y)' /\ Own(r, y)' /\ y > a /\ y > b
  BY <1>3, <1>11
<1> QED
  BY <1>2, <1>9, <1>12, <1>13, <1>14 DEF ScanInv

LEMMA QuietOther ==
    ASSUME NEW r \in Sessions, Kept(r), upd' = upd, chain' = chain, NEW k
    PROVE  OtherStep(r, k, NONE)
<1>1. \A j \in Keys : Linked(j)' = Linked(j)
  BY DEF Linked
<1> QED
  BY <1>1 DEF OtherStep, OldKept, NewHidden, LinkedKept

LEMMA WalksQuiet ==
    ASSUME MvccInv, IdStep, SnapStep, upd' = upd, chain' = chain, NEW r \in Sessions, Kept(r)
    PROVE  WalkInv(r)'
<1>1. OtherStep(r, NONE, NONE)
  BY QuietOther
<1>2. pc[r] = "scan" => ScanInv(r)'
  BY <1>1, ScanOther
<1>3. WalkInv(r)
  BY DEF MvccInv, Walks
<1> QED
  BY <1>1, <1>2, <1>3, WalkInvOther DEF MvccInv

LEMMA ChainsQuiet ==
    ASSUME MvccInv, IdStep, SnapStep, upd' = upd, chain' = chain
    PROVE  Chains'
<1>1. ASSUME NEW k \in Keys PROVE ChainInv(k)'
  <2>1. ChainInv(k)
    BY <1>1 DEF MvccInv, Chains
  <2>2. Of(k)' = Of(k) /\ Linked(k)' = Linked(k)
    BY DEF Of, Linked
  <2>3. ASSUME NEW u \in Of(k) \ Linked(k)
        PROVE  ~ Live(u)' /\ \E c \in Linked(k) : c > u /\ Cutter(c)'
    <3>1. ~ Live(u)
      BY <2>1 DEF ChainInv
    <3>2. PICK c \in Linked(k) : c > u /\ Cutter(c)
      BY <2>1 DEF ChainInv
    <3>3. c \in DOMAIN upd
      BY <1>1, <2>1, LinkedOf DEF Of
    <3>4. Cutter(c)'
      BY <3>2, <3>3, CutterKept
    <3> QED
      BY <3>1, <3>2, <3>4 DEF Live
  <2> QED
    BY <2>1, <2>2, <2>3 DEF ChainInv
<1> QED
  BY <1>1 DEF Chains

\* Who gets an id has no updates yet.
OrderStep ==
    \A t \in Sessions :
       /\ txn'[t].seen \in {txn[t].seen, {}, (1 .. current - 1) \ running}
       /\ txn'[t].state = "running" /\ txn'[t].id # NONE =>
             /\ txn[t].state = "running" /\ txn'[t].seen = txn[t].seen
             /\ txn'[t].read = txn[t].read /\ txn'[t].id \in {txn[t].id, current}

LEMMA OrderedQuiet ==
    ASSUME MvccInv, IdStep, OrderStep, upd' = upd
    PROVE  Ordered'
<1>1. ASSUME NEW k \in Keys, NEW u \in Of(k), NEW v \in Of(k), u < v, Live(u), Live(v)
      PROVE  OrderInv(u, v)'
  <2>1. OrderInv(u, v)
    BY <1>1, OrderPair DEF MvccInv
  <2>2. u \in DOMAIN upd /\ v \in DOMAIN upd
    BY <1>1 DEF Of
  <2>3. Settled(u) => Settled(u)'
    BY <1>1, <2>2, SettledKept
  <2>4. ASSUME NEW t \in Sessions, upd[v].txn \in txn'[t].seen PROVE upd[u].txn \in txn'[t].seen
    <3>1. CASE txn'[t].seen = txn[t].seen
      BY <2>1, <2>4, <3>1 DEF OrderInv
    <3>2. CASE txn'[t].seen = {}
      BY <2>4, <3>2
    <3>3. CASE txn'[t].seen = (1 .. current - 1) \ running
      <4>1. upd[u].txn \in 1 .. current - 1
        BY <1>1, <2>2, IdsBelow
      <4>2. upd[v].txn \notin running
        BY <2>4, <3>3
      <4>3. upd[u].txn \notin running
        BY <2>1, <4>2 DEF OrderInv, Settled
      <4> QED
        BY <3>3, <4>1, <4>3
    <3> QED
      BY <3>1, <3>2, <3>3 DEF OrderStep
  <2>5. ASSUME NEW t \in Sessions, txn'[t].state = "running", Own(t, v)' PROVE Visible(t, u)'
    <3>1. upd[v].txn = txn'[t].id /\ txn'[t].id # NONE
      BY <2>5 DEF Own
    <3>2. /\ txn[t].state = "running" /\ txn'[t].seen = txn[t].seen
          /\ txn'[t].read = txn[t].read /\ txn'[t].id \in {txn[t].id, current}
      BY <2>5, <3>1 DEF OrderStep
    <3>3. upd[v].txn # current
      BY <1>1, <2>2, IdsBelow
    <3>4. txn'[t].id = txn[t].id /\ Own(t, v)
      BY <3>1, <3>2, <3>3 DEF Own
    <3>5. Visible(t, u)
      BY <2>1, <3>2, <3>4 DEF OrderInv
    <3> QED
      BY <3>2, <3>4, <3>5 DEF Visible
  <2> QED
    BY <2>1, <2>3, <2>4, <2>5 DEF OrderInv, Readable
<1>2. \A k \in Keys : Of(k)' = Of(k)
  BY DEF Of
<1>3. \A u : Live(u)' = Live(u)
  BY DEF Live
<1> QED
  BY <1>1, <1>2, <1>3 DEF Ordered

-----------------------------------------------------------------------------
(* Steps of a session that change nothing but its place. *)

Move(s, label, x) == pc' = [pc EXCEPT ![s] = label] /\ my' = [my EXCEPT ![s] = x]
Still == UNCHANGED <<upd, chain, running, current, pinned_ts, txn>>

LEMMA MoveIs ==
    ASSUME SessionType, NEW s \in Sessions, NEW label \in Labels, NEW x \in Locals,
           Move(s, label, x)
    PROVE  /\ pc' \in [Sessions -> Labels] /\ my' \in [Sessions -> Locals]
           /\ pc'[s] = label /\ my'[s] = x
           /\ \A t \in Sessions : t # s => pc'[t] = pc[t] /\ my'[t] = my[t]
  BY DEF SessionType, Move

LEMMA StillSteps ==
    ASSUME MvccInv, Still
    PROVE  /\ IdStep /\ SnapStep /\ OrderStep
           /\ upd' = upd /\ chain' = chain /\ running' = running /\ current' = current
           /\ pinned_ts' = pinned_ts /\ txn' = txn
<1>1. /\ upd' = upd /\ chain' = chain /\ running' = running /\ current' = current
      /\ pinned_ts' = pinned_ts /\ txn' = txn
  BY DEF Still
<1>2. pinned_ts \in Nat
  BY DEF MvccInv, Types, SharedType
<1> QED
  BY <1>1, <1>2 DEF IdStep, SnapStep, OrderStep, Active

LEMMA LocalStep ==
    ASSUME MvccInv, NEW s \in Sessions, NEW label \in Busy \cup {"idle"}, NEW x \in Locals,
           Move(s, label, x), Still,
           txn[s].state = "running", pc[s] \in Busy \cup {"idle"},
           label = "idle" => x = NoLocals,
           label \in {"serial", "scan"} => txn[s].id # NONE,
           WalkInv(s)'
    PROVE  MvccInv'
<1>1. /\ IdStep /\ SnapStep /\ OrderStep
      /\ upd' = upd /\ chain' = chain /\ running' = running /\ current' = current
      /\ pinned_ts' = pinned_ts /\ txn' = txn
  BY StillSteps
<1>2. Types /\ TxnInv /\ UpdInv
  BY DEF MvccInv
<1>3. label \in Labels
  BY DEF Labels, Busy, Traversing
<1>4. /\ pc' \in [Sessions -> Labels] /\ my' \in [Sessions -> Locals]
      /\ pc'[s] = label /\ my'[s] = x
      /\ \A t \in Sessions : t # s => pc'[t] = pc[t] /\ my'[t] = my[t]
  BY <1>2, <1>3, MoveIs DEF Types
<1>5. Types'
  BY <1>1, <1>2, <1>4 DEF Types, SharedType, SessionType
<1>6. TxnInv'
  <2>1. TableInv'
    BY <1>1, <1>2 DEF TxnInv, TableInv
  <2>2. ASSUME NEW t \in Sessions PROVE Place(t)' /\ IdInv(t)' /\ LockedInv(t)'
    <3>1. Place(t) /\ IdInv(t) /\ LockedInv(t)
      BY <1>2, TxnParts
    <3>2. IdInv(t)'
      BY <1>1, <3>1 DEF IdInv
    <3>3. CASE t # s
      <4>1. pc'[t] = pc[t] /\ my'[t] = my[t]
        BY <1>4, <3>3
      <4>2. Place(t)'
        BY <1>1, <3>1, <4>1 DEF Place
      <4>3. LockedInv(t)'
        BY <1>1, <3>1, <4>1 DEF LockedInv, Own
      <4> QED
        BY <3>2, <4>2, <4>3
    <3>4. CASE t = s
      <4>1. Place(t)'
        BY <1>1, <1>4, <3>1, <3>4 DEF Place, Busy, Traversing, Resolving
      <4>2. LockedInv(t)'
        BY <1>4, <3>4 DEF LockedInv, Busy, Traversing
      <4> QED
        BY <3>2, <4>1, <4>2
    <3> QED
      BY <3>3, <3>4
  <2> QED
    BY <2>1, <2>2 DEF TxnInv
<1>7. UpdInv'
  <2>1. ASSUME NEW u \in DOMAIN upd PROVE UpdateInv(u)'
    <3>1. UpdateInv(u)
      BY <1>2, <2>1 DEF UpdInv
    <3>2. ASSUME NEW t \in Sessions, Own(t, u), Live(u) PROVE OwnInv(t, u)'
      <4>1. OwnInv(t, u)
        BY <3>1, <3>2 DEF UpdateInv
      <4>2. \A j : Of(j)' = Of(j)
        BY <1>1 DEF Of
      <4>3. CASE t # s
        <5>1. pc'[t] = pc[t] /\ my'[t] = my[t]
          BY <1>4, <4>3
        <5> QED
          BY <1>1, <4>1, <4>2, <5>1 DEF OwnInv
      <4>4. CASE t = s
        <5>1. pc'[t] # "release" /\ pc'[t] # "prepared" /\ pc[t] # "prepared" /\ pc[t] # "stamp"
              /\ pc'[t] # "stamp"
          BY <1>4, <4>4 DEF Busy, Traversing
        <5> QED
          BY <1>1, <4>1, <4>2, <4>4, <5>1 DEF OwnInv
      <4> QED
        BY <4>3, <4>4
    <3> QED
      BY <1>1, <3>1, <3>2 DEF UpdateInv, Live, Own, Settled, Readable
  <2> QED
    BY <1>1, <2>1 DEF UpdInv
<1>8. Ordered' /\ Chains'
  BY <1>1, OrderedQuiet, ChainsQuiet
<1>9. ASSUME NEW t \in Sessions PROVE WalkInv(t)'
  <2>1. CASE t = s
    BY <2>1
  <2>2. CASE t # s
    <3>1. Kept(t)
      BY <1>1, <1>4, <2>2 DEF Kept
    <3> QED
      BY <1>1, <3>1, WalksQuiet
  <2> QED
    BY <2>1, <2>2
<1> QED
  BY <1>5, <1>6, <1>7, <1>8, <1>9 DEF MvccInv, Walks

-----------------------------------------------------------------------------
(* Walking down a chain. *)

LEMMA NoLocalsIs ==
    /\ NoLocals \in Locals
    /\ NoLocals.op = "none" /\ NoLocals.key = NONE /\ NoLocals.at = NONE /\ NoLocals.old = NONE
    /\ NoLocals.state = "init" /\ NoLocals.vis = FALSE /\ NoLocals.first = NONE
  BY DEF NoLocals, Locals, NONE, Prepares

LEMMA WalkToIs ==
    ASSUME Types, NEW s \in Sessions, NEW u \in Nat, WalkTo(s, u)
    PROVE  \E x \in Locals :
              /\ x.op = my[s].op /\ x.key = my[s].key /\ x.old = my[s].old /\ x.at = u
              /\ x.first = NONE
              /\ Move(s, IF u # NONE THEN "state" ELSE IF my[s].op = "read" THEN "done"
                         ELSE "modify", x)
<1>1. PICK x : x = [NoLocals EXCEPT !.op = my[s].op, !.key = my[s].key, !.old = my[s].old,
                                    !.at = u]
  BY Zenon
<1>2. my[s] \in Locals
  BY TxnTyped DEF Types
<1>3. my[s].op \in {"none", "read", "write"} /\ my[s].key \in Keys \cup {NONE} /\ my[s].old \in Nat
  BY <1>2 DEF Locals
<1>4. x.op = my[s].op /\ x.key = my[s].key /\ x.old = my[s].old /\ x.at = u /\ x.first = NONE
  BY <1>1 DEF NoLocals
<1>5. x \in Locals
  BY <1>1, <1>3, NoLocalsIs DEF Locals
<1>6. my' = [my EXCEPT ![s] = x]
  BY <1>1, Zenon DEF WalkTo
<1>7. pc' = [pc EXCEPT ![s] = IF u # NONE THEN "state" ELSE IF my[s].op = "read" THEN "done"
                              ELSE "modify"]
  BY Zenon DEF WalkTo, Goto
<1>8. Move(s, IF u # NONE THEN "state" ELSE IF my[s].op = "read" THEN "done" ELSE "modify", x)
  BY <1>6, <1>7, Zenon DEF Move
<1> QED
  BY <1>4, <1>5, <1>8

\* What a session finds out is about updates that stay as they are.
LEMMA StillView ==
    ASSUME Still
    PROVE  /\ \A k : Of(k)' = Of(k) /\ Linked(k)' = Linked(k)
           /\ \A u : Live(u)' = Live(u) /\ Readable(u)' = Readable(u)
           /\ \A s, u : Visible(s, u)' = Visible(s, u) /\ Own(s, u)' = Own(s, u)
           /\ \A s, k, a : Passed(s, k, a)' = Passed(s, k, a)
           /\ \A k, a, b : NoFull(k, a, b)' = NoFull(k, a, b)
           /\ \A s, k, o : Version(s, k, o)' = Version(s, k, o)
           /\ \A c : Cutter(c)' = Cutter(c)
<1>1. /\ upd' = upd /\ chain' = chain /\ running' = running /\ current' = current
      /\ pinned_ts' = pinned_ts /\ txn' = txn
  BY DEF Still
<1>2. \A k : Of(k)' = Of(k) /\ Linked(k)' = Linked(k)
  BY <1>1 DEF Of, Linked
<1>3. \A u : Live(u)' = Live(u) /\ Readable(u)' = Readable(u)
  BY <1>1 DEF Live, Readable
<1>4. \A s, u : Visible(s, u)' = Visible(s, u) /\ Own(s, u)' = Own(s, u)
  BY <1>1 DEF Visible, Own
<1>5. \A s, k, a : Passed(s, k, a)' = Passed(s, k, a)
  BY <1>1, <1>2, <1>3, <1>4 DEF Passed
<1>6. \A k, a, b : NoFull(k, a, b)' = NoFull(k, a, b)
  BY <1>1, <1>2, <1>3 DEF NoFull
<1>7. \A s, k, o : Version(s, k, o)' = Version(s, k, o)
  BY <1>1, <1>2, <1>3, <1>4 DEF Version
<1>8. \A c : Cutter(c)' = Cutter(c)
  BY <1>1, <1>3 DEF Cutter, Settled, Active
<1> QED
  BY <1>2, <1>3, <1>4, <1>5, <1>6, <1>7, <1>8

\* A session goes on to the next update, from one that is not for it.
LEMMA WalkOn ==
    ASSUME MvccInv, NEW s \in Sessions, Still, pc[s] \in Traversing,
           WalkTo(s, After(my[s].key, my[s].at)),
           Live(my[s].at) /\ upd[my[s].at].kind # "reserve" => ~ Visible(s, my[s].at),
           my[s].op = "write" => ~ Live(my[s].at)
    PROVE  MvccInv'
<1>k. PICK k : k = my[s].key
  OBVIOUS
<1>a. PICK a : a = my[s].at
  OBVIOUS
<1>o. PICK o : o = my[s].old
  OBVIOUS
<1>n. PICK n : n = After(k, a)
  OBVIOUS
<1>i. Types /\ TxnInv /\ SharedType
  BY DEF MvccInv, Types
<1>1. Walk(s)
  BY DEF MvccInv, Walks, WalkInv
<1>2. /\ my[s].op \in {"read", "write"} /\ k \in Keys /\ a \in Linked(k) /\ Passed(s, k, a)
      /\ my[s].op = "read" => o = NONE
      /\ my[s].op = "write" => o \in Of(k) /\ \A u \in Of(k) : Live(u) /\ u > a => u > o
  BY <1>1, <1>k, <1>a, <1>o DEF Walk
<1>3. ChainInv(k)
  BY <1>2 DEF MvccInv, Chains
<1>4. n \in Linked(k) \cup {NONE} /\ n \in Nat
  BY <1>i, <1>2, <1>3, <1>n, AfterNext
<1>5. \A u \in Of(k) : Live(u) /\ u > n => u >= a
  BY <1>i, <1>2, <1>3, <1>n, AfterLive
<1>6. a \in Nat /\ o \in Nat
  BY <1>a, <1>o, <1>i, TxnTyped DEF Types
<1>7. Live(a) /\ upd[a].kind # "reserve" => ~ Visible(s, a)
  BY <1>a
<1>8. my[s].op = "write" => ~ Live(a)
  BY <1>a
<1>9. \A u \in Of(k) : u \in Nat /\ u >= 1
  BY <1>i, OfDomain
<1>10. Passed(s, k, n)
  <2>1. ASSUME NEW u \in Of(k), Live(u), u > n, upd[u].kind # "reserve" PROVE ~ Visible(s, u)
    <3>1. u >= a
      BY <1>5, <2>1
    <3>2. CASE u = a
      BY <1>7, <2>1, <3>2
    <3>3. CASE u > a
      BY <1>2, <2>1, <3>3 DEF Passed
    <3> QED
      BY <1>6, <1>9, <3>1, <3>2, <3>3
  <2> QED
    BY <2>1 DEF Passed
<1>11. my[s].op = "write" => \A u \in Of(k) : Live(u) /\ u > n => u > o
  <2>1. ASSUME my[s].op = "write", NEW u \in Of(k), Live(u), u > n PROVE u > o
    <3>1. u >= a
      BY <1>5, <2>1
    <3>2. u # a
      BY <1>8, <2>1
    <3>3. u > a
      BY <1>6, <1>9, <3>1, <3>2
    <3> QED
      BY <1>2, <2>1, <3>3
  <2> QED
    BY <2>1
<1>12. WalkTo(s, n)
  BY <1>k, <1>a, <1>n
<1>13. PICK x \in Locals :
          /\ x.op = my[s].op /\ x.key = k /\ x.old = o /\ x.at = n /\ x.first = NONE
          /\ Move(s, IF n # NONE THEN "state" ELSE IF my[s].op = "read" THEN "done"
                     ELSE "modify", x)
  BY <1>i, <1>4, <1>12, <1>k, <1>o, WalkToIs
<1>14. txn[s].state = "running" /\ pc[s] \in Busy
  <2>1. Place(s) /\ pc[s] \in Busy
    BY <1>i, TxnParts DEF Busy
  <2> QED
    BY <2>1 DEF Place
<1>15. CASE n # NONE
  <2>1. Move(s, "state", x)
    BY <1>13, <1>15
  <2>2. pc'[s] = "state" /\ my'[s] = x
    BY <1>i, <2>1, MoveIs DEF Types, Labels
  <2>3. Walk(s)'
    BY <1>2, <1>4, <1>10, <1>11, <1>13, <1>15, <2>2, StillView DEF Walk
  <2>4. WalkInv(s)'
    BY <2>2, <2>3 DEF WalkInv
  <2> QED
    BY <1>14, <2>1, <2>4, LocalStep DEF Busy, Traversing
<1>16. CASE n = NONE /\ my[s].op = "read"
  <2>1. Move(s, "done", x)
    BY <1>13, <1>16
  <2>2. pc'[s] = "done" /\ my'[s] = x
    BY <1>i, <2>1, MoveIs DEF Types, Labels
  <2>3. NoFull(k, n + 1, o)
    BY <1>2, <1>9, <1>16 DEF NoFull, NONE
  <2>4. DoneInv(s)'
    BY <1>2, <1>10, <1>13, <1>16, <2>2, <2>3, StillView DEF DoneInv
  <2>5. WalkInv(s)'
    BY <2>2, <2>4 DEF WalkInv, Traversing
  <2> QED
    BY <1>14, <2>1, <2>5, LocalStep DEF Busy, Traversing
<1>17. CASE n = NONE /\ my[s].op = "write"
  <2>1. Move(s, "modify", x)
    BY <1>13, <1>17
  <2>2. pc'[s] = "modify" /\ my'[s] = x
    BY <1>i, <2>1, MoveIs DEF Types, Labels
  <2>3. \A u \in Of(k) : ~ (Live(u) /\ u <= o)
    BY <1>6, <1>9, <1>11, <1>17 DEF NONE
  <2>4. CheckedInv(s)'
    BY <1>2, <1>13, <1>17, <2>2, <2>3, StillView DEF CheckedInv
  <2>5. WalkInv(s)'
    BY <2>2, <2>4 DEF WalkInv, Traversing
  <2> QED
    BY <1>14, <2>1, <2>5, LocalStep DEF Busy, Traversing
<1> QED
  BY <1>2, <1>15, <1>16, <1>17

LEMMA StillIs ==
    UNCHANGED <<pages, global, txn>> => Still
  BY DEF pages, global, Still

LEMMA WalkSame ==
    ASSUME NEW s, Walk(s), Still,
           /\ my'[s].op = my[s].op /\ my'[s].key = my[s].key
           /\ my'[s].at = my[s].at /\ my'[s].old = my[s].old
    PROVE  Walk(s)'
  BY StillView DEF Walk

LEMMA VisibleLive ==
    ASSUME SessionType, NEW s \in Sessions, NEW u, Visible(s, u)
    PROVE  Live(u)
<1>1. txn[s].seen \in SUBSET Ids /\ txn[s].id \in Nat
  BY TxnTyped
<1>2. ABORTED \notin Ids /\ ABORTED \notin Nat
  BY MvccAssumption DEF ABORTED, Ids
<1> QED
  BY <1>1, <1>2 DEF Visible, Live

LEMMA PlaceRunning ==
    ASSUME MvccInv, NEW s \in Sessions, pc[s] \in Busy
    PROVE  txn[s].state = "running" /\ Active(s)
<1>1. Place(s)
  BY TxnParts DEF MvccInv
<1> QED
  BY <1>1 DEF Place, Active

LEMMA PrepareStateStep ==
    ASSUME MvccInv, NEW s \in Sessions, PrepareState(s)
    PROVE  MvccInv'
<1>i. Types /\ TxnInv /\ Still /\ pc[s] = "state" /\ pc[s] \in Traversing /\ pc[s] \in Busy
  BY StillIs DEF MvccInv, PrepareState, Traversing, Busy
<1>1. Walk(s)
  BY <1>i DEF MvccInv, Walks, WalkInv
<1>2. CASE my[s].op = "read" /\ upd[my[s].at].kind = "reserve"
  <2>1. WalkTo(s, After(my[s].key, my[s].at))
    BY <1>2 DEF PrepareState
  <2> QED
    BY <1>2, <1>i, <2>1, WalkOn
<1>3. CASE ~ (my[s].op = "read" /\ upd[my[s].at].kind = "reserve")
  <2>1. PICK p : p = upd[my[s].at].prepare
    OBVIOUS
  <2>2. PICK x : x = [my[s] EXCEPT !.state = p]
    BY Zenon
  <2>3. my' = [my EXCEPT ![s] = x] /\ pc' = [pc EXCEPT ![s] = "visible"]
    BY <1>3, <2>1, <2>2 DEF PrepareState, Goto
  <2>4. my[s].at \in DOMAIN upd
    <3>1. my[s].key \in Keys /\ my[s].at \in Linked(my[s].key)
      BY <1>1 DEF Walk
    <3> QED
      BY <3>1, LinkedOf DEF MvccInv, Chains, Of
  <2>5. p \in Prepares /\ p # "locked" /\ my[s] \in Locals
    BY <1>i, <2>1, <2>4, UpdTyped, TxnTyped DEF Types, PrepareState
  <2>6. /\ x.op = my[s].op /\ x.key = my[s].key /\ x.at = my[s].at /\ x.old = my[s].old
        /\ x.state = p /\ x \in Locals
    BY <2>2, <2>5 DEF Locals
  <2>7. Move(s, "visible", x)
    BY <2>3 DEF Move
  <2>8. pc'[s] = "visible" /\ my'[s] = x
    BY <1>i, <2>6, <2>7, MoveIs DEF Types, Labels
  <2>9. Walk(s)'
    BY <1>1, <1>i, <2>6, <2>8, WalkSame
  <2>10. upd' = upd
    BY <1>i DEF Still
  <2>11. Found(s)'
    BY <1>3, <2>1, <2>5, <2>6, <2>8, <2>10 DEF Found
  <2>12. WalkInv(s)'
    BY <2>8, <2>9, <2>11 DEF WalkInv
  <2> QED
    BY <1>i, <2>6, <2>7, <2>12, LocalStep, PlaceRunning DEF Busy, Traversing
<1> QED
  BY <1>2, <1>3

LEMMA CheckVisibleStep ==
    ASSUME MvccInv, NEW s \in Sessions, CheckVisible(s)
    PROVE  MvccInv'
<1>i. Types /\ TxnInv /\ Still /\ pc[s] = "visible" /\ pc[s] \in Traversing /\ pc[s] \in Busy
  BY StillIs DEF MvccInv, CheckVisible, Traversing, Busy
<1>1. Walk(s) /\ Found(s)
  BY <1>i DEF MvccInv, Walks, WalkInv
<1>2. PICK a : a = my[s].at
  OBVIOUS
<1>3. PICK vis \in BOOLEAN : vis <=> Visible(s, a)
  <2>1. CASE Visible(s, a)
    BY <2>1
  <2>2. CASE ~ Visible(s, a)
    BY <2>2
  <2> QED
    BY <2>1, <2>2
<1>4. Visible(s, a) \in BOOLEAN
  BY DEF Visible
<1>5. vis = Visible(s, a)
  BY <1>3, <1>4
<1>6. PICK x : x = [my[s] EXCEPT !.vis = vis]
  BY Zenon
<1>7. my' = [my EXCEPT ![s] = x] /\ pc' = [pc EXCEPT ![s] = "recheck"]
  BY <1>2, <1>5, <1>6 DEF CheckVisible, Goto
<1>8. my[s] \in Locals
  BY <1>i, TxnTyped DEF Types
<1>9. /\ x.op = my[s].op /\ x.key = my[s].key /\ x.at = a /\ x.old = my[s].old
      /\ x.state = my[s].state /\ x.vis = vis /\ x \in Locals
  BY <1>2, <1>6, <1>8 DEF Locals
<1>10. Move(s, "recheck", x)
  BY <1>7 DEF Move
<1>11. pc'[s] = "recheck" /\ my'[s] = x
  BY <1>i, <1>9, <1>10, MoveIs DEF Types, Labels
<1>12. Walk(s)'
  BY <1>1, <1>2, <1>i, <1>9, <1>11, WalkSame
<1>13. upd' = upd
  BY <1>i DEF Still
<1>14. Live(a)' = Live(a) /\ Visible(s, a)' = Visible(s, a)
  BY <1>i, StillView
<1>15. Found(s)'
  <2>1. /\ my[s].op = "read" => upd[a].kind # "reserve"
        /\ my[s].state # "locked"
        /\ Live(a) =>
              /\ my[s].state = "resolved" => upd[a].prepare = "resolved"
              /\ my[s].state = "inprogress" => upd[a].prepare # "init"
              /\ my[s].state = "init" /\ Visible(s, a) => upd[a].prepare = "init"
    BY <1>1, <1>2 DEF Found
  <2>2. vis => Live(a)
    BY <1>3, <1>i, VisibleLive DEF Types
  <2> QED
    BY <1>3, <1>9, <1>11, <1>13, <1>14, <2>1, <2>2 DEF Found
<1>16. WalkInv(s)'
  BY <1>11, <1>12, <1>15 DEF WalkInv
<1> QED
  BY <1>i, <1>9, <1>10, <1>16, LocalStep, PlaceRunning DEF Busy, Traversing

-----------------------------------------------------------------------------
(* Steps of a transaction that leave the updates alone. *)

LEMMA UpdQuiet ==
    ASSUME MvccInv, NEW s \in Sessions, upd' = upd, IdStep,
           \A t \in Sessions : t # s => Kept(t),
           current' \in Nat /\ current' >= current,
           \A u \in DOMAIN upd : Live(u) /\ Own(s, u)' => OwnInv(s, u)',
           \A u \in DOMAIN upd : Live(u) /\ Own(s, u) /\ ~ Own(s, u)' =>
              Settled(u)' /\ upd[u].durable # NONE /\ upd[u].kind # "reserve"
    PROVE  UpdInv'
<1>1. ASSUME NEW u \in DOMAIN upd PROVE UpdateInv(u)'
  <2>1. UpdateInv(u)
    BY DEF MvccInv, UpdInv
  <2>2. Live(u)' = Live(u)
    BY DEF Live
  <2>3. ASSUME Live(u) PROVE upd[u].txn < current'
    <3>1. upd[u].txn \in Int /\ current \in Int
      BY UpdTyped, MvccAssumption DEF MvccInv, Types, SharedType
    <3>2. upd[u].txn < current
      BY <2>1, <2>3 DEF UpdateInv
    <3> QED
      BY <3>1, <3>2
  <2>4. ASSUME Live(u), NEW t \in Sessions, Own(t, u)' PROVE OwnInv(t, u)'
    <3>1. CASE t = s
      BY <2>4, <3>1
    <3>2. CASE t # s
      <4>1. pc'[t] = pc[t] /\ my'[t] = my[t] /\ txn'[t] = txn[t]
        BY <3>2 DEF Kept
      <4>2. Own(t, u)
        BY <2>4, <4>1 DEF Own
      <4>3. OwnInv(t, u)
        BY <2>1, <2>4, <4>2 DEF UpdateInv
      <4>4. \A j : Of(j)' = Of(j)
        BY DEF Of
      <4> QED
        BY <4>1, <4>3, <4>4 DEF OwnInv
    <3> QED
      BY <3>1, <3>2
  <2>5. ASSUME Live(u), \A t \in Sessions : ~ Own(t, u)'
        PROVE  Settled(u)' /\ upd[u].durable # NONE /\ upd[u].kind # "reserve"
    <3>1. CASE Own(s, u)
      BY <2>5, <3>1
    <3>2. CASE ~ Own(s, u)
      <4>1. ASSUME NEW t \in Sessions PROVE ~ Own(t, u)
        <5>1. t # s => txn'[t] = txn[t]
          BY DEF Kept
        <5> QED
          BY <2>5, <3>2, <5>1 DEF Own
      <4>2. Settled(u) /\ upd[u].durable # NONE /\ upd[u].kind # "reserve"
        BY <2>1, <2>5, <4>1 DEF UpdateInv
      <4>3. Settled(u)'
        BY <2>5, <4>2, SettledKept
      <4> QED
        BY <4>2, <4>3
    <3> QED
      BY <3>1, <3>2
  <2> QED
    BY <2>1, <2>2, <2>3, <2>4, <2>5 DEF UpdateInv
<1> QED
  BY <1>1 DEF UpdInv

\* The invariant of the transactions, when one changes its place.
LEMMA TxnQuiet ==
    ASSUME MvccInv, NEW s \in Sessions, \A t \in Sessions : t # s => Kept(t),
           upd' = upd \/ \A t \in Sessions, u \in DOMAIN upd :
              t # s /\ Own(t, u) /\ upd[u].prepare = "locked" =>
                 u \in DOMAIN upd' /\ upd'[u] = upd[u],
           Place(s)', IdInv(s)', LockedInv(s)', TableInv',
           \A t \in Sessions : t # s => IdInv(t)'
    PROVE  TxnInv'
<1>1. ASSUME NEW t \in Sessions, t # s PROVE Place(t)' /\ LockedInv(t)'
  <2>1. Place(t) /\ LockedInv(t)
    BY TxnParts DEF MvccInv
  <2>2. pc'[t] = pc[t] /\ my'[t] = my[t] /\ txn'[t] = txn[t]
    BY <1>1 DEF Kept
  <2>3. Place(t)'
    BY <2>1, <2>2 DEF Place
  <2>4. ASSUME pc[t] \in {"stamp", "unlock"}
        PROVE  /\ my[t].at \in DOMAIN upd' /\ upd'[my[t].at].txn = txn[t].id /\ txn[t].id # NONE
               /\ upd'[my[t].at].prepare = "locked"
    <3>1. /\ my[t].at \in DOMAIN upd /\ Own(t, my[t].at)
          /\ upd[my[t].at].prepare = "locked"
      BY <2>1, <2>4 DEF LockedInv
    <3>2. my[t].at \in DOMAIN upd' /\ upd'[my[t].at] = upd[my[t].at]
      BY <1>1, <3>1
    <3> QED
      BY <3>1, <3>2 DEF Own
  <2> QED
    BY <2>2, <2>3, <2>4 DEF LockedInv, Own
<1> QED
  BY <1>1 DEF TxnInv

LEMMA TxnStep ==
    ASSUME MvccInv, NEW s \in Sessions, upd' = upd, chain' = chain,
           IdStep, SnapStep, OrderStep, \A t \in Sessions : t # s => Kept(t),
           Types', TxnInv', UpdInv', WalkInv(s)'
    PROVE  MvccInv'
<1>1. Ordered' /\ Chains'
  BY OrderedQuiet, ChainsQuiet
<1>2. ASSUME NEW t \in Sessions PROVE WalkInv(t)'
  <2>1. CASE t = s
    BY <2>1
  <2>2. CASE t # s
    BY <2>2, WalksQuiet
  <2> QED
    BY <2>1, <2>2
<1> QED
  BY <1>1, <1>2 DEF MvccInv, Walks

\* A write meets a conflict.
LEMMA ConflictStep ==
    ASSUME MvccInv, NEW s \in Sessions, pc[s] = "recheck",
           txn' = [txn EXCEPT ![s].state = "error"], my' = [my EXCEPT ![s] = NoLocals],
           pc' = [pc EXCEPT ![s] = "idle"], UNCHANGED <<pages, global>>
    PROVE  MvccInv'
<1>i. /\ Types /\ TxnInv /\ UpdInv /\ txn[s].state = "running"
  BY PlaceRunning DEF MvccInv, Busy, Traversing
<1>1. /\ upd' = upd /\ chain' = chain /\ running' = running /\ current' = current
      /\ pinned_ts' = pinned_ts
  BY DEF pages, global
<1>2. PICK x : x = [txn[s] EXCEPT !.state = "error"]
  BY Zenon
<1>3. txn' = [txn EXCEPT ![s] = x]
  BY <1>2
<1>4. txn[s] \in Txns
  BY <1>i, TxnTyped DEF Types
<1>5. /\ x \in Txns /\ x.state = "error" /\ x.id = txn[s].id /\ x.seen = txn[s].seen
      /\ x.read = txn[s].read /\ x.prepare = txn[s].prepare
  BY <1>2, <1>4 DEF Txns
<1>6. Move(s, "idle", NoLocals)
  BY DEF Move
<1>7. /\ pc' \in [Sessions -> Labels] /\ my' \in [Sessions -> Locals]
      /\ pc'[s] = "idle" /\ my'[s] = NoLocals
      /\ \A t \in Sessions : t # s => pc'[t] = pc[t] /\ my'[t] = my[t]
  BY <1>i, <1>6, MoveIs, NoLocalsIs DEF Types, Labels
<1>8. /\ txn' \in [Sessions -> Txns] /\ txn'[s] = x
      /\ \A t \in Sessions : t # s => txn'[t] = txn[t]
  BY <1>i, <1>3, <1>5 DEF Types, SessionType
<1>9. \A t \in Sessions : t # s => Kept(t)
  BY <1>7, <1>8 DEF Kept
<1>10. Types'
  BY <1>i, <1>1, <1>7, <1>8 DEF Types, SharedType, SessionType
<1>11. \A t \in Sessions : /\ txn'[t].id = txn[t].id /\ txn'[t].seen = txn[t].seen
                           /\ txn'[t].read = txn[t].read
                           /\ txn'[t].state = "running" => txn[t].state = "running"
                           /\ (txn'[t].state = "prepared" <=> txn[t].state = "prepared")
  BY <1>i, <1>5, <1>8
<1>12. IdStep /\ SnapStep /\ OrderStep
  <2>1. pinned_ts \in Nat
    BY <1>i DEF Types, SharedType
  <2> QED
    BY <1>1, <1>11, <2>1 DEF IdStep, SnapStep, OrderStep, Active
<1>13. TxnInv'
  <2>1. ASSUME NEW t \in Sessions PROVE IdInv(t)'
    <3>1. IdInv(t)
      BY <1>i, TxnParts
    <3> QED
      BY <1>1, <1>11, <3>1 DEF IdInv
  <2>2. Place(s)'
    BY <1>5, <1>7, <1>8 DEF Place, Busy, Traversing, Resolving
  <2>3. LockedInv(s)' /\ TableInv'
    BY <1>1, <1>7, <1>i DEF LockedInv, TableInv, TxnInv
  <2> QED
    BY <1>1, <1>9, <2>1, <2>2, <2>3, TxnQuiet
<1>14. UpdInv'
  <2>1. \A t \in Sessions : \A u : Own(t, u)' = Own(t, u)
    BY <1>1, <1>11 DEF Own
  <2>2. ASSUME NEW u \in DOMAIN upd, Live(u), Own(s, u) PROVE OwnInv(s, u)'
    <3>1. OwnInv(s, u)
      BY <1>i, <2>2 DEF UpdInv, UpdateInv
    <3> QED
      BY <1>1, <1>i, <1>5, <1>7, <1>8, <3>1 DEF OwnInv, Resolving
  <2>3. current \in Nat
    BY <1>i, MvccAssumption DEF Types, SharedType
  <2> QED
    BY <1>1, <1>9, <1>12, <2>1, <2>2, <2>3, UpdQuiet
<1>15. WalkInv(s)'
  BY <1>7 DEF WalkInv, Traversing
<1> QED
  BY <1>1, <1>9, <1>10, <1>12, <1>13, <1>14, <1>15, TxnStep

LEMMA SessionStep ==
    ASSUME SessionType, NEW s \in Sessions, NEW x \in Txns, NEW label \in Labels,
           NEW y \in Locals, txn' = [txn EXCEPT ![s] = x], Move(s, label, y)
    PROVE  /\ SessionType' /\ txn'[s] = x /\ pc'[s] = label /\ my'[s] = y
           /\ \A t \in Sessions : t # s => Kept(t)
<1>1. /\ pc' \in [Sessions -> Labels] /\ my' \in [Sessions -> Locals]
      /\ pc'[s] = label /\ my'[s] = y
      /\ \A t \in Sessions : t # s => pc'[t] = pc[t] /\ my'[t] = my[t]
  BY MoveIs
<1>2. /\ txn' \in [Sessions -> Txns] /\ txn'[s] = x
      /\ \A t \in Sessions : t # s => txn'[t] = txn[t]
  BY DEF SessionType
<1> QED
  BY <1>1, <1>2 DEF SessionType, Kept

-----------------------------------------------------------------------------
(* The state is read again, and what was found out about the update holds. *)

LEMMA RecheckFacts ==
    ASSUME MvccInv, NEW s \in Sessions, pc[s] = "recheck"
    PROVE  /\ my[s].at \in Linked(my[s].key) /\ my[s].at \in Of(my[s].key)
           /\ my[s].at \in DOMAIN upd /\ my[s].at # NONE
           /\ my[s].key \in Keys /\ my[s].op \in {"read", "write"}
           /\ Walk(s) /\ Found(s) /\ pc[s] \in Traversing /\ pc[s] \in Busy
<1>1. Walk(s) /\ Found(s) /\ pc[s] \in Traversing /\ pc[s] \in Busy
  BY DEF MvccInv, Walks, WalkInv, Traversing, Busy
<1>2. /\ my[s].key \in Keys /\ my[s].at \in Linked(my[s].key) /\ my[s].op \in {"read", "write"}
  BY <1>1 DEF Walk
<1>3. my[s].at \in Of(my[s].key)
  BY <1>2, LinkedOf DEF MvccInv, Chains
<1> QED
  BY <1>1, <1>2, <1>3, OfDomain DEF MvccInv, Types, NONE

LEMMA WalkAgain ==
    ASSUME MvccInv, NEW s \in Sessions, Still, pc[s] = "recheck", WalkTo(s, my[s].at)
    PROVE  MvccInv'
<1>1. /\ my[s].at # NONE /\ Walk(s) /\ pc[s] \in Busy /\ Types
  BY RecheckFacts DEF MvccInv
<1>2. my[s].at \in Nat
  BY <1>1, TxnTyped DEF Types
<1>3. PICK x \in Locals :
         /\ x.op = my[s].op /\ x.key = my[s].key /\ x.old = my[s].old /\ x.at = my[s].at
         /\ Move(s, IF my[s].at # NONE THEN "state" ELSE IF my[s].op = "read" THEN "done"
                    ELSE "modify", x)
  BY <1>1, <1>2, WalkToIs
<1>4. Move(s, "state", x)
  BY <1>1, <1>3
<1>5. pc'[s] = "state" /\ my'[s] = x
  BY <1>1, <1>4, MoveIs DEF Types, Labels
<1>6. WalkInv(s)'
  BY <1>1, <1>3, <1>5, WalkSame DEF WalkInv
<1> QED
  BY <1>1, <1>4, <1>6, LocalStep, PlaceRunning DEF Busy, Traversing

\* The first update that a session may read.
LEMMA FoundReadable ==
    ASSUME MvccInv, NEW s \in Sessions, pc[s] = "recheck", my[s].vis,
           upd[my[s].at].prepare = my[s].state, my[s].state # "inprogress"
    PROVE  Live(my[s].at) /\ Visible(s, my[s].at) /\ Readable(my[s].at)
<1>1. PICK a : a = my[s].at
  OBVIOUS
<1>2. PICK e : e = my[s].state
  OBVIOUS
<1>3. /\ e # "locked" /\ a \in DOMAIN upd
      /\ Live(a) /\ upd[a].prepare = e => (my[s].vis <=> Visible(s, a))
      /\ e = "init" /\ my[s].vis => Live(a) /\ Visible(s, a)
  <2>1. Found(s) /\ a \in DOMAIN upd
    BY <1>1, RecheckFacts
  <2> QED
    BY <1>1, <1>2, <2>1 DEF Found
<1>4. e \in {"init", "resolved"}
  <2>1. e \in Prepares
    BY <1>2, TxnTyped DEF MvccInv, Types
  <2> QED
    BY <1>2, <1>3, <2>1 DEF Prepares
<1>5. Live(a)
  <2>1. CASE e = "init"
    BY <1>3, <2>1
  <2>2. CASE e = "resolved"
    <3>1. UpdateInv(a)
      BY <1>3 DEF MvccInv, UpdInv
    <3>2. upd[a].prepare = "resolved"
      BY <1>1, <1>2, <2>2
    <3> QED
      BY <3>1, <3>2 DEF UpdateInv
  <2> QED
    BY <1>4, <2>1, <2>2
<1>6. Visible(s, a)
  BY <1>1, <1>2, <1>3, <1>5
<1>7. Readable(a)
  BY <1>1, <1>2, <1>4 DEF Readable
<1> QED
  BY <1>1, <1>5, <1>6, <1>7

LEMMA ReadNextStep ==
    ASSUME MvccInv, NEW s \in Sessions, Still, pc[s] = "recheck", my[s].op = "read",
           upd[my[s].at].prepare = my[s].state,
           ReadNext(s, my[s].vis, my[s].state = "inprogress")
    PROVE  MvccInv'
<1>1. /\ Walk(s) /\ Found(s) /\ pc[s] \in Traversing /\ pc[s] \in Busy /\ Types
      /\ my[s].at \in DOMAIN upd
  BY RecheckFacts DEF MvccInv
<1>2. CASE ~ my[s].vis
  <2>1. WalkTo(s, After(my[s].key, my[s].at))
    BY <1>2 DEF ReadNext
  <2>2. Live(my[s].at) => ~ Visible(s, my[s].at)
    BY <1>1, <1>2 DEF Found
  <2> QED
    BY <1>1, <2>1, <2>2, WalkOn
<1>3. CASE my[s].vis /\ my[s].state = "inprogress"
  <2>1. Move(s, "idle", NoLocals)
    BY <1>3 DEF ReadNext, Goto, Move
  <2>2. pc'[s] = "idle"
    BY <1>1, <2>1, MoveIs, NoLocalsIs DEF Types, Labels
  <2>3. WalkInv(s)'
    BY <2>2 DEF WalkInv, Traversing
  <2> QED
    BY <1>1, <2>1, <2>3, LocalStep, PlaceRunning, NoLocalsIs
<1>4. CASE my[s].vis /\ my[s].state # "inprogress"
  <2>k. PICK k : k = my[s].key
    OBVIOUS
  <2>a. PICK a : a = my[s].at
    OBVIOUS
  <2>1. Live(a) /\ Visible(s, a) /\ Readable(a)
    BY <1>4, <2>a, FoundReadable
  <2>2. /\ upd[a].kind \in Kinds /\ upd[a].kind # "reserve" /\ a \in Nat /\ a # NONE
        /\ a \in Of(k) /\ a \in Linked(k) /\ k \in Keys /\ Passed(s, k, a)
    <3>1. upd[a].kind # "reserve"
      BY <1>1, <2>a DEF Found
    <3>2. a \in Of(k) /\ a \in Linked(k) /\ k \in Keys /\ a # NONE
      BY <2>a, <2>k, RecheckFacts
    <3>3. Passed(s, k, a)
      BY <1>1, <2>a, <2>k DEF Walk
    <3>4. upd[a].kind \in Kinds /\ a \in Nat
      BY <1>1, <2>a, UpdTyped DEF Types
    <3> QED
      BY <3>1, <3>2, <3>3, <3>4
  <2>3. Version(s, k, a)
    BY <2>1, <2>2 DEF Version
  <2>4. PICK x : x = [NoLocals EXCEPT !.op = "read", !.key = k, !.at = a, !.old = a]
    BY Zenon
  <2>5. x \in Locals /\ x.op = "read" /\ x.key = k /\ x.at = a /\ x.old = a
    BY <2>2, <2>4, NoLocalsIs DEF NoLocals, Locals, Prepares
  <2>6. my' = [my EXCEPT ![s] = x]
    BY <1>4, <2>a, <2>k, <2>4 DEF ReadNext
  <2>7. pc' = [pc EXCEPT ![s] = IF upd[a].kind = "modify" THEN "base" ELSE "done"]
    BY <1>4, <2>a DEF ReadNext, Goto
  <2>8. CASE upd[a].kind = "modify"
    <3>1. Move(s, "base", x)
      BY <2>6, <2>7, <2>8 DEF Move
    <3>2. pc'[s] = "base" /\ my'[s] = x
      BY <1>1, <2>5, <3>1, MoveIs DEF Types, Labels
    <3>3. NoFull(k, a, a)
      <4>1. ASSUME NEW u \in Of(k), a <= u, u <= a PROVE u = a
        <5>1. u \in Nat
          BY <1>1, OfDomain DEF Types
        <5> QED
          BY <2>2, <4>1, <5>1
      <4> QED
        BY <2>8, <4>1 DEF NoFull
    <3>4. BaseInv(s)'
      BY <2>2, <2>3, <2>5, <3>2, <3>3, StillView DEF BaseInv
    <3>5. WalkInv(s)'
      BY <3>2, <3>4 DEF WalkInv, Traversing
    <3> QED
      BY <1>1, <2>5, <3>1, <3>5, LocalStep, PlaceRunning DEF Busy, Traversing
  <2>9. CASE upd[a].kind # "modify"
    <3>1. Move(s, "done", x)
      BY <2>6, <2>7, <2>9 DEF Move
    <3>2. pc'[s] = "done" /\ my'[s] = x
      BY <1>1, <2>5, <3>1, MoveIs DEF Types, Labels
    <3>3. NoFull(k, a + 1, a)
      <4>1. ASSUME NEW u \in Of(k), a + 1 <= u, u <= a PROVE FALSE
        <5>1. u \in Nat
          BY <1>1, OfDomain DEF Types
        <5> QED
          BY <2>2, <4>1, <5>1
      <4> QED
        BY <4>1 DEF NoFull
    <3>4. upd[a].kind = "standard"
      BY <2>2, <2>9 DEF Kinds
    <3>5. upd' = upd
      BY DEF Still
    <3>6. DoneInv(s)'
      BY <2>1, <2>2, <2>3, <2>5, <3>2, <3>3, <3>4, <3>5, StillView DEF DoneInv
    <3>7. WalkInv(s)'
      BY <3>2, <3>6 DEF WalkInv, Traversing
    <3> QED
      BY <1>1, <2>5, <3>1, <3>7, LocalStep, PlaceRunning DEF Busy, Traversing
  <2> QED
    BY <2>8, <2>9
<1> QED
  BY <1>2, <1>3, <1>4

\* A write that finds an update it may read has met no conflict in the whole chain.
LEMMA NoConflict ==
    ASSUME MvccInv, NEW s \in Sessions, Still, pc[s] = "recheck", my[s].op = "write", my[s].vis,
           upd[my[s].at].prepare = my[s].state, my[s].state # "inprogress", WalkTo(s, NONE)
    PROVE  MvccInv'
<1>k. PICK k : k = my[s].key
  OBVIOUS
<1>a. PICK a : a = my[s].at
  OBVIOUS
<1>o. PICK o : o = my[s].old
  OBVIOUS
<1>1. /\ Walk(s) /\ pc[s] \in Busy /\ Types /\ TxnInv /\ UpdInv /\ Ordered
      /\ a \in Of(k) /\ k \in Keys
  BY <1>a, <1>k, RecheckFacts DEF MvccInv
<1>2. Live(a) /\ Visible(s, a) /\ Readable(a)
  BY <1>a, FoundReadable
<1>3. o \in Of(k) /\ \A u \in Of(k) : Live(u) /\ u > a => u > o
  BY <1>1, <1>k, <1>a, <1>o DEF Walk
<1>4. \A u \in Of(k) : u \in Nat
  BY <1>1, OfDomain DEF Types
<1>5. ASSUME NEW u \in Of(k), Live(u), u <= o PROVE Visible(s, u) /\ Readable(u)
  <2>1. u <= a
    BY <1>1, <1>3, <1>4, <1>5
  <2>2. Active(s)
    BY <1>1, PlaceRunning
  <2> QED
    BY <1>1, <1>2, <1>5, <2>1, <2>2, VisibleOlder
<1>6. PICK x \in Locals :
         /\ x.op = my[s].op /\ x.key = k /\ x.old = o /\ x.at = NONE
         /\ Move(s, IF NONE # NONE THEN "state" ELSE IF my[s].op = "read" THEN "done"
                    ELSE "modify", x)
  BY <1>1, <1>k, <1>o, WalkToIs DEF NONE
<1>7. Move(s, "modify", x)
  BY <1>6
<1>8. pc'[s] = "modify" /\ my'[s] = x
  BY <1>1, <1>7, MoveIs DEF Types, Labels
<1>9. CheckedInv(s)'
  BY <1>1, <1>3, <1>5, <1>6, <1>8, StillView DEF CheckedInv
<1>10. WalkInv(s)'
  BY <1>8, <1>9 DEF WalkInv, Traversing
<1> QED
  BY <1>1, <1>7, <1>10, LocalStep, PlaceRunning DEF Busy, Traversing

LEMMA RecheckStep ==
    ASSUME MvccInv, NEW s \in Sessions, Recheck(s)
    PROVE  MvccInv'
<1>1. pc[s] = "recheck" /\ UNCHANGED <<pages, global>>
  BY DEF Recheck
<1>2. my[s].op \in {"read", "write"} /\ pc[s] \in Traversing
  BY <1>1, RecheckFacts
<1>3. txn' = txn => Still
  BY <1>1 DEF pages, global, Still
<1>4. CASE upd[my[s].at].prepare # my[s].state
  BY <1>1, <1>3, <1>4, WalkAgain DEF Recheck
<1>5. CASE upd[my[s].at].prepare = my[s].state /\ my[s].op = "read"
  <2>1. ReadNext(s, my[s].vis, my[s].state = "inprogress")
    BY <1>5 DEF Recheck, Decide
  <2>2. Still
    BY <1>3, <2>1 DEF ReadNext
  <2> QED
    BY <1>1, <1>5, <2>1, <2>2, ReadNextStep
<1>6. CASE upd[my[s].at].prepare = my[s].state /\ my[s].op = "write"
  <2>1. ModifyNext(s, my[s].vis, my[s].state = "inprogress")
    BY <1>6 DEF Recheck, Decide
  <2>2. CASE my[s].vis /\ my[s].state # "inprogress"
    <3>1. WalkTo(s, NONE) /\ Still
      BY <1>3, <2>1, <2>2 DEF ModifyNext
    <3> QED
      BY <1>1, <1>6, <2>2, <3>1, NoConflict
  <2>3. CASE ~ (my[s].vis /\ my[s].state # "inprogress") /\ upd[my[s].at].txn = ABORTED
    <3>1. WalkTo(s, After(my[s].key, my[s].at)) /\ Still
      BY <1>3, <2>1, <2>3 DEF ModifyNext
    <3>2. ~ Live(my[s].at)
      BY <2>3 DEF Live
    <3> QED
      BY <1>2, <3>1, <3>2, WalkOn
  <2>4. CASE ~ (my[s].vis /\ my[s].state # "inprogress") /\ upd[my[s].at].txn # ABORTED
    <3>1. /\ txn' = [txn EXCEPT ![s].state = "error"] /\ my' = [my EXCEPT ![s] = NoLocals]
          /\ pc' = [pc EXCEPT ![s] = "idle"]
      BY <2>1, <2>4 DEF ModifyNext, Goto
    <3> QED
      BY <1>1, <3>1, ConflictStep
  <2> QED
    BY <2>2, <2>3, <2>4
<1> QED
  BY <1>2, <1>4, <1>5, <1>6

-----------------------------------------------------------------------------
(* Starting a walk, looking for a base, scanning. *)

LEMMA AtHead ==
    ASSUME MvccInv, NEW s \in Sessions, NEW k \in Keys
    PROVE  /\ Head1(k) \in Nat /\ Passed(s, k, Head1(k))
           /\ \A u \in Of(k) : Live(u) => u <= Head1(k)
           /\ chain[k] = <<>> => Head1(k) = NONE
           /\ chain[k] # <<>> => Head1(k) \in Linked(k) /\ Head1(k) \in Of(k)
<1>1. SharedType /\ ChainInv(k)
  BY DEF MvccInv, Types, Chains
<1>2. Head1(k) \in Nat
  BY <1>1, HeadNat
<1>3. \A u \in Of(k) : Live(u) => u <= Head1(k)
  BY <1>1, HeadLive
<1>4. Passed(s, k, Head1(k))
  <2>1. \A u \in Of(k) : u \in Nat
    BY <1>1, OfDomain
  <2>2. \A u \in Of(k) : Live(u) => ~ (u > Head1(k))
    BY <1>2, <1>3, <2>1
  <2> QED
    BY <2>2 DEF Passed
<1>5. chain[k] = <<>> => Head1(k) = NONE
  BY HeadNone
<1>6. chain[k] # <<>> => Head1(k) \in Linked(k) /\ Head1(k) \in Of(k)
  BY <1>1, HeadTop, LinkedOf
<1> QED
  BY <1>2, <1>3, <1>4, <1>5, <1>6

LEMMA ReadStartStep ==
    ASSUME MvccInv, NEW s \in Sessions, NEW k \in Keys, ReadStart(s, k)
    PROVE  MvccInv'
<1>1. PICK h : h = Head1(k)
  OBVIOUS
<1>2. /\ pc[s] = "idle" /\ Still /\ txn[s].state = "running" /\ Types
  BY StillIs DEF ReadStart, Active, MvccInv
<1>3. /\ h \in Nat /\ Passed(s, k, h)
      /\ chain[k] = <<>> => h = NONE
      /\ chain[k] # <<>> => h \in Linked(k)
  BY <1>1, AtHead
<1>4. PICK x : x = [NoLocals EXCEPT !.op = "read", !.key = k, !.at = h]
  BY Zenon
<1>5. x \in Locals /\ x.op = "read" /\ x.key = k /\ x.at = h /\ x.old = NONE
  BY <1>3, <1>4, NoLocalsIs DEF NoLocals, Locals
<1>6. my' = [my EXCEPT ![s] = x]
  BY <1>1, <1>4 DEF ReadStart
<1>7. pc' = [pc EXCEPT ![s] = IF chain[k] = <<>> THEN "done" ELSE "state"]
  BY DEF ReadStart, Goto
<1>8. CASE chain[k] = <<>>
  <2>1. Move(s, "done", x)
    BY <1>6, <1>7, <1>8 DEF Move
  <2>2. pc'[s] = "done" /\ my'[s] = x
    BY <1>2, <1>5, <2>1, MoveIs DEF Types, Labels
  <2>3. NoFull(k, NONE + 1, NONE)
    <3>1. \A u \in Of(k) : u \in Nat
      BY <1>2, OfDomain DEF Types
    <3> QED
      BY <3>1 DEF NoFull, NONE
  <2>4. DoneInv(s)'
    BY <1>2, <1>3, <1>5, <1>8, <2>2, <2>3, StillView DEF DoneInv
  <2>5. WalkInv(s)'
    BY <2>2, <2>4 DEF WalkInv, Traversing
  <2> QED
    BY <1>2, <1>5, <2>1, <2>5, LocalStep DEF Busy, Traversing
<1>9. CASE chain[k] # <<>>
  <2>1. Move(s, "state", x)
    BY <1>6, <1>7, <1>9 DEF Move
  <2>2. pc'[s] = "state" /\ my'[s] = x
    BY <1>2, <1>5, <2>1, MoveIs DEF Types, Labels
  <2>3. Walk(s)'
    BY <1>2, <1>3, <1>5, <1>9, <2>2, StillView DEF Walk
  <2>4. WalkInv(s)'
    BY <2>2, <2>3 DEF WalkInv, Traversing
  <2> QED
    BY <1>2, <1>5, <2>1, <2>4, LocalStep DEF Busy, Traversing
<1> QED
  BY <1>8, <1>9

LEMMA WriteStartStep ==
    ASSUME MvccInv, NEW s \in Sessions, NEW k \in Keys, WriteStart(s, k)
    PROVE  MvccInv'
<1>1. PICK h : h = Head1(k)
  OBVIOUS
<1>2. /\ pc[s] = "idle" /\ Still /\ txn[s].state = "running" /\ Types
  BY StillIs DEF WriteStart, Active, MvccInv
<1>3. /\ h \in Nat /\ Passed(s, k, h) /\ \A u \in Of(k) : Live(u) => u <= h
      /\ chain[k] = <<>> => h = NONE
      /\ chain[k] # <<>> => h \in Linked(k) /\ h \in Of(k)
  BY <1>1, AtHead
<1>4. PICK x : x = [NoLocals EXCEPT !.op = "write", !.key = k, !.at = h, !.old = h]
  BY Zenon
<1>5. x \in Locals /\ x.op = "write" /\ x.key = k /\ x.at = h /\ x.old = h
  BY <1>3, <1>4, NoLocalsIs DEF NoLocals, Locals
<1>6. my' = [my EXCEPT ![s] = x]
  BY <1>1, <1>4 DEF WriteStart
<1>7. pc' = [pc EXCEPT ![s] = IF chain[k] = <<>> THEN "modify" ELSE "state"]
  BY DEF WriteStart, Goto
<1>8. \A u \in Of(k) : u \in Nat /\ u >= 1
  BY <1>2, OfDomain DEF Types
<1>9. CASE chain[k] = <<>>
  <2>1. Move(s, "modify", x)
    BY <1>6, <1>7, <1>9 DEF Move
  <2>2. pc'[s] = "modify" /\ my'[s] = x
    BY <1>2, <1>5, <2>1, MoveIs DEF Types, Labels
  <2>3. h = NONE /\ \A u \in Of(k) : ~ (Live(u) /\ u <= h)
    BY <1>3, <1>8, <1>9 DEF NONE
  <2>4. CheckedInv(s)'
    BY <1>2, <1>5, <2>2, <2>3, StillView DEF CheckedInv
  <2>5. WalkInv(s)'
    BY <2>2, <2>4 DEF WalkInv, Traversing
  <2> QED
    BY <1>2, <1>5, <2>1, <2>5, LocalStep DEF Busy, Traversing
<1>10. CASE chain[k] # <<>>
  <2>1. Move(s, "state", x)
    BY <1>6, <1>7, <1>10 DEF Move
  <2>2. pc'[s] = "state" /\ my'[s] = x
    BY <1>2, <1>5, <2>1, MoveIs DEF Types, Labels
  <2>3. Walk(s)'
    BY <1>2, <1>3, <1>5, <1>10, <2>2, StillView DEF Walk
  <2>4. WalkInv(s)'
    BY <2>2, <2>3 DEF WalkInv, Traversing
  <2> QED
    BY <1>2, <1>5, <2>1, <2>4, LocalStep DEF Busy, Traversing
<1> QED
  BY <1>9, <1>10

LEMMA ReadDoneStep ==
    ASSUME MvccInv, NEW s \in Sessions, ReadDone(s)
    PROVE  MvccInv'
<1>1. pc[s] = "done" /\ pc[s] \in Busy /\ Still /\ Types
  BY StillIs DEF ReadDone, Busy, MvccInv
<1>2. Move(s, "idle", NoLocals)
  BY DEF ReadDone, Goto, Move
<1>3. pc'[s] = "idle"
  BY <1>1, <1>2, MoveIs, NoLocalsIs DEF Types, Labels
<1>4. WalkInv(s)'
  BY <1>3 DEF WalkInv, Traversing
<1> QED
  BY <1>1, <1>2, <1>4, LocalStep, PlaceRunning, NoLocalsIs

LEMMA FindBaseStep ==
    ASSUME MvccInv, NEW s \in Sessions, FindBase(s)
    PROVE  MvccInv'
<1>k. PICK k : k = my[s].key
  OBVIOUS
<1>a. PICK a : a = my[s].at
  OBVIOUS
<1>o. PICK o : o = my[s].old
  OBVIOUS
<1>n. PICK n : n = After(k, a)
  OBVIOUS
<1>1. pc[s] = "base" /\ pc[s] \in Busy /\ Still /\ Types /\ SharedType
  BY StillIs DEF FindBase, Busy, MvccInv, Types
<1>2. BaseInv(s)
  BY <1>1 DEF MvccInv, Walks, WalkInv
<1>3. /\ my[s].op = "read" /\ k \in Keys /\ a \in Linked(k)
      /\ Version(s, k, o) /\ Passed(s, k, o) /\ a <= o /\ NoFull(k, a, o)
  BY <1>2, <1>k, <1>a, <1>o DEF BaseInv
<1>4. ChainInv(k)
  BY <1>3 DEF MvccInv, Chains
<1>5. n \in Linked(k) \cup {NONE} /\ n \in Nat /\ n < a
  BY <1>1, <1>3, <1>4, <1>n, AfterNext
<1>6. \A u \in Of(k) : Live(u) /\ u > n => u >= a
  BY <1>1, <1>3, <1>4, <1>n, AfterLive
<1>7. a \in Nat /\ o \in Nat /\ my[s] \in Locals
  BY <1>1, <1>a, <1>o, TxnTyped DEF Types
<1>8. \A u \in Of(k) : u \in Nat /\ u >= 1
  BY <1>1, OfDomain
<1>9. PICK x : x = [my[s] EXCEPT !.at = n]
  BY Zenon
<1>10. x \in Locals /\ x.op = "read" /\ x.key = k /\ x.at = n /\ x.old = o
  BY <1>3, <1>5, <1>7, <1>9, <1>k, <1>o DEF Locals
<1>11. my' = [my EXCEPT ![s] = x]
  BY <1>k, <1>a, <1>n, <1>9 DEF FindBase
<1>12. pc' = [pc EXCEPT ![s] = IF n = NONE \/ (Live(n) /\ upd[n].kind = "standard")
                               THEN "done" ELSE "base"]
  BY <1>k, <1>a, <1>n DEF FindBase, Goto, Live
<1>13. NoFull(k, n + 1, o)
  <2>1. ASSUME NEW u \in Of(k), n + 1 <= u, u <= o, Live(u) PROVE upd[u].kind # "standard"
    <3>1. u > n
      BY <1>5, <1>8, <2>1
    <3>2. a <= u
      BY <1>6, <1>7, <1>8, <2>1, <3>1
    <3> QED
      BY <1>3, <2>1, <3>2 DEF NoFull
  <2> QED
    BY <2>1 DEF NoFull
<1>14. n <= o
  BY <1>3, <1>5, <1>7
<1>15. n # NONE => n \in Of(k)
  BY <1>3, <1>4, <1>5, LinkedOf
<1>16. CASE n = NONE \/ (Live(n) /\ upd[n].kind = "standard")
  <2>1. Move(s, "done", x)
    BY <1>11, <1>12, <1>16 DEF Move
  <2>2. pc'[s] = "done" /\ my'[s] = x
    BY <1>1, <1>10, <2>1, MoveIs DEF Types, Labels
  <2>3. o # NONE
    BY <1>3, <1>8 DEF Version, NONE
  <2>4. upd' = upd
    BY <1>1 DEF Still
  <2>5. DoneInv(s)'
    BY <1>1, <1>3, <1>10, <1>13, <1>14, <1>15, <1>16, <2>2, <2>3, <2>4, StillView DEF DoneInv
  <2>6. WalkInv(s)'
    BY <2>2, <2>5 DEF WalkInv, Traversing
  <2> QED
    BY <1>1, <1>10, <2>1, <2>6, LocalStep, PlaceRunning DEF Busy, Traversing
<1>17. CASE ~ (n = NONE \/ (Live(n) /\ upd[n].kind = "standard"))
  <2>1. Move(s, "base", x)
    BY <1>11, <1>12, <1>17 DEF Move
  <2>2. pc'[s] = "base" /\ my'[s] = x
    BY <1>1, <1>10, <2>1, MoveIs DEF Types, Labels
  <2>3. NoFull(k, n, o)
    <3>1. ASSUME NEW u \in Of(k), n <= u, u <= o, Live(u) PROVE upd[u].kind # "standard"
      <4>1. u = n \/ n + 1 <= u
        BY <1>5, <1>8, <3>1
      <4>2. CASE u = n
        BY <1>17, <3>1, <4>2
      <4>3. CASE n + 1 <= u
        BY <1>13, <3>1, <4>3 DEF NoFull
      <4> QED
        BY <4>1, <4>2, <4>3
    <3> QED
      BY <3>1 DEF NoFull
  <2>4. n \in Linked(k)
    BY <1>5, <1>17
  <2>5. BaseInv(s)'
    BY <1>1, <1>3, <1>10, <1>14, <2>2, <2>3, <2>4, StillView DEF BaseInv
  <2>6. WalkInv(s)'
    BY <2>2, <2>5 DEF WalkInv, Traversing
  <2> QED
    BY <1>1, <1>10, <2>1, <2>6, LocalStep, PlaceRunning DEF Busy, Traversing
<1> QED
  BY <1>16, <1>17

LEMMA ScanStep ==
    ASSUME MvccInv, NEW s \in Sessions, Scan(s)
    PROVE  MvccInv'
<1>k. PICK k : k = my[s].key
  OBVIOUS
<1>a. PICK a : a = my[s].at
  OBVIOUS
<1>f. PICK f : f = my[s].first
  OBVIOUS
<1>n. PICK n : n = After(k, a)
  OBVIOUS
<1>g. PICK g : g = IF upd[a].txn = ABORTED THEN f ELSE First(s)
  OBVIOUS
<1>1. pc[s] = "scan" /\ pc[s] \in Busy /\ Still /\ Types /\ SharedType /\ TxnInv /\ UpdInv
  BY DEF Scan, Busy, MvccInv, Types, Still, pages, global
<1>2. ScanInv(s)
  BY <1>1 DEF MvccInv, Walks, WalkInv
<1>3. a # NONE
  BY <1>a DEF Scan
<1>4. /\ k \in Keys /\ a \in Linked(k)
      /\ f # NONE => f \in Linked(k) /\ Cutter(f) /\ a < f
      /\ \E w \in Linked(k) : Live(w) /\ Own(s, w) /\ w > a /\ w > f
  BY <1>2, <1>3, <1>k, <1>a, <1>f DEF ScanInv
<1>5. ChainInv(k)
  BY <1>4 DEF MvccInv, Chains
<1>6. n \in Linked(k) \cup {NONE} /\ n \in Nat /\ n < a
  BY <1>1, <1>4, <1>5, <1>n, AfterNext
<1>7. a \in Nat /\ f \in Nat /\ my[s] \in Locals /\ a \in Of(k) /\ a \in DOMAIN upd
  <2>1. a \in Of(k) /\ a \in DOMAIN upd
    BY <1>1, <1>4, <1>5, LinkedOf, OfDomain
  <2> QED
    BY <1>1, <1>a, <1>f, <2>1, TxnTyped DEF Types
<1>8. \A w \in Linked(k) : w \in Nat
  BY <1>1, <1>4, <1>5, LinkedOf, OfDomain
<1>9. \/ g = f
      \/ g = NONE
      \/ g = a /\ Live(a) /\ VisibleAll(a) /\ upd[a].kind = "standard"
  BY <1>g, <1>a, <1>f DEF First, Live
<1>10. /\ (g \in Nat /\ g <= a) \/ g = f
       /\ g # NONE => g \in Linked(k) /\ Cutter(g) /\ n < g
  <2>1. CASE g = f
    BY <1>4, <1>6, <1>7, <2>1
  <2>2. CASE g = NONE
    BY <1>7, <2>2 DEF NONE
  <2>3. CASE g = a /\ Live(a) /\ VisibleAll(a) /\ upd[a].kind = "standard"
    <3>1. Cutter(a)
      BY <1>1, <1>7, <2>3, VisibleAllCutter
    <3> QED
      BY <1>4, <1>6, <1>7, <2>3, <3>1
  <2> QED
    BY <1>9, <2>1, <2>2, <2>3
<1>11. PICK w \in Linked(k) : Live(w) /\ Own(s, w) /\ w > a /\ w > f
  BY <1>4
<1>12. w > n /\ w > g /\ g \in Nat
  BY <1>6, <1>7, <1>8, <1>10, <1>11
<1>13. PICK x : x = [my[s] EXCEPT !.at = n, !.first = g]
  BY Zenon
<1>14. x \in Locals /\ x.key = k /\ x.at = n /\ x.first = g
  BY <1>6, <1>7, <1>12, <1>13, <1>k DEF Locals
<1>15. my' = [my EXCEPT ![s] = x]
  BY <1>k, <1>a, <1>n, <1>f, <1>g, <1>13 DEF Scan
<1>16. pc' = [pc EXCEPT ![s] = "scan"]
  <2>1. pc' = pc
    BY DEF Scan
  <2> QED
    BY <1>1, <2>1 DEF Types, SessionType
<1>17. Move(s, "scan", x)
  BY <1>15, <1>16 DEF Move
<1>18. pc'[s] = "scan" /\ my'[s] = x
  BY <1>1, <1>14, <1>17, MoveIs DEF Types, Labels
<1>19. ScanInv(s)'
  BY <1>1, <1>4, <1>6, <1>10, <1>11, <1>12, <1>14, <1>18, StillView DEF ScanInv
<1>20. WalkInv(s)'
  BY <1>18, <1>19 DEF WalkInv, Traversing
<1>21. txn[s].id # NONE
  BY <1>11 DEF Own
<1> QED
  BY <1>1, <1>14, <1>17, <1>20, <1>21, LocalStep, PlaceRunning DEF Busy, Traversing

\* The head of the chain has changed since it was checked.
LEMMA SerialRetryStep ==
    ASSUME MvccInv, NEW s \in Sessions, Serial(s), Head1(my[s].key) # my[s].old
    PROVE  MvccInv'
<1>k. PICK k : k = my[s].key
  OBVIOUS
<1>o. PICK o : o = my[s].old
  OBVIOUS
<1>h. PICK h : h = Head1(k)
  OBVIOUS
<1>1. pc[s] = "serial" /\ pc[s] \in Busy /\ Still /\ Types /\ SharedType
  BY DEF Serial, Busy, MvccInv, Types, Still, pages, global
<1>2. CheckedInv(s)
  BY <1>1 DEF MvccInv, Walks, WalkInv
<1>3. my[s].op = "write" /\ k \in Keys /\ o \in Of(k) \cup {NONE}
  BY <1>2, <1>k, <1>o DEF CheckedInv
<1>4. /\ h \in Nat /\ Passed(s, k, h) /\ \A u \in Of(k) : Live(u) => u <= h
      /\ chain[k] = <<>> => h = NONE
      /\ chain[k] # <<>> => h \in Linked(k) /\ h \in Of(k)
  BY <1>3, <1>h, AtHead
<1>5. chain[k] # <<>>
  <2>1. CASE o = NONE
    BY <1>4, <1>h, <1>k, <1>o, <2>1
  <2>2. CASE o \in Of(k)
    BY <1>3, <2>2, ChainNotEmpty DEF MvccInv, Chains
  <2> QED
    BY <1>3, <2>1, <2>2
<1>6. my[s] \in Locals
  BY <1>1, TxnTyped DEF Types
<1>7. PICK x : x = [my[s] EXCEPT !.old = h, !.at = h]
  BY Zenon
<1>8. x \in Locals /\ x.op = "write" /\ x.key = k /\ x.at = h /\ x.old = h
  BY <1>3, <1>4, <1>6, <1>7, <1>k DEF Locals
<1>9. my' = [my EXCEPT ![s] = x]
  BY <1>k, <1>h, <1>7 DEF Serial
<1>10. pc' = [pc EXCEPT ![s] = "state"]
  BY DEF Serial, Goto
<1>11. Move(s, "state", x)
  BY <1>9, <1>10 DEF Move
<1>12. pc'[s] = "state" /\ my'[s] = x
  BY <1>1, <1>8, <1>11, MoveIs DEF Types, Labels
<1>13. \A u \in Of(k) : u \in Nat
  BY <1>1, OfDomain
<1>14. Walk(s)'
  BY <1>1, <1>3, <1>4, <1>5, <1>8, <1>12, <1>13, StillView DEF Walk
<1>15. WalkInv(s)'
  BY <1>12, <1>14 DEF WalkInv, Traversing
<1> QED
  BY <1>1, <1>8, <1>11, <1>15, LocalStep, PlaceRunning DEF Busy, Traversing

-----------------------------------------------------------------------------
(* Transactions begin, get their ids and end; the pinned timestamp. *)

LEMMA NoTxnIs ==
    /\ NoTxn \in Txns /\ NoTxn.state = "none" /\ NoTxn.id = NONE /\ NoTxn.seen = {}
    /\ NoTxn.read = NONE /\ NoTxn.prepare = NONE /\ NoTxn.commit = NONE
  BY DEF NoTxn, Txns, NONE

LEMMA SharedIs ==
    ASSUME Types
    PROVE  /\ current \in Nat /\ current >= 1 /\ running \subseteq Ids /\ pinned_ts \in Nat
           /\ MaxId \in Nat /\ 1 .. current - 1 \subseteq Ids
  BY MvccAssumption DEF Types, SharedType, Ids

LEMMA BeginStep ==
    ASSUME MvccInv, NEW s \in Sessions, NEW ts \in 0..MaxRead, Begin(s, ts)
    PROVE  MvccInv'
<1>i. Types /\ TxnInv /\ UpdInv
  BY DEF MvccInv
<1>1. /\ upd' = upd /\ chain' = chain /\ running' = running /\ current' = current
      /\ pinned_ts' = pinned_ts /\ pc' = pc /\ my' = my
      /\ pc[s] = "idle" /\ txn[s].state = "none" /\ (ts = NONE \/ ts >= pinned_ts)
  BY DEF Begin, pages, global
<1>2. PICK seen : seen = (1 .. current - 1) \ running
  OBVIOUS
<1>3. PICK x : x = [NoTxn EXCEPT !.state = "running", !.read = ts, !.seen = seen]
  BY Zenon
<1>4. /\ current \in Nat /\ current >= 1 /\ pinned_ts \in Nat /\ MaxId \in Nat
      /\ seen \in SUBSET Ids /\ ts \in Nat
  BY <1>i, <1>2, SharedIs, MvccAssumption
<1>5. /\ x \in Txns /\ x.state = "running" /\ x.read = ts /\ x.seen = seen /\ x.id = NONE
      /\ x.prepare = NONE
  BY <1>3, <1>4, NoTxnIs DEF NoTxn, Txns
<1>6. txn' = [txn EXCEPT ![s] = x]
  BY <1>2, <1>3 DEF Begin
<1>7. /\ txn' \in [Sessions -> Txns] /\ txn'[s] = x
      /\ \A t \in Sessions : t # s => txn'[t] = txn[t]
  BY <1>i, <1>5, <1>6 DEF Types, SessionType
<1>8. \A t \in Sessions : t # s => Kept(t)
  BY <1>1, <1>7 DEF Kept
<1>9. Types'
  BY <1>i, <1>1, <1>7 DEF Types, SharedType, SessionType
<1>10. IdStep
  BY <1>1, <1>4 DEF IdStep
<1>11. SnapStep
  <2>1. ASSUME NEW t \in Sessions, Active(t)'
        PROVE  \/ Active(t) /\ txn'[t].seen = txn[t].seen
               \/ txn'[t].seen = (1 .. current - 1) \ running
    <3>1. CASE t = s
      BY <1>2, <1>5, <1>7, <3>1
    <3>2. CASE t # s
      BY <1>7, <2>1, <3>2 DEF Active
    <3> QED
      BY <3>1, <3>2
  <2> QED
    BY <2>1 DEF SnapStep
<1>12. OrderStep
  <2>1. ASSUME NEW t \in Sessions
        PROVE  /\ txn'[t].seen \in {txn[t].seen, {}, (1 .. current - 1) \ running}
               /\ txn'[t].state = "running" /\ txn'[t].id # NONE =>
                     /\ txn[t].state = "running" /\ txn'[t].seen = txn[t].seen
                     /\ txn'[t].read = txn[t].read /\ txn'[t].id \in {txn[t].id, current}
    <3>1. CASE t = s
      BY <1>2, <1>5, <1>7, <3>1
    <3>2. CASE t # s
      BY <1>7, <3>2
    <3> QED
      BY <3>1, <3>2
  <2> QED
    BY <2>1 DEF OrderStep
<1>13. txn[s] = NoTxn /\ my[s] = NoLocals
  <2>1. Place(s)
    BY <1>i, TxnParts
  <2> QED
    BY <1>1, <2>1 DEF Place
<1>14. TxnInv'
  <2>1. ASSUME NEW t \in Sessions, t # s PROVE IdInv(t)'
    <3>1. IdInv(t)
      BY <1>i, TxnParts
    <3>2. txn'[t] = txn[t]
      BY <1>7, <2>1
    <3>3. \A r \in Sessions : txn'[r].id = txn[r].id
      BY <1>5, <1>7, <1>13, NoTxnIs
    <3> QED
      BY <1>1, <3>1, <3>2, <3>3 DEF IdInv
  <2>2. IdInv(s)'
    <3>1. \A i \in seen : i < current /\ i \notin running
      BY <1>2, <1>4
    <3>2. NONE < current
      BY <1>4 DEF NONE
    <3> QED
      BY <1>1, <1>5, <1>7, <3>1, <3>2 DEF IdInv
  <2>3. Place(s)'
    BY <1>1, <1>5, <1>7, <1>13 DEF Place, Busy, Traversing, Resolving
  <2>4. LockedInv(s)' /\ TableInv'
    BY <1>1, <1>i DEF LockedInv, TableInv, TxnInv
  <2> QED
    BY <1>1, <1>8, <2>1, <2>2, <2>3, <2>4, TxnQuiet
<1>15. UpdInv'
  <2>1. \A u : ~ Own(s, u)' /\ ~ Own(s, u)
    BY <1>5, <1>7, <1>13, NoTxnIs DEF Own
  <2> QED
    BY <1>1, <1>4, <1>8, <1>10, <2>1, UpdQuiet
<1>16. WalkInv(s)'
  BY <1>1 DEF WalkInv, Traversing
<1> QED
  BY <1>1, <1>8, <1>9, <1>10, <1>11, <1>12, <1>14, <1>15, <1>16, TxnStep

LEMMA UpdatePinnedStep ==
    ASSUME MvccInv, NEW ts \in 1..MaxRead, UpdatePinned(ts)
    PROVE  MvccInv'
<1>i. Types /\ TxnInv /\ UpdInv
  BY DEF MvccInv
<1>1. /\ upd' = upd /\ chain' = chain /\ running' = running /\ current' = current
      /\ pinned_ts' = ts /\ pc' = pc /\ my' = my /\ txn' = txn
      /\ ts > pinned_ts /\ \A s \in Sessions : txn[s].read # NONE => ts <= txn[s].read
  BY DEF UpdatePinned, pages
<1>2. ts \in Nat /\ pinned_ts \in Nat
  BY <1>i, SharedIs, MvccAssumption
<1>3. Types'
  BY <1>i, <1>1, <1>2 DEF Types, SharedType, SessionType
<1>4. IdStep /\ SnapStep /\ OrderStep
  BY <1>1, <1>2 DEF IdStep, SnapStep, OrderStep, Active
<1>5. TxnInv'
  <2>1. ASSUME NEW s \in Sessions PROVE Place(s)' /\ IdInv(s)' /\ LockedInv(s)'
    <3>1. Place(s) /\ IdInv(s) /\ LockedInv(s)
      BY <1>i, TxnParts
    <3>2. Place(s)'
      BY <1>1, <3>1 DEF Place
    <3>3. IdInv(s)'
      BY <1>1, <3>1 DEF IdInv
    <3>4. LockedInv(s)'
      BY <1>1, <3>1 DEF LockedInv, Own
    <3> QED
      BY <3>2, <3>3, <3>4
  <2>2. TableInv'
    BY <1>1, <1>i DEF TxnInv, TableInv
  <2> QED
    BY <2>1, <2>2 DEF TxnInv
<1>6. UpdInv'
  <2>1. ASSUME NEW u \in DOMAIN upd PROVE UpdateInv(u)'
    <3>1. UpdateInv(u)
      BY <1>i DEF UpdInv
    <3>2. \A t, v : Own(t, v)' = Own(t, v) /\ OwnInv(t, v)' = OwnInv(t, v)
      BY <1>1 DEF Own, OwnInv, Of
    <3> QED
      BY <1>1, <3>1, <3>2 DEF UpdateInv, Live, Settled, Readable
  <2> QED
    BY <1>1, <2>1 DEF UpdInv
<1>7. Ordered' /\ Chains'
  BY <1>1, <1>4, OrderedQuiet, ChainsQuiet
<1>8. ASSUME NEW t \in Sessions PROVE WalkInv(t)'
  <2>1. Kept(t)
    BY <1>1 DEF Kept
  <2> QED
    BY <1>1, <1>4, <2>1, WalksQuiet
<1> QED
  BY <1>3, <1>5, <1>6, <1>7, <1>8 DEF MvccInv, Walks

LEMMA MineIs ==
    ASSUME NEW s, NEW u
    PROVE  u \in Mine(s) <=> u \in DOMAIN upd /\ Own(s, u)
  BY DEF Mine, Own

\* What a transaction's updates are like, where it is.
LEMMA OwnIs ==
    ASSUME MvccInv, NEW s \in Sessions, NEW u \in DOMAIN upd, Live(u), Own(s, u)
    PROVE  OwnInv(s, u)
  BY DEF MvccInv, UpdInv, UpdateInv

LEMMA ModifyStep ==
    ASSUME MvccInv, NEW s \in Sessions, Modify(s)
    PROVE  MvccInv'
<1>i. /\ Types /\ TxnInv /\ UpdInv /\ pc[s] = "modify" /\ pc[s] \in Busy
      /\ txn[s].state = "running"
  BY PlaceRunning DEF MvccInv, Modify, Busy
<1>1. /\ upd' = upd /\ chain' = chain /\ pinned_ts' = pinned_ts /\ my' = my
      /\ pc' = [pc EXCEPT ![s] = "serial"]
  BY DEF Modify, pages, Goto
<1>2. my[s] \in Locals /\ txn[s] \in Txns
  BY <1>i, TxnTyped DEF Types
<1>3. Move(s, "serial", my[s])
  BY <1>1, <1>i DEF Move, Types, SessionType
<1>4. pc'[s] = "serial" /\ my'[s] = my[s]
  BY <1>i, <1>2, <1>3, MoveIs DEF Types, Labels
<1>5. CheckedInv(s)
  BY <1>i DEF MvccInv, Walks, WalkInv
<1>6. CASE txn[s].id # NONE
  <2>1. Still
    BY <1>1, <1>6 DEF Modify, Still
  <2>2. CheckedInv(s)'
    BY <1>4, <1>5, <2>1, StillView DEF CheckedInv
  <2>3. WalkInv(s)'
    BY <1>4, <2>2 DEF WalkInv, Traversing
  <2> QED
    BY <1>i, <1>2, <1>3, <1>6, <2>1, <2>3, LocalStep DEF Busy
<1>7. CASE txn[s].id = NONE
  <2>1. PICK x : x = [txn[s] EXCEPT !.id = current]
    BY Zenon
  <2>2. /\ txn' = [txn EXCEPT ![s] = x] /\ running' = running \cup {current}
        /\ current' = current + 1 /\ current <= MaxId
    BY <1>7, <2>1 DEF Modify
  <2>3. /\ current \in Nat /\ current >= 1 /\ running \subseteq Ids /\ pinned_ts \in Nat
        /\ MaxId \in Nat
    BY <1>i, SharedIs
  <2>4. /\ x \in Txns /\ x.id = current /\ x.state = txn[s].state /\ x.seen = txn[s].seen
        /\ x.read = txn[s].read /\ x.prepare = txn[s].prepare /\ x.commit = txn[s].commit
    BY <1>2, <2>1, <2>3 DEF Txns
  <2>5. /\ SessionType' /\ txn'[s] = x /\ \A t \in Sessions : t # s => Kept(t)
    BY <1>i, <1>2, <1>3, <2>2, <2>4, SessionStep DEF Types, Labels
  <2>6. current' \in 1 .. MaxId + 1 /\ running' \subseteq Ids
    BY <2>2, <2>3 DEF Ids
  <2>7. Types'
    BY <1>i, <1>1, <2>5, <2>6 DEF Types, SharedType
  <2>8. IdStep
    BY <1>1, <2>2, <2>3 DEF IdStep
  <2>9. \A t \in Sessions : t # s => txn'[t] = txn[t]
    BY <2>5 DEF Kept
  <2>10. \A t \in Sessions : /\ txn'[t].state = txn[t].state /\ txn'[t].seen = txn[t].seen
                             /\ txn'[t].read = txn[t].read
                             /\ txn'[t].id \in {txn[t].id, current}
    BY <2>4, <2>5, <2>9
  <2>11. SnapStep /\ OrderStep
    BY <2>10 DEF SnapStep, OrderStep, Active
  <2>12. TxnInv'
    <3>1. ASSUME NEW t \in Sessions PROVE IdInv(t)'
      <4>1. IdInv(t) /\ txn[t].id \in Nat
        BY <1>i, TxnParts, TxnTyped DEF Types
      <4>2. \A i \in txn'[t].seen : i < current' /\ i \notin running'
        <5>1. ASSUME NEW i \in txn[t].seen PROVE i < current + 1 /\ i # current /\ i \notin running
          <6>1. i \in Ids /\ i < current /\ i \notin running
            BY <1>i, <4>1, TxnTyped DEF IdInv, Types
          <6>2. i \in Nat
            BY <6>1, <2>3 DEF Ids
          <6> QED
            BY <2>3, <6>1, <6>2
        <5> QED
          BY <2>2, <2>10, <5>1
      <4>3. CASE t = s
        <5>1. current < current + 1 /\ current # NONE
          BY <2>3 DEF NONE
        <5>2. \A r \in Sessions : r # s => txn[r].id # current
          <6>1. ASSUME NEW r \in Sessions PROVE txn[r].id # current
            <7>1. txn[r].id < current /\ txn[r].id \in Nat
              BY <1>i, TxnParts, TxnTyped DEF IdInv, Types
            <7> QED
              BY <2>3, <7>1
          <6> QED
            BY <6>1
        <5> QED
          BY <1>1, <1>i, <2>2, <2>4, <2>5, <2>9, <4>1, <4>2, <4>3, <5>1, <5>2 DEF IdInv
      <4>4. CASE t # s
        <5>1. txn[t].id # current /\ txn[t].id < current + 1
          BY <2>3, <4>1 DEF IdInv
        <5>2. \A r \in Sessions : r # t /\ txn[t].id # NONE => txn'[r].id # txn[t].id
          BY <2>10, <4>1, <5>1 DEF IdInv
        <5> QED
          BY <1>1, <2>2, <2>9, <4>1, <4>2, <4>4, <5>1, <5>2 DEF IdInv
      <4> QED
        BY <4>3, <4>4
    <3>2. Place(s)'
      <4>1. Place(s) /\ current # NONE
        BY <1>i, <2>3, TxnParts DEF NONE
      <4> QED
        BY <1>i, <1>4, <2>4, <2>5, <4>1 DEF Place, Busy, Traversing, Resolving
    <3>3. LockedInv(s)'
      BY <1>4 DEF LockedInv
    <3>4. TableInv'
      <4>1. ASSUME NEW i \in running PROVE i < current + 1
        <5>1. i < current /\ i \in Nat
          BY <1>i, <2>3 DEF TxnInv, TableInv, Ids
        <5> QED
          BY <2>3, <5>1
      <4> QED
        BY <2>2, <2>3, <4>1 DEF TableInv
    <3> QED
      BY <1>1, <2>5, <3>1, <3>2, <3>3, <3>4, TxnQuiet
  <2>13. UpdInv'
    <3>1. ASSUME NEW u \in DOMAIN upd, Live(u) PROVE ~ Own(s, u)' /\ ~ Own(s, u)
      <4>1. upd[u].txn # current
        BY <3>1, IdsBelow
      <4> QED
        BY <1>1, <1>7, <2>4, <2>5, <4>1 DEF Own
    <3>2. current' \in Nat /\ current' >= current
      BY <2>2, <2>3
    <3> QED
      BY <1>1, <2>5, <2>8, <3>1, <3>2, UpdQuiet
  <2>14. WalkInv(s)'
    <3>1. ASSUME NEW u, Visible(s, u) PROVE Visible(s, u)'
      BY <1>1, <1>7, <2>4, <2>5, <3>1 DEF Visible
    <3>2. /\ \A k : Of(k)' = Of(k)
          /\ \A u : Live(u)' = Live(u) /\ Readable(u)' = Readable(u)
      BY <1>1 DEF Of, Live, Readable
    <3>3. CheckedInv(s)'
      BY <1>4, <1>5, <3>1, <3>2 DEF CheckedInv
    <3> QED
      BY <1>4, <3>3 DEF WalkInv, Traversing
  <2> QED
    BY <1>1, <2>5, <2>7, <2>8, <2>11, <2>12, <2>13, <2>14, TxnStep
<1> QED
  BY <1>6, <1>7

LEMMA RollbackStep ==
    ASSUME MvccInv, NEW s \in Sessions, Rollback(s)
    PROVE  MvccInv'
<1>i. Types /\ TxnInv /\ UpdInv
  BY DEF MvccInv
<1>1. /\ Still /\ pc[s] = "idle" /\ my' = my
      /\ txn[s].state \in {"running", "prepared", "error"}
  BY DEF Rollback, Still, pages, global
<1>2. PICK label : label = IF Mine(s) = {} THEN "release" ELSE "abort"
  OBVIOUS
<1>3. /\ IdStep /\ SnapStep /\ OrderStep
      /\ upd' = upd /\ chain' = chain /\ running' = running /\ current' = current
      /\ pinned_ts' = pinned_ts /\ txn' = txn
  BY <1>1, StillSteps
<1>4. my[s] \in Locals /\ label \in Labels
  BY <1>i, <1>2, TxnTyped DEF Types, Labels
<1>5. Move(s, label, my[s])
  BY <1>1, <1>i, <1>2 DEF Move, Rollback, Goto, Types, SessionType
<1>6. /\ pc' \in [Sessions -> Labels] /\ my' \in [Sessions -> Locals]
      /\ pc'[s] = label /\ my'[s] = my[s]
      /\ \A t \in Sessions : t # s => pc'[t] = pc[t] /\ my'[t] = my[t]
  BY <1>i, <1>4, <1>5, MoveIs DEF Types
<1>7. \A t \in Sessions : t # s => Kept(t)
  BY <1>3, <1>6 DEF Kept
<1>8. Types'
  BY <1>i, <1>3, <1>6 DEF Types, SharedType, SessionType
<1>9. TxnInv'
  <2>1. ASSUME NEW t \in Sessions PROVE IdInv(t)'
    <3>1. IdInv(t)
      BY <1>i, TxnParts
    <3> QED
      BY <1>3, <3>1 DEF IdInv
  <2>2. Place(s)'
    <3>1. Place(s)
      BY <1>i, TxnParts
    <3> QED
      BY <1>1, <1>2, <1>3, <1>6, <3>1 DEF Place, Busy, Traversing, Resolving
  <2>3. LockedInv(s)' /\ TableInv'
    BY <1>2, <1>3, <1>6, <1>i DEF LockedInv, TableInv, TxnInv
  <2> QED
    BY <1>3, <1>7, <2>1, <2>2, <2>3, TxnQuiet
<1>10. UpdInv'
  <2>1. \A u : Own(s, u)' = Own(s, u)
    BY <1>3 DEF Own
  <2>2. ASSUME NEW u \in DOMAIN upd, Live(u), Own(s, u) PROVE OwnInv(s, u)'
    <3>1. OwnInv(s, u)
      BY <2>2, OwnIs
    <3>2. label = "abort"
      <4>1. u \in Mine(s)
        BY <2>2, MineIs
      <4> QED
        BY <1>2, <4>1
    <3>3. \A j : Of(j)' = Of(j)
      BY <1>3 DEF Of
    <3> QED
      BY <1>1, <1>3, <1>6, <3>1, <3>2, <3>3 DEF OwnInv, Resolving
  <2>3. current \in Nat
    BY <1>i, SharedIs
  <2> QED
    BY <1>3, <1>7, <2>1, <2>2, <2>3, UpdQuiet
<1>11. WalkInv(s)'
  BY <1>2, <1>6 DEF WalkInv, Traversing
<1> QED
  BY <1>3, <1>7, <1>8, <1>9, <1>10, <1>11, TxnStep

LEMMA ReleaseStep ==
    ASSUME MvccInv, NEW s \in Sessions, Release(s)
    PROVE  MvccInv'
<1>i. /\ Types /\ TxnInv /\ UpdInv /\ pc[s] = "release" /\ Place(s)
  BY TxnParts DEF MvccInv, Release
<1>1. /\ upd' = upd /\ chain' = chain /\ pinned_ts' = pinned_ts /\ my' = my
      /\ current' = current /\ running' = running \ {txn[s].id}
      /\ pc' = [pc EXCEPT ![s] = "idle"] /\ txn' = [txn EXCEPT ![s] = NoTxn]
  BY DEF Release, pages, Goto
<1>2. my[s] \in Locals /\ txn[s] \in Txns /\ my[s] = NoLocals
  BY <1>i, TxnTyped DEF Types, Place
<1>3. Move(s, "idle", my[s])
  BY <1>1, <1>i DEF Move, Types, SessionType
<1>4. /\ SessionType' /\ txn'[s] = NoTxn /\ pc'[s] = "idle" /\ my'[s] = my[s]
      /\ \A t \in Sessions : t # s => Kept(t)
  BY <1>i, <1>1, <1>2, <1>3, SessionStep, NoTxnIs DEF Types, Labels
<1>5. \A t \in Sessions : t # s => txn'[t] = txn[t]
  BY <1>4 DEF Kept
<1>6. /\ current \in Nat /\ current >= 1 /\ running \subseteq Ids /\ pinned_ts \in Nat
  BY <1>i, SharedIs
<1>7. Types'
  BY <1>i, <1>1, <1>4 DEF Types, SharedType
<1>8. IdStep
  BY <1>1, <1>6 DEF IdStep
<1>9. SnapStep
  <2>1. ~ Active(s)'
    BY <1>4, NoTxnIs DEF Active
  <2>2. \A t \in Sessions : Active(t)' => Active(t) /\ txn'[t].seen = txn[t].seen
    BY <1>5, <2>1 DEF Active
  <2> QED
    BY <2>2 DEF SnapStep
<1>10. OrderStep
  <2>1. ASSUME NEW t \in Sessions
        PROVE  /\ txn'[t].seen \in {txn[t].seen, {}, (1 .. current - 1) \ running}
               /\ txn'[t].state = "running" /\ txn'[t].id # NONE =>
                     /\ txn[t].state = "running" /\ txn'[t].seen = txn[t].seen
                     /\ txn'[t].read = txn[t].read /\ txn'[t].id \in {txn[t].id, current}
    <3>1. CASE t = s
      BY <1>4, <3>1, NoTxnIs
    <3>2. CASE t # s
      BY <1>5, <3>2
    <3> QED
      BY <3>1, <3>2
  <2> QED
    BY <2>1 DEF OrderStep
<1>11. TxnInv'
  <2>1. ASSUME NEW t \in Sessions, t # s PROVE IdInv(t)'
    <3>1. IdInv(t)
      BY <1>i, TxnParts
    <3>2. txn'[t] = txn[t]
      BY <1>5, <2>1
    <3>3. \A r \in Sessions : txn'[r].id \in {txn[r].id, NONE}
      BY <1>4, <1>5, NoTxnIs
    <3>4. txn[t].id # NONE => (txn[t].id \in running' <=> txn[t].id \in running)
      BY <1>1, <2>1, <3>1 DEF IdInv
    <3>5. \A i \in txn[t].seen : i < current /\ i \notin running'
      BY <1>1, <3>1 DEF IdInv
    <3>6. \A r \in Sessions : r # t /\ txn[t].id # NONE => txn'[r].id # txn[t].id
      BY <3>1, <3>3 DEF IdInv
    <3> QED
      BY <1>1, <3>1, <3>2, <3>4, <3>5, <3>6 DEF IdInv
  <2>2. IdInv(s)'
    <3>1. NONE < current
      BY <1>6 DEF NONE
    <3> QED
      BY <1>1, <1>4, <3>1, NoTxnIs DEF IdInv
  <2>3. Place(s)'
    BY <1>2, <1>4, NoTxnIs DEF Place, Busy, Traversing, Resolving
  <2>4. LockedInv(s)' /\ TableInv'
    BY <1>1, <1>4, <1>i DEF LockedInv, TableInv, TxnInv
  <2> QED
    BY <1>1, <1>4, <2>1, <2>2, <2>3, <2>4, TxnQuiet
<1>12. UpdInv'
  <2>1. \A u : ~ Own(s, u)'
    BY <1>4, NoTxnIs DEF Own
  <2>2. ASSUME NEW u \in DOMAIN upd, Live(u), Own(s, u)
        PROVE  Settled(u)' /\ upd[u].durable # NONE /\ upd[u].kind # "reserve"
    <3>1. OwnInv(s, u)
      BY <2>2, OwnIs
    <3>2. txn[s].state \in {"running", "error", "committing", "prepared"}
      BY <1>i, <2>2, OwnState DEF Types
    <3>3. upd[u].durable # NONE /\ Readable(u)
      BY <1>i, <3>1, <3>2 DEF OwnInv, Readable
    <3>4. upd[u].kind # "reserve"
      BY <3>1, <3>3 DEF OwnInv
    <3>5. upd[u].txn \notin running'
      BY <1>1, <2>2 DEF Own
    <3> QED
      BY <1>1, <3>3, <3>4, <3>5 DEF Settled, Readable
  <2> QED
    BY <1>1, <1>4, <1>6, <1>8, <2>1, <2>2, UpdQuiet
<1>13. WalkInv(s)'
  BY <1>4 DEF WalkInv, Traversing
<1> QED
  BY <1>1, <1>4, <1>7, <1>8, <1>9, <1>10, <1>11, <1>12, <1>13, TxnStep

LEMMA PrepareEndStep ==
    ASSUME MvccInv, NEW s \in Sessions, PrepareEnd(s)
    PROVE  MvccInv'
<1>i. /\ Types /\ TxnInv /\ UpdInv /\ pc[s] = "prepared" /\ Place(s) /\ IdInv(s)
      /\ txn[s].state = "running" /\ txn[s].id # NONE /\ txn[s].prepare # NONE
  <2>1. pc[s] = "prepared"
    BY DEF PrepareEnd
  <2>2. Place(s) /\ IdInv(s)
    BY TxnParts DEF MvccInv
  <2> QED
    BY <2>1, <2>2 DEF MvccInv, Place
<1>1. /\ upd' = upd /\ chain' = chain /\ pinned_ts' = pinned_ts /\ my' = my
      /\ current' = current /\ running' = running \ {txn[s].id}
      /\ pc' = [pc EXCEPT ![s] = "idle"]
  BY DEF PrepareEnd, pages, Goto
<1>2. my[s] \in Locals /\ txn[s] \in Txns /\ my[s] = NoLocals
  BY <1>i, TxnTyped DEF Types, Place
<1>x. PICK x : x = [txn[s] EXCEPT !.state = "prepared", !.seen = {}]
  BY Zenon
<1>3. txn' = [txn EXCEPT ![s] = x]
  BY <1>x DEF PrepareEnd
<1>4. /\ x \in Txns /\ x.state = "prepared" /\ x.seen = {} /\ x.id = txn[s].id
      /\ x.read = txn[s].read /\ x.prepare = txn[s].prepare /\ x.commit = txn[s].commit
  BY <1>x, <1>2 DEF Txns
<1>5. Move(s, "idle", my[s])
  BY <1>1, <1>i DEF Move, Types, SessionType
<1>6. /\ SessionType' /\ txn'[s] = x /\ pc'[s] = "idle" /\ my'[s] = my[s]
      /\ \A t \in Sessions : t # s => Kept(t)
  BY <1>i, <1>2, <1>3, <1>4, <1>5, SessionStep DEF Types, Labels
<1>7. \A t \in Sessions : t # s => txn'[t] = txn[t]
  BY <1>6 DEF Kept
<1>8. /\ current \in Nat /\ current >= 1 /\ running \subseteq Ids /\ pinned_ts \in Nat
  BY <1>i, SharedIs
<1>9. Types'
  BY <1>i, <1>1, <1>6 DEF Types, SharedType
<1>10. IdStep
  BY <1>1, <1>8 DEF IdStep
<1>11. \A t \in Sessions : /\ txn'[t].id = txn[t].id /\ txn'[t].read = txn[t].read
                           /\ txn'[t].seen \in {txn[t].seen, {}}
                           /\ txn'[t].state = "running" =>
                                 txn[t].state = "running" /\ txn'[t].seen = txn[t].seen
  BY <1>4, <1>6, <1>7
<1>12. SnapStep /\ OrderStep
  BY <1>11 DEF SnapStep, OrderStep, Active
<1>13. TxnInv'
  <2>1. ASSUME NEW t \in Sessions, t # s PROVE IdInv(t)'
    <3>1. IdInv(t)
      BY <1>i, TxnParts
    <3>2. txn'[t] = txn[t]
      BY <1>7, <2>1
    <3>4. txn[t].id # NONE => (txn[t].id \in running' <=> txn[t].id \in running)
      BY <1>1, <2>1, <3>1 DEF IdInv
    <3>5. \A i \in txn[t].seen : i < current /\ i \notin running'
      BY <1>1, <3>1 DEF IdInv
    <3>6. \A r \in Sessions : r # t /\ txn[t].id # NONE => txn'[r].id # txn[t].id
      BY <3>1, <1>11 DEF IdInv
    <3> QED
      BY <1>1, <3>1, <3>2, <3>4, <3>5, <3>6 DEF IdInv
  <2>2. IdInv(s)'
    <3>1. x.id \notin running'
      BY <1>1, <1>4
    <3>2. \A r \in Sessions : r # s => txn'[r].id # x.id
      BY <1>4, <1>i, <1>11 DEF IdInv
    <3> QED
      BY <1>1, <1>4, <1>6, <1>i, <3>1, <3>2 DEF IdInv
  <2>3. Place(s)'
    BY <1>2, <1>4, <1>6, <1>i DEF Place, Busy, Traversing, Resolving
  <2>4. LockedInv(s)' /\ TableInv'
    BY <1>1, <1>6, <1>i DEF LockedInv, TableInv, TxnInv
  <2> QED
    BY <1>1, <1>6, <2>1, <2>2, <2>3, <2>4, TxnQuiet
<1>14. UpdInv'
  <2>1. \A u : Own(s, u)' = Own(s, u)
    BY <1>1, <1>11 DEF Own
  <2>2. ASSUME NEW u \in DOMAIN upd, Live(u), Own(s, u) PROVE OwnInv(s, u)'
    <3>1. OwnInv(s, u)
      BY <2>2, OwnIs
    <3>2. upd[u].prepare = "inprogress"
      BY <1>i, <3>1 DEF OwnInv
    <3> QED
      BY <1>1, <1>4, <1>6, <3>1, <3>2 DEF OwnInv, Resolving
  <2> QED
    BY <1>1, <1>6, <1>8, <1>10, <2>1, <2>2, UpdQuiet
<1>15. WalkInv(s)'
  BY <1>6 DEF WalkInv, Traversing
<1> QED
  BY <1>1, <1>6, <1>9, <1>10, <1>12, <1>13, <1>14, <1>15, TxnStep

LEMMA CommitPreparedStep ==
    ASSUME MvccInv, NEW s \in Sessions, NEW ts \in 1..MaxTs, CommitPrepared(s, ts)
    PROVE  MvccInv'
<1>i. /\ Types /\ TxnInv /\ UpdInv /\ pc[s] = "idle" /\ Place(s) /\ IdInv(s)
      /\ txn[s].state = "prepared" /\ ts >= txn[s].prepare /\ InOrder(s, ts)
  BY TxnParts DEF MvccInv, CommitPrepared
<1>1. /\ upd' = upd /\ chain' = chain /\ pinned_ts' = pinned_ts /\ my' = my
      /\ current' = current /\ running' = running
      /\ pc' = [pc EXCEPT ![s] = "resolve"]
  BY DEF CommitPrepared, pages, global, Goto
<1>2. my[s] \in Locals /\ txn[s] \in Txns /\ my[s] = NoLocals /\ ts \in Nat
  BY <1>i, TxnTyped, MvccAssumption DEF Types, Place
<1>x. PICK x : x = [txn[s] EXCEPT !.commit = ts]
  BY Zenon
<1>3. txn' = [txn EXCEPT ![s] = x]
  BY <1>x DEF CommitPrepared
<1>4. /\ x \in Txns /\ x.state = "prepared" /\ x.seen = txn[s].seen /\ x.id = txn[s].id
      /\ x.read = txn[s].read /\ x.prepare = txn[s].prepare /\ x.commit = ts
  BY <1>i, <1>x, <1>2 DEF Txns
<1>5. Move(s, "resolve", my[s])
  BY <1>1, <1>i DEF Move, Types, SessionType
<1>6. /\ SessionType' /\ txn'[s] = x /\ pc'[s] = "resolve" /\ my'[s] = my[s]
      /\ \A t \in Sessions : t # s => Kept(t)
  BY <1>i, <1>2, <1>3, <1>4, <1>5, SessionStep DEF Types, Labels
<1>7. \A t \in Sessions : t # s => txn'[t] = txn[t]
  BY <1>6 DEF Kept
<1>8. /\ current \in Nat /\ current >= 1 /\ running \subseteq Ids /\ pinned_ts \in Nat
  BY <1>i, SharedIs
<1>9. Types'
  BY <1>i, <1>1, <1>6 DEF Types, SharedType
<1>10. IdStep
  BY <1>1, <1>8 DEF IdStep
<1>11. \A t \in Sessions : /\ txn'[t].id = txn[t].id /\ txn'[t].read = txn[t].read
                           /\ txn'[t].seen = txn[t].seen /\ txn'[t].state = txn[t].state
  BY <1>i, <1>4, <1>6, <1>7
<1>12. SnapStep /\ OrderStep
  BY <1>11 DEF SnapStep, OrderStep, Active
<1>13. TxnInv'
  <2>1. ASSUME NEW t \in Sessions PROVE IdInv(t)'
    <3>1. IdInv(t)
      BY <1>i, TxnParts
    <3> QED
      BY <1>1, <1>11, <3>1 DEF IdInv
  <2>3. Place(s)'
    BY <1>2, <1>4, <1>6, <1>i DEF Place, Busy, Traversing, Resolving
  <2>4. LockedInv(s)' /\ TableInv'
    BY <1>1, <1>6, <1>i DEF LockedInv, TableInv, TxnInv
  <2> QED
    BY <1>1, <1>6, <2>1, <2>3, <2>4, TxnQuiet
<1>14. UpdInv'
  <2>1. \A u : Own(s, u)' = Own(s, u)
    BY <1>1, <1>11 DEF Own
  <2>2. ASSUME NEW u \in DOMAIN upd, Live(u), Own(s, u) PROVE OwnInv(s, u)'
    <3>1. OwnInv(s, u)
      BY <2>2, OwnIs
    <3>2. upd[u].prepare = "inprogress"
      BY <1>i, <3>1 DEF OwnInv
    <3>3. \A v \in Of(upd[u].key) : upd[v].durable <= ts
      <4>1. u \in Mine(s)
        BY <2>2, MineIs
      <4> QED
        BY <1>i, <4>1 DEF InOrder, Of
    <3>4. Of(upd[u].key)' = Of(upd[u].key)
      BY <1>1 DEF Of
    <3> QED
      BY <1>1, <1>4, <1>6, <3>1, <3>2, <3>3, <3>4 DEF OwnInv
  <2> QED
    BY <1>1, <1>6, <1>8, <1>10, <2>1, <2>2, UpdQuiet
<1>15. WalkInv(s)'
  BY <1>6 DEF WalkInv, Traversing
<1> QED
  BY <1>1, <1>6, <1>9, <1>10, <1>12, <1>13, <1>14, <1>15, TxnStep

-----------------------------------------------------------------------------
(* Steps that change updates of their own transaction, which are not settled. *)

OwnStep(s) ==
    /\ chain' = chain /\ running' = running /\ current' = current /\ pinned_ts' = pinned_ts
    /\ \A t \in Sessions : t # s => Kept(t)
    /\ SessionType' /\ pc'[s] \notin Busy
    /\ txn'[s].id = txn[s].id /\ txn'[s].read = txn[s].read
    /\ txn'[s].seen \in {txn[s].seen, {}}
    /\ txn'[s].state = "prepared" <=> txn[s].state = "prepared"
    /\ txn'[s].state = "running" => txn[s].state = "running" /\ txn'[s].seen = txn[s].seen
    /\ upd' \in Seq(Updates) /\ DOMAIN upd' = DOMAIN upd
    /\ \A u \in DOMAIN upd :
          upd'[u] = upd[u] \/ (Own(s, u) /\ ~ Settled(u) /\ Progress(u))

\* What such a step makes of a transaction's updates, and of the order of the updates.
OwnUpdates(s) ==
    \A u \in DOMAIN upd : Live(u) /\ Own(s, u) /\ Live(u)' =>
       OwnInv(s, u)' /\ (upd'[u].durable # NONE => upd'[u].start = upd'[u].durable)
OwnOrders(s) ==
    \A k \in Keys : \A u, v \in Of(k) :
       u < v /\ Live(u) /\ Live(v) /\ Live(u)' /\ Live(v)' /\ Own(s, v) =>
          /\ upd'[v].durable # NONE =>
                upd'[u].durable # NONE /\ upd'[u].durable <= upd'[v].durable
          /\ upd'[v].prepare # "inprogress" => Readable(u)'

LEMMA OwnLive ==
    ASSUME Types, NEW s \in Sessions, NEW u, Own(s, u)
    PROVE  Live(u)
<1>1. txn[s].id \in Nat
  BY TxnTyped DEF Types
<1> QED
  BY <1>1 DEF Own, Live, ABORTED

\* An update that such a step leaves alone, or one of its own.
LEMMA OwnChanged ==
    ASSUME Types, NEW s \in Sessions, OwnStep(s), NEW u \in DOMAIN upd
    PROVE  /\ u \in DOMAIN upd' /\ upd'[u].key = upd[u].key
           /\ Live(u)' => Live(u) /\ upd'[u].txn = upd[u].txn /\ upd'[u].kind = upd[u].kind
           /\ Settled(u) \/ ~ Own(s, u) => upd'[u] = upd[u]
           /\ ~ Live(u)' => upd'[u] = upd[u] \/ upd'[u] = Aborted(upd[u])
           /\ ~ Live(u) => ~ Live(u)'
           /\ upd'[u] # upd[u] => Own(s, u) /\ ~ Settled(u) /\ Live(u)
<1>1. u \in DOMAIN upd' /\ (upd'[u] = upd[u] \/ (Own(s, u) /\ ~ Settled(u) /\ Progress(u)))
  BY DEF OwnStep
<1>2. CASE upd'[u] = upd[u]
  BY <1>1, <1>2 DEF Live
<1>3. CASE Own(s, u) /\ ~ Settled(u) /\ Progress(u)
  <2>1. Live(u)
    BY <1>3, OwnLive
  <2>2. Aborted(upd[u]).txn = ABORTED /\ Aborted(upd[u]).key = upd[u].key
    BY AbortedIs DEF Types
  <2>3. CASE upd'[u] = Aborted(upd[u])
    BY <1>1, <1>3, <2>1, <2>2, <2>3 DEF Live
  <2>4. CASE upd'[u] # Aborted(upd[u])
    <3>1. /\ upd'[u].txn = upd[u].txn /\ upd'[u].kind = upd[u].kind
          /\ upd'[u].key = upd[u].key
      BY <1>3, <2>4 DEF Progress
    <3> QED
      BY <1>1, <1>3, <2>1, <3>1 DEF Live
  <2> QED
    BY <2>3, <2>4
<1> QED
  BY <1>1, <1>2, <1>3

LEMMA OwnOf ==
    ASSUME Types, NEW s \in Sessions, OwnStep(s), NEW k
    PROVE  Of(k)' = Of(k) /\ Linked(k)' = Linked(k)
<1>1. DOMAIN upd' = DOMAIN upd /\ chain' = chain
  BY DEF OwnStep
<1>2. \A u \in DOMAIN upd : upd'[u].key = upd[u].key
  BY OwnChanged
<1> QED
  BY <1>1, <1>2 DEF Of, Linked

LEMMA OwnSteps ==
    ASSUME Types, NEW s \in Sessions, OwnStep(s)
    PROVE  /\ IdStep /\ SnapStep
           /\ \A t \in Sessions :
                 /\ txn'[t].id = txn[t].id /\ txn'[t].read = txn[t].read
                 /\ txn'[t].seen \in {txn[t].seen, {}}
                 /\ txn'[t].state = "prepared" <=> txn[t].state = "prepared"
                 /\ txn'[t].state = "running" =>
                       txn[t].state = "running" /\ txn'[t].seen = txn[t].seen
<1>1. \A t \in Sessions : t # s => txn'[t] = txn[t]
  BY DEF OwnStep, Kept
<1>2. \A t \in Sessions :
         /\ txn'[t].id = txn[t].id /\ txn'[t].read = txn[t].read
         /\ txn'[t].seen \in {txn[t].seen, {}}
         /\ txn'[t].state = "prepared" <=> txn[t].state = "prepared"
         /\ txn'[t].state = "running" =>
               txn[t].state = "running" /\ txn'[t].seen = txn[t].seen
  BY <1>1 DEF OwnStep
<1>3. IdStep
  BY SharedIs DEF OwnStep, IdStep
<1>4. SnapStep
  BY <1>2 DEF SnapStep, Active
<1> QED
  BY <1>2, <1>3, <1>4

\* What is not settled, others do not read.
LEMMA OwnOther ==
    ASSUME MvccInv, NEW s \in Sessions, OwnStep(s), NEW r \in Sessions, r # s
    PROVE  OtherStep(r, NONE, NONE)
<1>i. Types /\ TxnInv
  BY DEF MvccInv
<1>1. Kept(r) /\ DOMAIN upd' = DOMAIN upd
  BY DEF OwnStep
<1>2. ASSUME NEW u \in DOMAIN upd
      PROVE  \/ upd'[u] = upd[u]
             \/ Progress(u) /\ ~ Own(r, u) /\ ~ (Readable(u) /\ Visible(r, u))
  <2>1. upd'[u] = upd[u] \/ (Own(s, u) /\ ~ Settled(u) /\ Progress(u))
    BY DEF OwnStep
  <2>2. ASSUME Own(s, u), ~ Settled(u) PROVE ~ Own(r, u) /\ ~ (Readable(u) /\ Visible(r, u))
    <3>1. ~ Own(r, u)
      BY <1>i, <2>2, OneOwner
    <3> QED
      BY <1>i, <2>2, <3>1, VisibleSettled
  <2> QED
    BY <2>1, <2>2
<1>3. OldKept(r, NONE, NONE)
  BY <1>1, <1>2 DEF OldKept
<1>4. NewHidden(r)
  BY <1>1 DEF NewHidden
<1>5. LinkedKept(NONE, NONE)
  BY <1>i, OwnOf DEF LinkedKept
<1> QED
  BY <1>1, <1>3, <1>4, <1>5 DEF OtherStep

LEMMA OwnChains ==
    ASSUME MvccInv, NEW s \in Sessions, OwnStep(s)
    PROVE  Chains'
<1>i. Types /\ IdStep /\ SnapStep
  BY OwnSteps DEF MvccInv
<1>1. ASSUME NEW k \in Keys PROVE ChainInv(k)'
  <2>1. ChainInv(k)
    BY <1>1 DEF MvccInv, Chains
  <2>2. Of(k)' = Of(k) /\ Linked(k)' = Linked(k) /\ chain' = chain
    BY <1>i, OwnOf DEF OwnStep
  <2>3. ASSUME NEW u \in Of(k) \ Linked(k)
        PROVE  ~ Live(u)' /\ \E c \in Linked(k) : c > u /\ Cutter(c)'
    <3>1. ~ Live(u) /\ u \in DOMAIN upd
      BY <2>1 DEF ChainInv, Of
    <3>2. PICK c \in Linked(k) : c > u /\ Cutter(c)
      BY <2>1 DEF ChainInv
    <3>3. c \in DOMAIN upd
      BY <1>1, <2>1, LinkedOf DEF Of
    <3>4. upd'[c] = upd[c]
      BY <1>i, <3>2, <3>3, OwnChanged DEF Cutter
    <3>5. Cutter(c)'
      BY <1>i, <3>2, <3>3, <3>4, CutterKept
    <3>6. ~ Live(u)'
      BY <1>i, <3>1, OwnChanged
    <3> QED
      BY <3>2, <3>5, <3>6
  <2> QED
    BY <2>1, <2>2, <2>3 DEF ChainInv
<1> QED
  BY <1>1 DEF Chains

LEMMA OwnOrdered ==
    ASSUME MvccInv, NEW s \in Sessions, OwnStep(s), OwnOrders(s)
    PROVE  Ordered'
<1>i. Types /\ TxnInv /\ IdStep /\ SnapStep
  BY OwnSteps DEF MvccInv
<1>1. ASSUME NEW k \in Keys, NEW u \in Of(k), NEW v \in Of(k), u < v, Live(u)', Live(v)'
      PROVE  OrderInv(u, v)'
  <2>1. u \in DOMAIN upd /\ v \in DOMAIN upd
    BY <1>1 DEF Of
  <2>2. /\ Live(u) /\ Live(v) /\ upd'[u].txn = upd[u].txn /\ upd'[v].txn = upd[v].txn
    BY <1>1, <1>i, <2>1, OwnChanged
  <2>3. OrderInv(u, v)
    BY <1>1, <2>2, OrderPair DEF MvccInv
  <2>4. upd[u].txn = upd[v].txn \/ Settled(u)
    BY <2>3 DEF OrderInv
  <2>5. Settled(u) => Settled(u)'
    <3>1. ASSUME Settled(u) PROVE Settled(u)'
      <4>1. upd'[u] = upd[u]
        BY <1>i, <2>1, <3>1, OwnChanged
      <4> QED
        BY <1>i, <2>1, <2>2, <3>1, <4>1, SettledKept
    <3> QED
      BY <3>1
  <2>6. /\ upd'[v].durable # NONE =>
              upd'[u].durable # NONE /\ upd'[u].durable <= upd'[v].durable
        /\ upd'[v].prepare # "inprogress" => Readable(u)'
    <3>1. CASE Own(s, v)
      BY <1>1, <2>2, <3>1 DEF OwnOrders
    <3>2. CASE ~ Own(s, v)
      <4>1. upd'[v] = upd[v]
        BY <1>i, <2>1, <3>2, OwnChanged
      <4>2. upd'[u] = upd[u]
        <5>1. CASE Own(s, u)
          <6>1. Settled(u)
            BY <2>4, <3>2, <5>1 DEF Own
          <6> QED
            BY <1>i, <2>1, <6>1, OwnChanged
        <5>2. CASE ~ Own(s, u)
          BY <1>i, <2>1, <5>2, OwnChanged
        <5> QED
          BY <5>1, <5>2
      <4> QED
        BY <2>3, <4>1, <4>2 DEF OrderInv, Readable
    <3> QED
      BY <3>1, <3>2
  <2>7. ASSUME NEW t \in Sessions, upd'[v].txn \in txn'[t].seen
        PROVE  upd'[u].txn \in txn'[t].seen
    <3>1. txn'[t].seen \in {txn[t].seen, {}}
      BY <1>i, OwnSteps
    <3>2. txn'[t].seen = txn[t].seen
      BY <2>7, <3>1
    <3> QED
      BY <2>2, <2>3, <2>7, <3>2 DEF OrderInv
  <2>8. ASSUME NEW t \in Sessions, txn'[t].state = "running", Own(t, v)' PROVE Visible(t, u)'
    <3>1. /\ txn'[t].id = txn[t].id /\ txn'[t].read = txn[t].read
          /\ txn[t].state = "running" /\ txn'[t].seen = txn[t].seen
      BY <1>i, <2>8, OwnSteps
    <3>2. Own(t, v)
      BY <2>2, <2>8, <3>1 DEF Own
    <3>3. Visible(t, u)
      BY <2>3, <3>1, <3>2 DEF OrderInv
    <3>4. CASE upd[u].txn = upd[v].txn
      <4>1. Own(t, u)'
        BY <2>2, <2>8, <3>4 DEF Own
      <4> QED
        BY <4>1 DEF Own, Visible
    <3>5. CASE Settled(u)
      <4>1. upd'[u] = upd[u]
        BY <1>i, <2>1, <3>5, OwnChanged
      <4> QED
        BY <3>1, <3>3, <4>1 DEF Visible
    <3> QED
      BY <2>4, <3>4, <3>5
  <2> QED
    BY <2>2, <2>4, <2>5, <2>6, <2>7, <2>8 DEF OrderInv
<1>2. \A k \in Keys : Of(k)' = Of(k)
  BY <1>i, OwnOf
<1> QED
  BY <1>1, <1>2 DEF Ordered

\* The updates of other transactions stay as they are.
LEMMA OthersKept ==
    ASSUME MvccInv, NEW s \in Sessions, OwnStep(s), NEW t \in Sessions, t # s,
           NEW u \in DOMAIN upd, Live(u), Own(t, u)
    PROVE  upd'[u] = upd[u] /\ OwnInv(t, u)'
<1>i. Types /\ TxnInv /\ UpdInv /\ Ordered
  BY DEF MvccInv
<1>1. ~ Own(s, u)
  BY <1>i, OneOwner
<1>2. upd'[u] = upd[u]
  BY <1>1, <1>i, OwnChanged
<1>3. pc'[t] = pc[t] /\ my'[t] = my[t] /\ txn'[t] = txn[t]
  BY DEF OwnStep, Kept
<1>4. OwnInv(t, u)
  BY OwnIs
<1>5. Of(upd[u].key)' = Of(upd[u].key)
  <2>1. PICK k : k = upd[u].key
    OBVIOUS
  <2>2. Of(k)' = Of(k)
    BY <1>i, OwnOf
  <2> QED
    BY <1>2, <2>1, <2>2
<1>6. ASSUME txn[t].state = "prepared", upd[u].durable = NONE, NEW v \in Of(upd[u].key),
             upd[v].durable <= txn[t].commit
      PROVE  upd'[v].durable <= txn[t].commit
  <2>1. v \in DOMAIN upd /\ upd[v].key = upd[u].key /\ u \in Nat /\ v \in Nat
        /\ upd[u].key \in Keys /\ u \in Of(upd[u].key)
    BY <1>i, OfDomain, UpdTyped DEF Types, Of
  <2>2. txn[t].commit \in Nat
    BY <1>i, TxnTyped DEF Types
  <2>3. CASE upd'[v] = upd[v]
    BY <1>6, <2>3
  <2>4. CASE upd'[v] # upd[v]
    <3>1. Own(s, v) /\ ~ Settled(v) /\ Live(v)
      BY <1>i, <2>1, <2>4, OwnChanged
    <3>2. upd[u].txn # upd[v].txn
      BY <1>1, <3>1 DEF Own
    <3>3. ~ Settled(u)
      BY <1>i, <1>6, SettledLive
    <3>4. u # v
      BY <3>2
    <3>5. CASE u < v
      <4>1. OrderInv(u, v)
        BY <1>i, <2>1, <3>1, <3>5, OrderPair
      <4> QED
        BY <3>2, <3>3, <4>1 DEF OrderInv
    <3>6. CASE v < u
      <4>1. OrderInv(v, u)
        BY <1>i, <2>1, <3>1, <3>6, OrderPair
      <4> QED
        BY <3>1, <3>2, <4>1 DEF OrderInv
    <3> QED
      BY <2>1, <3>4, <3>5, <3>6
  <2> QED
    BY <2>3, <2>4
<1>7. OwnInv(t, u)'
  <2>1. txn[t].state = "prepared" /\ pc[t] \in Resolving /\ upd[u].durable = NONE =>
           \A v \in Of(upd[u].key) : upd'[v].durable <= txn[t].commit
    BY <1>4, <1>6 DEF OwnInv
  <2> QED
    BY <1>2, <1>3, <1>4, <1>5, <2>1 DEF OwnInv
<1> QED
  BY <1>2, <1>7

LEMMA OwnUpdInv ==
    ASSUME MvccInv, NEW s \in Sessions, OwnStep(s), OwnUpdates(s)
    PROVE  UpdInv'
<1>i. Types /\ TxnInv /\ UpdInv /\ IdStep
  BY OwnSteps DEF MvccInv
<1>1. ASSUME NEW u \in DOMAIN upd PROVE UpdateInv(u)'
  <2>1. UpdateInv(u)
    BY <1>i DEF UpdInv
  <2>2. /\ Live(u)' => Live(u) /\ upd'[u].txn = upd[u].txn
        /\ ~ Live(u)' => upd'[u] = upd[u] \/ upd'[u] = Aborted(upd[u])
        /\ Settled(u) \/ ~ Own(s, u) => upd'[u] = upd[u]
    BY <1>i, OwnChanged
  <2>3. ~ Live(u)' => upd'[u].prepare = "init" /\ upd'[u].start = NONE /\ upd'[u].durable = NONE
    <3>1. ASSUME ~ Live(u)', upd'[u] = upd[u]
          PROVE  upd'[u].prepare = "init" /\ upd'[u].start = NONE /\ upd'[u].durable = NONE
      BY <2>1, <3>1 DEF UpdateInv, Live
    <3>2. ASSUME upd'[u] = Aborted(upd[u])
          PROVE  upd'[u].prepare = "init" /\ upd'[u].start = NONE /\ upd'[u].durable = NONE
      BY <1>i, <3>2, AbortedIs DEF Types
    <3> QED
      BY <2>2, <3>1, <3>2
  <2>4. \A t : t \in Sessions /\ Live(u)' => (Own(t, u)' <=> Own(t, u))
    BY <1>i, <2>2, OwnSteps DEF Own
  <2>5. ASSUME Live(u)', NEW t \in Sessions, Own(t, u)' PROVE OwnInv(t, u)'
    <3>1. Own(t, u) /\ Live(u)
      BY <2>2, <2>4, <2>5
    <3>2. CASE t = s
      BY <2>5, <3>1, <3>2 DEF OwnUpdates
    <3>3. CASE t # s
      BY <3>1, <3>3, OthersKept
    <3> QED
      BY <3>2, <3>3
  <2>6. ASSUME Live(u)', upd'[u].durable # NONE PROVE upd'[u].start = upd'[u].durable
    <3>1. CASE Own(s, u)
      BY <2>2, <2>6, <3>1 DEF OwnUpdates
    <3>2. CASE ~ Own(s, u)
      BY <2>1, <2>2, <2>6, <3>2 DEF UpdateInv
    <3> QED
      BY <3>1, <3>2
  <2>7. ASSUME Live(u)', \A t \in Sessions : ~ Own(t, u)'
        PROVE  Settled(u)' /\ upd'[u].durable # NONE /\ upd'[u].kind # "reserve"
    <3>1. \A t \in Sessions : ~ Own(t, u)
      BY <2>4, <2>7
    <3>2. Settled(u) /\ upd[u].durable # NONE /\ upd[u].kind # "reserve" /\ Live(u)
      BY <2>1, <2>2, <2>7, <3>1 DEF UpdateInv
    <3>3. upd'[u] = upd[u]
      BY <2>2, <3>2
    <3>4. Settled(u)'
      BY <1>i, <3>2, <3>3, SettledKept
    <3> QED
      BY <3>2, <3>3, <3>4
  <2>8. Live(u)' => upd'[u].txn < current'
    <3>1. current' = current
      BY DEF OwnStep
    <3> QED
      BY <2>1, <2>2, <3>1 DEF UpdateInv
  <2>9. upd'[u].durable # NONE => upd'[u].start = upd'[u].durable
    BY <2>3, <2>6
  <2> QED
    BY <2>3, <2>5, <2>7, <2>8, <2>9 DEF UpdateInv
<1>2. DOMAIN upd' = DOMAIN upd
  BY DEF OwnStep
<1> QED
  BY <1>1, <1>2 DEF UpdInv

LEMMA OwnStepInv ==
    ASSUME MvccInv, NEW s \in Sessions, OwnStep(s), OwnUpdates(s), OwnOrders(s),
           Place(s)', LockedInv(s)'
    PROVE  MvccInv'
<1>i. Types /\ TxnInv /\ IdStep /\ SnapStep
  BY OwnSteps DEF MvccInv
<1>1. /\ chain' = chain /\ running' = running /\ current' = current /\ pinned_ts' = pinned_ts
      /\ SessionType' /\ upd' \in Seq(Updates) /\ pc'[s] \notin Busy
      /\ \A t \in Sessions : t # s => Kept(t)
  BY DEF OwnStep
<1>2. Types'
  BY <1>i, <1>1 DEF Types, SharedType
<1>3. TxnInv'
  <2>1. ASSUME NEW t \in Sessions PROVE IdInv(t)'
    <3>1. IdInv(t)
      BY <1>i, TxnParts
    <3>2. \A r \in Sessions : txn'[r].id = txn[r].id
      BY <1>i, OwnSteps
    <3>3. /\ txn'[t].read = txn[t].read /\ txn'[t].seen \in {txn[t].seen, {}}
          /\ txn'[t].state = "prepared" <=> txn[t].state = "prepared"
      BY <1>i, OwnSteps
    <3> QED
      BY <1>1, <3>1, <3>2, <3>3 DEF IdInv
  <2>2. TableInv'
    BY <1>1, <1>i DEF TableInv, TxnInv
  <2>3. \A t \in Sessions, u \in DOMAIN upd :
           t # s /\ Own(t, u) => u \in DOMAIN upd' /\ upd'[u] = upd[u]
    <3>1. ASSUME NEW t \in Sessions, NEW u \in DOMAIN upd, t # s, Own(t, u)
          PROVE  u \in DOMAIN upd' /\ upd'[u] = upd[u]
      <4>1. ~ Own(s, u)
        BY <1>i, <3>1, OneOwner
      <4> QED
        BY <1>i, <4>1, OwnChanged
    <3> QED
      BY <3>1
  <2> QED
    BY <1>1, <2>1, <2>2, <2>3, TxnQuiet
<1>4. UpdInv' /\ Ordered' /\ Chains'
  BY OwnUpdInv, OwnOrdered, OwnChains
<1>5. ASSUME NEW t \in Sessions PROVE WalkInv(t)'
  <2>1. CASE t = s
    BY <1>1, <2>1 DEF WalkInv, Busy, Traversing
  <2>2. CASE t # s
    <3>1. OtherStep(t, NONE, NONE)
      BY <2>2, OwnOther
    <3>2. pc[t] = "scan" => ScanInv(t)'
      BY <1>i, <3>1, ScanOther
    <3>3. WalkInv(t)
      BY DEF MvccInv, Walks
    <3> QED
      BY <3>1, <3>2, <3>3, WalkInvOther DEF MvccInv
  <2> QED
    BY <2>1, <2>2
<1> QED
  BY <1>2, <1>3, <1>4, <1>5 DEF MvccInv, Walks

LEMMA SeqOf ==
    ASSUME NEW n \in Nat, NEW S, NEW f \in [1..n -> S]
    PROVE  f \in Seq(S) /\ DOMAIN f = 1..n
  OBVIOUS

LEMMA UpdFunction ==
    ASSUME SharedType
    PROVE  Len(upd) \in Nat /\ DOMAIN upd = 1..Len(upd) /\ upd \in [1..Len(upd) -> Updates]
  BY DEF SharedType

\* One update is changed.
LEMMA SetIs ==
    ASSUME SharedType, NEW u \in DOMAIN upd, NEW x \in Updates, upd' = [upd EXCEPT ![u] = x]
    PROVE  /\ upd' \in Seq(Updates) /\ DOMAIN upd' = DOMAIN upd /\ upd'[u] = x
           /\ \A v \in DOMAIN upd : v # u => upd'[v] = upd[v]
<1>1. Len(upd) \in Nat /\ DOMAIN upd = 1..Len(upd) /\ upd \in [1..Len(upd) -> Updates]
  BY UpdFunction
<1>2. upd' \in [1..Len(upd) -> Updates]
  BY <1>1
<1>3. upd' \in Seq(Updates)
  BY <1>1, <1>2, SeqOf
<1> QED
  BY <1>1, <1>2, <1>3

\* All updates of a transaction are stamped, the reserved ones aborted.
LEMMA StampIs ==
    ASSUME Types, NEW s \in Sessions, NEW start \in Nat, NEW durable \in Nat,
           NEW prepare \in Prepares, Stamp(s, start, durable, prepare)
    PROVE  /\ upd' \in Seq(Updates) /\ DOMAIN upd' = DOMAIN upd
           /\ \A u \in DOMAIN upd :
                 /\ ~ Own(s, u) => upd'[u] = upd[u]
                 /\ Own(s, u) /\ upd[u].kind = "reserve" => upd'[u] = Aborted(upd[u])
                 /\ Own(s, u) /\ upd[u].kind # "reserve" =>
                       /\ upd'[u].txn = upd[u].txn /\ upd'[u].key = upd[u].key
                       /\ upd'[u].kind = upd[u].kind /\ upd'[u].start = start
                       /\ upd'[u].durable = durable /\ upd'[u].prepare = prepare
<1>1. Len(upd) \in Nat /\ DOMAIN upd = 1..Len(upd) /\ upd \in [1..Len(upd) -> Updates]
  BY UpdFunction DEF Types
<1>2. DOMAIN upd' = DOMAIN upd /\ upd' = [u \in DOMAIN upd |-> upd'[u]]
  BY DEF Stamp
<1>3. ASSUME NEW u \in DOMAIN upd
      PROVE  /\ upd'[u] \in Updates
             /\ ~ Own(s, u) => upd'[u] = upd[u]
             /\ Own(s, u) /\ upd[u].kind = "reserve" => upd'[u] = Aborted(upd[u])
             /\ Own(s, u) /\ upd[u].kind # "reserve" =>
                   /\ upd'[u].txn = upd[u].txn /\ upd'[u].key = upd[u].key
                   /\ upd'[u].kind = upd[u].kind /\ upd'[u].start = start
                   /\ upd'[u].durable = durable /\ upd'[u].prepare = prepare
  <2>1. u \in Mine(s) <=> Own(s, u)
    BY MineIs
  <2>2. upd[u] \in Updates /\ Aborted(upd[u]) \in Updates
    BY AbortedIs, UpdTyped DEF Types
  <2>3. PICK w : w = upd[u]
    OBVIOUS
  <2>4. PICK x : x = [w EXCEPT !.start = start, !.durable = durable, !.prepare = prepare]
    BY Zenon
  <2>5. /\ x \in Updates /\ x.txn = w.txn /\ x.key = w.key /\ x.kind = w.kind
        /\ x.start = start /\ x.durable = durable /\ x.prepare = prepare
    BY <2>2, <2>3, <2>4 DEF Updates
  <2>6. upd'[u] = IF ~ Own(s, u) THEN upd[u]
                  ELSE IF upd[u].kind = "reserve" THEN Aborted(upd[u]) ELSE x
    BY <2>1, <2>3, <2>4 DEF Stamp
  <2> QED
    BY <2>2, <2>3, <2>5, <2>6
<1>4. upd' \in [1..Len(upd) -> Updates]
  BY <1>1, <1>2, <1>3
<1>5. upd' \in Seq(Updates)
  BY <1>1, <1>4, SeqOf
<1> QED
  BY <1>2, <1>3, <1>5

\* The updates of a running transaction are not settled, and not prepared.
LEMMA RunningOwn ==
    ASSUME MvccInv, NEW s \in Sessions, txn[s].state = "running", pc[s] = "idle",
           NEW u \in DOMAIN upd, Own(s, u)
    PROVE  /\ Live(u) /\ ~ Settled(u)
           /\ upd[u].prepare = "init" /\ upd[u].start = NONE /\ upd[u].durable = NONE
<1>1. Live(u)
  BY OwnLive DEF MvccInv
<1>2. ~ Settled(u)
  BY OwnRunning DEF MvccInv
<1>3. OwnInv(s, u)
  BY <1>1, OwnIs
<1> QED
  BY <1>1, <1>2, <1>3 DEF OwnInv

LEMMA CommitStep ==
    ASSUME MvccInv, NEW s \in Sessions, NEW ts \in 1..MaxTs, Commit(s, ts)
    PROVE  MvccInv'
<1>i. /\ Types /\ TxnInv /\ UpdInv /\ Ordered /\ pc[s] = "idle" /\ txn[s].state = "running"
      /\ Place(s) /\ InOrder(s, ts)
  BY TxnParts DEF MvccInv, Commit, Active
<1>1. /\ chain' = chain /\ pinned_ts' = pinned_ts /\ my' = my
      /\ current' = current /\ running' = running
      /\ pc' = [pc EXCEPT ![s] = "release"]
  BY DEF Commit, global, Goto
<1>2. my[s] \in Locals /\ txn[s] \in Txns /\ my[s] = NoLocals /\ ts \in Nat /\ ts # NONE
  BY <1>i, TxnTyped, MvccAssumption DEF Types, Place, NONE
<1>x. PICK x : x = [txn[s] EXCEPT !.state = "committing", !.seen = {}]
  BY Zenon
<1>3. txn' = [txn EXCEPT ![s] = x]
  BY <1>x DEF Commit
<1>4. /\ x \in Txns /\ x.state = "committing" /\ x.seen = {} /\ x.id = txn[s].id
      /\ x.read = txn[s].read /\ x.prepare = txn[s].prepare /\ x.commit = txn[s].commit
  BY <1>x, <1>2 DEF Txns
<1>5. Move(s, "release", my[s])
  BY <1>1, <1>i DEF Move, Types, SessionType
<1>6. /\ SessionType' /\ txn'[s] = x /\ pc'[s] = "release" /\ my'[s] = my[s]
      /\ \A t \in Sessions : t # s => Kept(t)
  BY <1>i, <1>2, <1>3, <1>4, <1>5, SessionStep DEF Types, Labels
<1>7. /\ upd' \in Seq(Updates) /\ DOMAIN upd' = DOMAIN upd
      /\ \A u \in DOMAIN upd :
            /\ ~ Own(s, u) => upd'[u] = upd[u]
            /\ Own(s, u) /\ upd[u].kind = "reserve" => upd'[u] = Aborted(upd[u])
            /\ Own(s, u) /\ upd[u].kind # "reserve" =>
                  /\ upd'[u].txn = upd[u].txn /\ upd'[u].key = upd[u].key
                  /\ upd'[u].kind = upd[u].kind /\ upd'[u].start = ts
                  /\ upd'[u].durable = ts /\ upd'[u].prepare = "init"
  <2>1. Stamp(s, ts, ts, "init")
    BY DEF Commit
  <2> QED
    BY <1>i, <1>2, <2>1, StampIs DEF Prepares
<1>8. ASSUME NEW u \in DOMAIN upd, Own(s, u), Live(u)'
      PROVE  /\ upd'[u].start = ts /\ upd'[u].durable = ts /\ upd'[u].prepare = "init"
             /\ upd[u].kind # "reserve" /\ upd'[u].kind = upd[u].kind
  <2>1. upd[u].kind # "reserve"
    BY <1>i, <1>7, <1>8, AbortedIs DEF Live, Types
  <2> QED
    BY <1>7, <1>8, <2>1
<1>9. OwnStep(s)
  <2>1. ASSUME NEW u \in DOMAIN upd
        PROVE  upd'[u] = upd[u] \/ (Own(s, u) /\ ~ Settled(u) /\ Progress(u))
    <3>1. ASSUME Own(s, u) PROVE ~ Settled(u) /\ Progress(u)
      <4>1. ~ Settled(u) /\ upd[u].prepare = "init" /\ upd[u].start = NONE
        BY <1>i, <3>1, RunningOwn
      <4>2. CASE upd[u].kind = "reserve"
        BY <1>7, <1>i, <3>1, <4>1, <4>2, AbortedIs DEF Progress, Types
      <4>3. CASE upd[u].kind # "reserve"
        BY <1>2, <1>7, <3>1, <4>1, <4>3 DEF Progress, NONE
      <4> QED
        BY <4>1, <4>2, <4>3
    <3> QED
      BY <1>7, <3>1
  <2> QED
    BY <1>1, <1>i, <1>4, <1>6, <1>7, <2>1 DEF OwnStep, Busy, Traversing
<1>10. OwnUpdates(s)
  <2>1. ASSUME NEW u \in DOMAIN upd, Own(s, u), Live(u)' PROVE OwnInv(s, u)'
    BY <1>2, <1>4, <1>6, <1>8, <2>1 DEF OwnInv
  <2> QED
    BY <1>8, <2>1 DEF OwnUpdates
<1>11. OwnOrders(s)
  <2>1. ASSUME NEW k \in Keys, NEW u \in Of(k), NEW v \in Of(k), u < v, Live(u), Live(v),
               Live(u)', Live(v)', Own(s, v)
        PROVE  /\ upd'[u].durable # NONE /\ upd'[u].durable <= upd'[v].durable
               /\ Readable(u)'
    <3>1. u \in DOMAIN upd /\ v \in DOMAIN upd /\ upd[u].key = upd[v].key /\ upd'[v].durable = ts
      BY <1>8, <2>1 DEF Of
    <3>2. CASE Own(s, u)
      BY <1>2, <1>8, <2>1, <3>1, <3>2 DEF Readable
    <3>3. CASE ~ Own(s, u)
      <4>1. upd'[u] = upd[u]
        BY <1>7, <3>1, <3>3
      <4>2. OrderInv(u, v)
        BY <1>i, <2>1, OrderPair
      <4>3. Settled(u)
        BY <2>1, <3>3, <4>2 DEF OrderInv, Own
      <4>4. upd[u].durable # NONE
        BY <1>i, <2>1, <3>1, <4>3, SettledLive
      <4>5. upd[u].durable <= ts
        <5>1. v \in Mine(s)
          BY <2>1, <3>1, MineIs
        <5> QED
          BY <1>i, <3>1, <5>1 DEF InOrder
      <4> QED
        BY <3>1, <4>1, <4>3, <4>4, <4>5 DEF Settled, Readable
    <3> QED
      BY <3>2, <3>3
  <2> QED
    BY <2>1 DEF OwnOrders
<1>12. Place(s)' /\ LockedInv(s)'
  BY <1>2, <1>4, <1>6, <1>i DEF Place, LockedInv, Busy, Traversing, Resolving
<1> QED
  BY <1>9, <1>10, <1>11, <1>12, OwnStepInv

LEMMA PrepareStep ==
    ASSUME MvccInv, NEW s \in Sessions, NEW ts \in 1..MaxTs, Prepare(s, ts)
    PROVE  MvccInv'
<1>i. /\ Types /\ TxnInv /\ UpdInv /\ Ordered /\ pc[s] = "idle" /\ txn[s].state = "running"
      /\ Place(s)
  BY TxnParts DEF MvccInv, Prepare, Active
<1>1. /\ chain' = chain /\ pinned_ts' = pinned_ts /\ my' = my
      /\ current' = current /\ running' = running
      /\ pc' = [pc EXCEPT ![s] = "prepared"]
  BY DEF Prepare, global, Goto
<1>2. /\ my[s] \in Locals /\ txn[s] \in Txns /\ my[s] = NoLocals /\ ts \in Nat /\ ts # NONE
      /\ txn[s].id # NONE
  <2>1. txn[s].id # NONE
    BY MineIs DEF Prepare, Own
  <2> QED
    BY <1>i, <2>1, TxnTyped, MvccAssumption DEF Types, Place, NONE
<1>x. PICK x : x = [txn[s] EXCEPT !.prepare = ts]
  BY Zenon
<1>3. txn' = [txn EXCEPT ![s] = x]
  BY <1>x DEF Prepare
<1>4. /\ x \in Txns /\ x.state = "running" /\ x.seen = txn[s].seen /\ x.id = txn[s].id
      /\ x.read = txn[s].read /\ x.prepare = ts /\ x.commit = txn[s].commit
  BY <1>i, <1>x, <1>2 DEF Txns
<1>5. Move(s, "prepared", my[s])
  BY <1>1, <1>i DEF Move, Types, SessionType
<1>6. /\ SessionType' /\ txn'[s] = x /\ pc'[s] = "prepared" /\ my'[s] = my[s]
      /\ \A t \in Sessions : t # s => Kept(t)
  BY <1>i, <1>2, <1>3, <1>4, <1>5, SessionStep DEF Types, Labels
<1>7. /\ upd' \in Seq(Updates) /\ DOMAIN upd' = DOMAIN upd
      /\ \A u \in DOMAIN upd :
            /\ ~ Own(s, u) => upd'[u] = upd[u]
            /\ Own(s, u) /\ upd[u].kind = "reserve" => upd'[u] = Aborted(upd[u])
            /\ Own(s, u) /\ upd[u].kind # "reserve" =>
                  /\ upd'[u].txn = upd[u].txn /\ upd'[u].key = upd[u].key
                  /\ upd'[u].kind = upd[u].kind /\ upd'[u].start = ts
                  /\ upd'[u].durable = NONE /\ upd'[u].prepare = "inprogress"
  <2>1. Stamp(s, ts, NONE, "inprogress") /\ NONE \in Nat
    BY DEF Prepare, NONE
  <2> QED
    BY <1>i, <1>2, <2>1, StampIs DEF Prepares
<1>8. ASSUME NEW u \in DOMAIN upd, Own(s, u), Live(u)'
      PROVE  /\ upd'[u].start = ts /\ upd'[u].durable = NONE /\ upd'[u].prepare = "inprogress"
             /\ upd[u].kind # "reserve" /\ upd'[u].kind = upd[u].kind
  <2>1. upd[u].kind # "reserve"
    BY <1>i, <1>7, <1>8, AbortedIs DEF Live, Types
  <2> QED
    BY <1>7, <1>8, <2>1
<1>9. OwnStep(s)
  <2>1. ASSUME NEW u \in DOMAIN upd
        PROVE  upd'[u] = upd[u] \/ (Own(s, u) /\ ~ Settled(u) /\ Progress(u))
    <3>1. ASSUME Own(s, u) PROVE ~ Settled(u) /\ Progress(u)
      <4>1. ~ Settled(u) /\ upd[u].prepare = "init" /\ upd[u].start = NONE
        BY <1>i, <3>1, RunningOwn
      <4>2. CASE upd[u].kind = "reserve"
        BY <1>7, <1>i, <3>1, <4>1, <4>2, AbortedIs DEF Progress, Types
      <4>3. CASE upd[u].kind # "reserve"
        BY <1>2, <1>7, <3>1, <4>1, <4>3 DEF Progress, NONE
      <4> QED
        BY <4>1, <4>2, <4>3
    <3> QED
      BY <1>7, <3>1
  <2> QED
    BY <1>1, <1>i, <1>4, <1>6, <1>7, <2>1 DEF OwnStep, Busy, Traversing
<1>10. OwnUpdates(s)
  <2>1. ASSUME NEW u \in DOMAIN upd, Own(s, u), Live(u)' PROVE OwnInv(s, u)'
    BY <1>2, <1>4, <1>6, <1>8, <2>1 DEF OwnInv
  <2> QED
    BY <1>8, <2>1 DEF OwnUpdates
<1>11. OwnOrders(s)
  <2>1. ASSUME NEW v \in DOMAIN upd, Live(v)', Own(s, v)
        PROVE  upd'[v].durable = NONE /\ upd'[v].prepare = "inprogress"
    BY <1>8, <2>1
  <2> QED
    BY <2>1 DEF OwnOrders, Of
<1>12. Place(s)' /\ LockedInv(s)'
  BY <1>2, <1>4, <1>6, <1>i DEF Place, LockedInv, Busy, Traversing, Resolving
<1> QED
  BY <1>9, <1>10, <1>11, <1>12, OwnStepInv

LEMMA ResolveLockStep ==
    ASSUME MvccInv, NEW s \in Sessions, ResolveLock(s)
    PROVE  MvccInv'
<1>i. /\ Types /\ TxnInv /\ UpdInv /\ Ordered /\ pc[s] = "resolve" /\ txn[s].state = "prepared"
      /\ Place(s) /\ my[s] = NoLocals
  <2>1. pc[s] = "resolve" /\ Place(s)
    BY TxnParts DEF MvccInv, ResolveLock
  <2> QED
    BY <2>1 DEF MvccInv, Place, Resolving
<1>1. /\ chain' = chain /\ pinned_ts' = pinned_ts /\ txn' = txn
      /\ current' = current /\ running' = running
      /\ pc' = [pc EXCEPT ![s] = "stamp"]
  BY DEF ResolveLock, global, Goto
<1>2. PICK w \in ToResolve({v \in Mine(s) : upd[v].prepare = "inprogress"}) :
         upd' = [upd EXCEPT ![w].prepare = "locked"] /\ my' = [my EXCEPT ![s].at = w]
  BY DEF ResolveLock
<1>3. /\ w \in DOMAIN upd /\ Own(s, w) /\ upd[w].prepare = "inprogress"
      /\ \A v \in DOMAIN upd : Own(s, v) /\ upd[v].prepare = "inprogress"
                               /\ upd[v].key = upd[w].key => w <= v
  BY MineIs DEF ToResolve
<1>4. my[s] \in Locals /\ txn[s] \in Txns /\ w \in Nat /\ upd[w] \in Updates
  BY <1>i, <1>3, TxnTyped, UpdTyped DEF Types
<1>x. PICK x : x = [upd[w] EXCEPT !.prepare = "locked"]
  BY Zenon
<1>5. /\ x \in Updates /\ x.txn = upd[w].txn /\ x.key = upd[w].key /\ x.kind = upd[w].kind
      /\ x.start = upd[w].start /\ x.durable = upd[w].durable /\ x.prepare = "locked"
  BY <1>4, <1>x DEF Updates, Prepares
<1>6. /\ upd' \in Seq(Updates) /\ DOMAIN upd' = DOMAIN upd /\ upd'[w] = x
      /\ \A v \in DOMAIN upd : v # w => upd'[v] = upd[v]
  <2>1. upd' = [upd EXCEPT ![w] = x]
    BY <1>2, <1>x
  <2> QED
    BY <1>i, <1>3, <1>5, <2>1, SetIs DEF Types
<1>y. PICK y : y = [my[s] EXCEPT !.at = w]
  BY Zenon
<1>7. y \in Locals /\ y.at = w
  BY <1>4, <1>y DEF Locals
<1>8. Move(s, "stamp", y)
  BY <1>1, <1>2, <1>y DEF Move
<1>9. txn' = [txn EXCEPT ![s] = txn[s]]
  BY <1>1, <1>i DEF Types, SessionType
<1>10. /\ SessionType' /\ pc'[s] = "stamp" /\ my'[s] = y
       /\ \A t \in Sessions : t # s => Kept(t)
  BY <1>i, <1>4, <1>7, <1>8, <1>9, SessionStep DEF Types, Labels
<1>11. OwnInv(s, w) /\ ~ Settled(w)
  <2>1. Live(w)
    BY <1>i, <1>3, OwnLive
  <2> QED
    BY <1>3, <2>1, OwnIs DEF Settled, Readable
<1>12. OwnStep(s)
  <2>1. Progress(w)
    BY <1>3, <1>4, <1>5, <1>6 DEF Progress, Updates
  <2>2. ASSUME NEW u \in DOMAIN upd
        PROVE  upd'[u] = upd[u] \/ (Own(s, u) /\ ~ Settled(u) /\ Progress(u))
    BY <1>3, <1>6, <1>11, <2>1
  <2> QED
    BY <1>1, <1>6, <1>10, <2>2 DEF OwnStep, Busy, Traversing
<1>13. ASSUME NEW u \in DOMAIN upd, Own(s, u), Live(u), u # w
       PROVE  OwnInv(s, u) /\ upd[u].prepare \in {"inprogress", "resolved"}
  <2>1. OwnInv(s, u) /\ upd[u].prepare \in Prepares
    BY <1>13, <1>i, OwnIs, UpdTyped DEF Types
  <2> QED
    BY <1>i, <2>1 DEF OwnInv, Prepares
<1>14. ASSUME NEW v \in DOMAIN upd PROVE upd'[v].durable = upd[v].durable /\ upd'[v].key = upd[v].key
  BY <1>5, <1>6
<1>15. OwnUpdates(s)
  <2>1. ASSUME NEW u \in DOMAIN upd, Own(s, u), Live(u), Live(u)' PROVE OwnInv(s, u)'
    <3>k. PICK k : k = upd[u].key
      OBVIOUS
    <3>1. Of(k)' = Of(k)
      BY <1>12, <1>i, OwnOf
    <3>2. OwnInv(s, u)
      BY <2>1, OwnIs
    <3>3. upd[u].durable = NONE => \A v \in Of(k) : upd'[v].durable <= txn[s].commit
      BY <1>14, <1>i, <3>2, <3>k DEF OwnInv, Resolving, Of
    <3>4. upd'[u].key = k
      BY <1>14, <3>k
    <3>5. CASE u = w
      BY <1>1, <1>3, <1>5, <1>6, <1>7, <1>10, <1>i, <3>1, <3>2, <3>3, <3>4, <3>5 DEF OwnInv
    <3>6. CASE u # w
      <4>1. upd'[u] = upd[u] /\ upd[u].prepare \in {"inprogress", "resolved"}
        BY <1>6, <1>13, <2>1, <3>6
      <4> QED
        BY <1>1, <1>10, <1>i, <3>1, <3>2, <3>3, <3>4, <4>1 DEF OwnInv
    <3> QED
      BY <3>5, <3>6
  <2>2. ASSUME NEW u \in DOMAIN upd, Live(u), upd'[u].durable # NONE
        PROVE  upd'[u].start = upd'[u].durable
    <3>1. UpdateInv(u)
      BY <1>i DEF UpdInv
    <3> QED
      BY <1>5, <1>6, <2>2, <3>1 DEF UpdateInv
  <2> QED
    BY <2>1, <2>2 DEF OwnUpdates
<1>16. OwnOrders(s)
  <2>1. ASSUME NEW k \in Keys, NEW u \in Of(k), NEW v \in Of(k), u < v, Live(u), Live(v), Own(s, v)
        PROVE  /\ upd'[v].durable # NONE =>
                     upd'[u].durable # NONE /\ upd'[u].durable <= upd'[v].durable
               /\ upd'[v].prepare # "inprogress" => Readable(u)'
    <3>1. u \in DOMAIN upd /\ v \in DOMAIN upd /\ upd[u].key = upd[v].key /\ u \in Nat /\ v \in Nat
      BY <1>i, <2>1, OfDomain DEF Types
    <3>2. OrderInv(u, v)
      BY <1>i, <2>1, OrderPair
    <3>3. /\ upd'[v].durable # NONE =>
                upd'[u].durable # NONE /\ upd'[u].durable <= upd'[v].durable
      BY <1>14, <3>1, <3>2 DEF OrderInv
    <3>4. CASE v = w
      <4>1. u # w /\ ~ (w <= u)
        BY <2>1, <3>1, <3>4
      <4>2. Readable(u)
        <5>1. CASE Own(s, u)
          BY <1>3, <1>13, <2>1, <3>1, <3>4, <4>1, <5>1 DEF Readable
        <5>2. CASE ~ Own(s, u)
          BY <2>1, <3>2, <5>2 DEF OrderInv, Own, Settled
        <5> QED
          BY <5>1, <5>2
      <4> QED
        BY <1>6, <3>1, <3>3, <4>1, <4>2 DEF Readable
    <3>5. CASE v # w
      <4>1. upd[v].prepare # "inprogress" => Readable(u) /\ u # w
        BY <1>3, <3>2 DEF OrderInv, Readable
      <4> QED
        BY <1>6, <3>1, <3>3, <3>5, <4>1 DEF Readable
    <3> QED
      BY <3>4, <3>5
  <2> QED
    BY <2>1 DEF OwnOrders
<1>17. Place(s)'
  BY <1>1, <1>10, <1>i DEF Place, Busy, Traversing, Resolving
<1>18. LockedInv(s)'
  <2>1. Own(s, w)'
    BY <1>1, <1>3, <1>5, <1>6 DEF Own
  <2> QED
    BY <1>3, <1>5, <1>6, <1>7, <1>10, <2>1 DEF LockedInv, Own
<1> QED
  BY <1>12, <1>15, <1>16, <1>17, <1>18, OwnStepInv

LEMMA ResolveStampStep ==
    ASSUME MvccInv, NEW s \in Sessions, ResolveStamp(s)
    PROVE  MvccInv'
<1>w. PICK w : w = my[s].at
  OBVIOUS
<1>i. /\ Types /\ TxnInv /\ UpdInv /\ Ordered /\ pc[s] = "stamp" /\ txn[s].state = "prepared"
      /\ Place(s) /\ LockedInv(s) /\ txn[s].commit >= txn[s].prepare /\ txn[s].prepare # NONE
  <2>1. pc[s] = "stamp" /\ Place(s) /\ LockedInv(s)
    BY TxnParts DEF MvccInv, ResolveStamp
  <2> QED
    BY <2>1 DEF MvccInv, Place, Resolving
<1>c. PICK c : c = txn[s].commit
  OBVIOUS
<1>1. /\ chain' = chain /\ pinned_ts' = pinned_ts /\ txn' = txn /\ my' = my
      /\ current' = current /\ running' = running
      /\ pc' = [pc EXCEPT ![s] = "unlock"]
  BY DEF ResolveStamp, global, Goto
<1>3. w \in DOMAIN upd /\ Own(s, w) /\ upd[w].prepare = "locked"
  BY <1>i, <1>w DEF LockedInv
<1>4. /\ my[s] \in Locals /\ txn[s] \in Txns /\ w \in Nat /\ upd[w] \in Updates
      /\ c \in Nat /\ txn[s].prepare \in Nat /\ c # NONE
  <2>1. /\ my[s] \in Locals /\ txn[s] \in Txns /\ w \in Nat /\ upd[w] \in Updates
        /\ c \in Nat /\ txn[s].prepare \in Nat
    BY <1>i, <1>c, <1>3, TxnTyped, UpdTyped DEF Types
  <2> QED
    BY <1>i, <1>c, <2>1 DEF NONE
<1>x. PICK x : x = [upd[w] EXCEPT !.start = c, !.durable = c]
  BY Zenon
<1>5. /\ x \in Updates /\ x.txn = upd[w].txn /\ x.key = upd[w].key /\ x.kind = upd[w].kind
      /\ x.start = c /\ x.durable = c /\ x.prepare = "locked"
  BY <1>3, <1>4, <1>x DEF Updates, Prepares
<1>6. /\ upd' \in Seq(Updates) /\ DOMAIN upd' = DOMAIN upd /\ upd'[w] = x
      /\ \A v \in DOMAIN upd : v # w => upd'[v] = upd[v]
  <2>1. upd' = [upd EXCEPT ![w].start = c, ![w].durable = c]
    BY <1>w, <1>c DEF ResolveStamp
  <2>2. upd' = [upd EXCEPT ![w] = x]
    BY <1>x, <1>3, <1>i, <2>1 DEF Types, SharedType
  <2> QED
    BY <1>i, <1>3, <1>5, <2>2, SetIs DEF Types
<1>8. Move(s, "unlock", my[s])
  BY <1>1, <1>i DEF Move, Types, SessionType
<1>9. txn' = [txn EXCEPT ![s] = txn[s]]
  BY <1>1, <1>i DEF Types, SessionType
<1>10. /\ SessionType' /\ pc'[s] = "unlock" /\ my'[s] = my[s]
       /\ \A t \in Sessions : t # s => Kept(t)
  <2>1. SessionType /\ "unlock" \in Labels /\ txn[s] \in Txns /\ my[s] \in Locals
    BY <1>i, <1>4 DEF Types, Labels
  <2> QED
    BY <1>8, <1>9, <2>1, SessionStep
<1>11. OwnInv(s, w) /\ ~ Settled(w) /\ upd[w].durable = NONE /\ upd[w].start = txn[s].prepare
  <2>1. Live(w)
    BY <1>i, <1>3, OwnLive
  <2>2. OwnInv(s, w)
    BY <1>3, <2>1, OwnIs
  <2> QED
    BY <1>i, <1>3, <2>2 DEF OwnInv, Settled, Readable
<1>12. OwnStep(s)
  <2>1. Progress(w)
    <3>1. c >= upd[w].start
      BY <1>11, <1>i, <1>c
    <3> QED
      BY <1>3, <1>4, <1>5, <1>6, <3>1 DEF Progress
  <2>2. ASSUME NEW u \in DOMAIN upd
        PROVE  upd'[u] = upd[u] \/ (Own(s, u) /\ ~ Settled(u) /\ Progress(u))
    BY <1>3, <1>6, <1>11, <2>1
  <2> QED
    BY <1>1, <1>6, <1>10, <2>2 DEF OwnStep, Busy, Traversing
<1>13. ASSUME NEW u \in DOMAIN upd, Own(s, u), Live(u), u # w
       PROVE  OwnInv(s, u) /\ upd[u].prepare \in {"inprogress", "resolved"}
  <2>1. OwnInv(s, u) /\ upd[u].prepare \in Prepares
    BY <1>13, <1>i, OwnIs, UpdTyped DEF Types
  <2> QED
    BY <1>i, <1>w, <1>13, <2>1 DEF OwnInv, Prepares
<1>14. \A v \in Of(upd[w].key) : upd[v].durable <= c
  BY <1>11, <1>i, <1>c DEF OwnInv, Resolving
<1>15. OwnUpdates(s)
  <2>1. ASSUME NEW u \in DOMAIN upd, Own(s, u), Live(u), Live(u)' PROVE OwnInv(s, u)'
    <3>k. PICK k : k = upd[u].key
      OBVIOUS
    <3>1. Of(k)' = Of(k) /\ upd'[u].key = k
      BY <1>12, <1>i, <1>5, <1>6, <3>k, OwnOf
    <3>2. OwnInv(s, u)
      BY <2>1, OwnIs
    <3>5. CASE u = w
      <4>1. upd[u].kind # "reserve"
        BY <1>3, <3>2, <3>5 DEF OwnInv
      <4> QED
        BY <1>1, <1>3, <1>4, <1>5, <1>6, <1>10, <1>i, <1>w, <3>5, <4>1 DEF OwnInv
    <3>6. CASE u # w
      <4>1. upd'[u] = upd[u] /\ upd[u].prepare \in {"inprogress", "resolved"}
        BY <1>6, <1>13, <2>1, <3>6
      <4>2. upd[u].durable = NONE => \A v \in Of(k) : upd'[v].durable <= c
        <5>1. ASSUME upd[u].durable = NONE, NEW v \in Of(k) PROVE upd'[v].durable <= c
          <6>1. upd[v].durable <= c /\ v \in DOMAIN upd
            BY <1>i, <1>c, <3>2, <3>k, <5>1 DEF OwnInv, Resolving, Of
          <6>2. c <= c
            BY <1>4
          <6> QED
            BY <1>5, <1>6, <6>1, <6>2
        <5> QED
          BY <5>1
      <4> QED
        BY <1>1, <1>10, <1>i, <1>c, <3>1, <3>2, <4>1, <4>2 DEF OwnInv
    <3> QED
      BY <3>5, <3>6
  <2>2. ASSUME NEW u \in DOMAIN upd, Live(u), upd'[u].durable # NONE
        PROVE  upd'[u].start = upd'[u].durable
    <3>1. UpdateInv(u)
      BY <1>i DEF UpdInv
    <3> QED
      BY <1>5, <1>6, <2>2, <3>1 DEF UpdateInv
  <2> QED
    BY <2>1, <2>2 DEF OwnUpdates
<1>16. OwnOrders(s)
  <2>1. ASSUME NEW k \in Keys, NEW u \in Of(k), NEW v \in Of(k), u < v, Live(u), Live(v), Own(s, v)
        PROVE  /\ upd'[v].durable # NONE =>
                     upd'[u].durable # NONE /\ upd'[u].durable <= upd'[v].durable
               /\ upd'[v].prepare # "inprogress" => Readable(u)'
    <3>1. u \in DOMAIN upd /\ v \in DOMAIN upd /\ upd[u].key = upd[v].key /\ u \in Nat /\ v \in Nat
      BY <1>i, <2>1, OfDomain DEF Types
    <3>2. OrderInv(u, v)
      BY <1>i, <2>1, OrderPair
    <3>3. upd'[v].prepare # "inprogress" => Readable(u)'
      BY <1>3, <1>5, <1>6, <3>1, <3>2 DEF OrderInv, Readable
    <3>4. CASE v = w
      <4>1. u # w /\ Readable(u)
        BY <1>3, <2>1, <3>1, <3>2, <3>4 DEF OrderInv
      <4>2. upd[u].durable # NONE
        <5>1. CASE Own(s, u)
          <6>1. OwnInv(s, u) /\ upd[u].prepare = "resolved"
            BY <1>13, <2>1, <3>1, <4>1, <5>1 DEF Readable
          <6> QED
            BY <1>i, <6>1 DEF OwnInv
        <5>2. CASE ~ Own(s, u)
          <6>1. Settled(u)
            BY <2>1, <3>2, <5>2 DEF OrderInv, Own
          <6> QED
            BY <1>i, <2>1, <3>1, <6>1, SettledLive
        <5> QED
          BY <5>1, <5>2
      <4>3. upd[u].durable <= c
        BY <1>14, <3>1, <3>4 DEF Of
      <4> QED
        BY <1>5, <1>6, <3>1, <3>3, <3>4, <4>1, <4>2, <4>3
    <3>5. CASE v # w
      <4>1. upd[v].durable # NONE => upd[u].durable # NONE /\ upd[u].durable <= upd[v].durable
        BY <3>2 DEF OrderInv
      <4>2. upd[v].durable # NONE => u # w
        BY <1>11, <4>1
      <4> QED
        BY <1>6, <3>1, <3>3, <3>5, <4>1, <4>2
    <3> QED
      BY <3>4, <3>5
  <2> QED
    BY <2>1 DEF OwnOrders
<1>17. Place(s)'
  BY <1>1, <1>10, <1>i DEF Place, Busy, Traversing, Resolving
<1>18. LockedInv(s)'
  BY <1>1, <1>3, <1>5, <1>6, <1>w, <1>10 DEF LockedInv, Own
<1> QED
  BY <1>12, <1>15, <1>16, <1>17, <1>18, OwnStepInv

LEMMA ResolveEndStep ==
    ASSUME MvccInv, NEW s \in Sessions, ResolveEnd(s)
    PROVE  MvccInv'
<1>w. PICK w : w = my[s].at
  OBVIOUS
<1>i. /\ Types /\ TxnInv /\ UpdInv /\ Ordered /\ pc[s] = "unlock" /\ txn[s].state = "prepared"
      /\ Place(s) /\ LockedInv(s) /\ txn[s].commit >= txn[s].prepare
  <2>1. pc[s] = "unlock" /\ Place(s) /\ LockedInv(s)
    BY TxnParts DEF MvccInv, ResolveEnd
  <2> QED
    BY <2>1 DEF MvccInv, Place, Resolving
<1>l. PICK label : label = IF \E u \in Mine(s) : upd[u].prepare = "inprogress"
                           THEN "resolve" ELSE "release"
  OBVIOUS
<1>1. /\ chain' = chain /\ pinned_ts' = pinned_ts /\ txn' = txn
      /\ my' = [my EXCEPT ![s] = NoLocals]
      /\ current' = current /\ running' = running
      /\ pc' = [pc EXCEPT ![s] = label] /\ label \in {"resolve", "release"}
  BY <1>l DEF ResolveEnd, global, Goto
<1>3. w \in DOMAIN upd /\ Own(s, w) /\ upd[w].prepare = "locked"
  BY <1>i, <1>w DEF LockedInv
<1>4. /\ my[s] \in Locals /\ txn[s] \in Txns /\ w \in Nat /\ upd[w] \in Updates
      /\ upd[w].start \in Nat
  BY <1>i, <1>3, TxnTyped, UpdTyped DEF Types
<1>x. PICK x : x = [upd[w] EXCEPT !.prepare = "resolved"]
  BY Zenon
<1>5. /\ x \in Updates /\ x.txn = upd[w].txn /\ x.key = upd[w].key /\ x.kind = upd[w].kind
      /\ x.start = upd[w].start /\ x.durable = upd[w].durable /\ x.prepare = "resolved"
  BY <1>4, <1>x DEF Updates, Prepares
<1>6. /\ upd' \in Seq(Updates) /\ DOMAIN upd' = DOMAIN upd /\ upd'[w] = x
      /\ \A v \in DOMAIN upd : v # w => upd'[v] = upd[v]
  <2>1. upd' = [upd EXCEPT ![w] = x]
    BY <1>w, <1>x DEF ResolveEnd
  <2> QED
    BY <1>i, <1>3, <1>5, <2>1, SetIs DEF Types
<1>8. Move(s, label, NoLocals)
  BY <1>1 DEF Move
<1>9. txn' = [txn EXCEPT ![s] = txn[s]]
  BY <1>1, <1>i DEF Types, SessionType
<1>10. /\ SessionType' /\ pc'[s] = label /\ my'[s] = NoLocals
       /\ \A t \in Sessions : t # s => Kept(t)
  <2>1. SessionType /\ label \in Labels /\ txn[s] \in Txns /\ NoLocals \in Locals
    BY <1>1, <1>i, <1>4, NoLocalsIs DEF Types, Labels
  <2> QED
    BY <1>8, <1>9, <2>1, SessionStep
<1>11. OwnInv(s, w) /\ ~ Settled(w) /\ upd[w].durable # NONE /\ upd[w].kind # "reserve"
  <2>1. Live(w)
    BY <1>i, <1>3, OwnLive
  <2>2. OwnInv(s, w)
    BY <1>3, <2>1, OwnIs
  <2> QED
    BY <1>i, <1>3, <2>2 DEF OwnInv, Settled, Readable
<1>12. OwnStep(s)
  <2>1. Progress(w)
    BY <1>3, <1>4, <1>5, <1>6 DEF Progress
  <2>2. ASSUME NEW u \in DOMAIN upd
        PROVE  upd'[u] = upd[u] \/ (Own(s, u) /\ ~ Settled(u) /\ Progress(u))
    BY <1>3, <1>6, <1>11, <2>1
  <2> QED
    BY <1>1, <1>6, <1>10, <2>2 DEF OwnStep, Busy, Traversing
<1>13. ASSUME NEW u \in DOMAIN upd, Own(s, u), Live(u), u # w
       PROVE  /\ OwnInv(s, u) /\ upd[u].prepare \in {"inprogress", "resolved"}
              /\ label = "release" => upd[u].prepare = "resolved"
  <2>1. OwnInv(s, u) /\ upd[u].prepare \in Prepares /\ u \in Mine(s)
    BY <1>13, <1>i, OwnIs, UpdTyped, MineIs DEF Types
  <2>2. upd[u].prepare \in {"inprogress", "resolved"}
    BY <1>i, <1>w, <1>13, <2>1 DEF OwnInv, Prepares
  <2> QED
    BY <1>l, <2>1, <2>2
<1>14. ASSUME NEW v \in DOMAIN upd PROVE upd'[v].durable = upd[v].durable /\ upd'[v].key = upd[v].key
  BY <1>5, <1>6
<1>15. OwnUpdates(s)
  <2>1. ASSUME NEW u \in DOMAIN upd, Own(s, u), Live(u), Live(u)' PROVE OwnInv(s, u)'
    <3>k. PICK k : k = upd[u].key
      OBVIOUS
    <3>1. Of(k)' = Of(k) /\ upd'[u].key = k
      BY <1>12, <1>i, <1>14, <3>k, OwnOf
    <3>2. OwnInv(s, u)
      BY <2>1, OwnIs
    <3>3. upd[u].durable = NONE => \A v \in Of(k) : upd'[v].durable <= txn[s].commit
      BY <1>14, <1>i, <3>2, <3>k DEF OwnInv, Resolving, Of
    <3>5. CASE u = w
      BY <1>1, <1>5, <1>6, <1>10, <1>11, <1>i, <3>5 DEF OwnInv
    <3>6. CASE u # w
      <4>1. /\ upd'[u] = upd[u] /\ upd[u].prepare \in {"inprogress", "resolved"}
            /\ label = "release" => upd[u].prepare = "resolved"
        BY <1>6, <1>13, <2>1, <3>6
      <4> QED
        BY <1>1, <1>10, <1>i, <3>1, <3>2, <3>3, <4>1 DEF OwnInv
    <3> QED
      BY <3>5, <3>6
  <2>2. ASSUME NEW u \in DOMAIN upd, Live(u), upd'[u].durable # NONE
        PROVE  upd'[u].start = upd'[u].durable
    <3>1. UpdateInv(u)
      BY <1>i DEF UpdInv
    <3> QED
      BY <1>5, <1>6, <2>2, <3>1 DEF UpdateInv
  <2> QED
    BY <2>1, <2>2 DEF OwnUpdates
<1>16. OwnOrders(s)
  <2>1. ASSUME NEW k \in Keys, NEW u \in Of(k), NEW v \in Of(k), u < v, Live(u), Live(v), Own(s, v)
        PROVE  /\ upd'[v].durable # NONE =>
                     upd'[u].durable # NONE /\ upd'[u].durable <= upd'[v].durable
               /\ upd'[v].prepare # "inprogress" => Readable(u)'
    <3>1. u \in DOMAIN upd /\ v \in DOMAIN upd
      BY <2>1 DEF Of
    <3>2. OrderInv(u, v)
      BY <1>i, <2>1, OrderPair
    <3>3. /\ upd'[v].durable # NONE =>
                upd'[u].durable # NONE /\ upd'[u].durable <= upd'[v].durable
      BY <1>14, <3>1, <3>2 DEF OrderInv
    <3>4. upd'[v].prepare # "inprogress" => upd[v].prepare # "inprogress"
      BY <1>3, <1>5, <1>6, <3>1
    <3>5. Readable(u) => Readable(u)'
      BY <1>5, <1>6, <3>1 DEF Readable
    <3> QED
      BY <3>2, <3>3, <3>4, <3>5 DEF OrderInv
  <2> QED
    BY <2>1 DEF OwnOrders
<1>17. Place(s)'
  BY <1>1, <1>10, <1>i DEF Place, Busy, Traversing, Resolving
<1>18. LockedInv(s)'
  BY <1>1, <1>10 DEF LockedInv
<1> QED
  BY <1>12, <1>15, <1>16, <1>17, <1>18, OwnStepInv

LEMMA AbortStep ==
    ASSUME MvccInv, NEW s \in Sessions, Abort(s)
    PROVE  MvccInv'
<1>i. /\ Types /\ TxnInv /\ UpdInv /\ Ordered /\ pc[s] = "abort" /\ my[s] = NoLocals
      /\ Place(s) /\ txn[s].state \in {"running", "prepared", "error"}
  <2>1. pc[s] = "abort" /\ Place(s)
    BY TxnParts DEF MvccInv, Abort
  <2> QED
    BY <2>1 DEF MvccInv, Place
<1>2. PICK w \in ToResolve(Mine(s)) :
         /\ upd' = [upd EXCEPT ![w] = Aborted(upd[w])]
         /\ pc' = [pc EXCEPT ![s] = IF Mine(s) = {w} THEN "release" ELSE "abort"]
  BY DEF Abort, Goto
<1>l. PICK label : label = IF Mine(s) = {w} THEN "release" ELSE "abort"
  OBVIOUS
<1>1. /\ chain' = chain /\ pinned_ts' = pinned_ts /\ txn' = txn /\ my' = my
      /\ current' = current /\ running' = running
      /\ pc' = [pc EXCEPT ![s] = label] /\ label \in {"abort", "release"}
  BY <1>2, <1>l DEF Abort, global
<1>3. w \in DOMAIN upd /\ Own(s, w)
  BY <1>2, MineIs DEF ToResolve
<1>4. my[s] \in Locals /\ txn[s] \in Txns
  BY <1>i, TxnTyped DEF Types
<1>x. PICK x : x = Aborted(upd[w])
  OBVIOUS
<1>5. /\ x \in Updates /\ x.txn = ABORTED /\ x.key = upd[w].key
  BY <1>3, <1>i, <1>x, AbortedIs DEF Types
<1>6. /\ upd' \in Seq(Updates) /\ DOMAIN upd' = DOMAIN upd /\ upd'[w] = x
      /\ \A v \in DOMAIN upd : v # w => upd'[v] = upd[v]
  <2>1. upd' = [upd EXCEPT ![w] = x]
    BY <1>2, <1>x
  <2> QED
    BY <1>i, <1>3, <1>5, <2>1, SetIs DEF Types
<1>8. Move(s, label, my[s])
  BY <1>1, <1>i DEF Move, Types, SessionType
<1>9. txn' = [txn EXCEPT ![s] = txn[s]]
  BY <1>1, <1>i DEF Types, SessionType
<1>10. /\ SessionType' /\ pc'[s] = label /\ my'[s] = NoLocals
       /\ \A t \in Sessions : t # s => Kept(t)
  <2>1. SessionType /\ label \in Labels /\ txn[s] \in Txns /\ my[s] \in Locals
    BY <1>1, <1>i, <1>4 DEF Types, Labels
  <2> QED
    BY <1>8, <1>9, <1>i, <2>1, SessionStep
<1>11. ~ Settled(w)
  <2>1. CASE txn[s].state # "prepared"
    BY <1>3, <1>i, <2>1, OwnRunning
  <2>2. CASE txn[s].state = "prepared"
    <3>1. Live(w)
      BY <1>i, <1>3, OwnLive
    <3>2. OwnInv(s, w)
      BY <1>3, <3>1, OwnIs
    <3> QED
      BY <1>i, <2>2, <3>2 DEF OwnInv, Settled, Readable
  <2> QED
    BY <2>1, <2>2
<1>12. OwnStep(s)
  <2>1. Progress(w)
    BY <1>5, <1>6, <1>x DEF Progress
  <2>2. ASSUME NEW u \in DOMAIN upd
        PROVE  upd'[u] = upd[u] \/ (Own(s, u) /\ ~ Settled(u) /\ Progress(u))
    BY <1>3, <1>6, <1>11, <2>1
  <2> QED
    BY <1>1, <1>6, <1>10, <2>2 DEF OwnStep, Busy, Traversing
<1>13. ASSUME NEW u \in DOMAIN upd, Live(u)'
       PROVE  u # w /\ upd'[u] = upd[u]
  BY <1>5, <1>6, <1>13 DEF Live
<1>14. OwnUpdates(s)
  <2>1. ASSUME NEW u \in DOMAIN upd, Own(s, u), Live(u), Live(u)' PROVE OwnInv(s, u)'
    <3>1. u # w /\ upd'[u] = upd[u] /\ OwnInv(s, u) /\ u \in Mine(s)
      BY <1>13, <2>1, OwnIs, MineIs
    <3>2. label = "abort"
      BY <1>l, <3>1
    <3> QED
      BY <1>1, <1>10, <1>i, <3>1, <3>2 DEF OwnInv, Resolving
  <2>2. ASSUME NEW u \in DOMAIN upd, Live(u)', upd'[u].durable # NONE
        PROVE  upd'[u].start = upd'[u].durable
    <3>1. UpdateInv(u)
      BY <1>i DEF UpdInv
    <3> QED
      BY <1>13, <2>2, <3>1 DEF UpdateInv
  <2> QED
    BY <2>1, <2>2 DEF OwnUpdates
<1>15. OwnOrders(s)
  <2>1. ASSUME NEW k \in Keys, NEW u \in Of(k), NEW v \in Of(k), u < v, Live(u), Live(v),
               Live(u)', Live(v)'
        PROVE  /\ upd'[v].durable # NONE =>
                     upd'[u].durable # NONE /\ upd'[u].durable <= upd'[v].durable
               /\ upd'[v].prepare # "inprogress" => Readable(u)'
    <3>1. upd'[u] = upd[u] /\ upd'[v] = upd[v]
      BY <1>13, <2>1 DEF Of
    <3>2. OrderInv(u, v)
      BY <1>i, <2>1, OrderPair
    <3> QED
      BY <3>1, <3>2 DEF OrderInv, Readable
  <2> QED
    BY <2>1 DEF OwnOrders
<1>16. Place(s)'
  BY <1>1, <1>10, <1>i DEF Place, Busy, Traversing, Resolving
<1>17. LockedInv(s)'
  BY <1>1, <1>10 DEF LockedInv
<1> QED
  BY <1>12, <1>14, <1>15, <1>16, <1>17, OwnStepInv

-----------------------------------------------------------------------------
(* A new update is linked. *)

\* The update w of session s goes on top of the chain of key k.
NewTop(s, k, w) ==
    /\ w = Len(upd) + 1 /\ w \in Nat /\ w \notin DOMAIN upd /\ DOMAIN upd' = DOMAIN upd \cup {w}
    /\ \A u \in DOMAIN upd : upd'[u] = upd[u] /\ w > u
    /\ upd' \in Seq(Updates) /\ upd'[w].txn = txn[s].id /\ upd'[w].key = k
    /\ upd'[w].start = NONE /\ upd'[w].durable = NONE /\ upd'[w].prepare = "init"
    /\ chain' = [chain EXCEPT ![k] = <<w>> \o chain[k]]
    /\ running' = running /\ current' = current /\ pinned_ts' = pinned_ts /\ txn' = txn
\* Where the session goes from there.
AfterLink(s, k, label, x) ==
    /\ Move(s, label, x)
    /\ \/ label = "idle" /\ x = NoLocals
       \/ /\ label = "scan" /\ chain[k] # <<>>
          /\ x.key = k /\ x.at = Head1(k) /\ x.first = NONE
\* All there is below the update.
ChainChecked(s, k) ==
    /\ pc[s] = "serial" /\ k \in Keys /\ txn[s].state = "running" /\ txn[s].id # NONE
    /\ \A u \in Of(k) : Live(u) => Visible(s, u) /\ Readable(u)

LEMMA HeadChecked ==
    ASSUME MvccInv, NEW s \in Sessions, pc[s] = "serial", Head1(my[s].key) = my[s].old
    PROVE  ChainChecked(s, my[s].key)
<1>k. PICK k : k = my[s].key
  OBVIOUS
<1>o. PICK o : o = my[s].old
  OBVIOUS
<1>1. CheckedInv(s)
  BY DEF MvccInv, Walks, WalkInv
<1>2. k \in Keys /\ \A u \in Of(k) : Live(u) /\ u <= o => Visible(s, u) /\ Readable(u)
  BY <1>1, <1>k, <1>o DEF CheckedInv
<1>3. \A u \in Of(k) : Live(u) => u <= Head1(k)
  BY <1>2, AtHead
<1>4. Head1(k) = o
  BY <1>k, <1>o
<1>5. txn[s].state = "running" /\ txn[s].id # NONE
  <2>1. Place(s)
    BY TxnParts DEF MvccInv
  <2> QED
    BY <2>1 DEF Place, Busy
<1> QED
  BY <1>2, <1>3, <1>4, <1>5, <1>k DEF ChainChecked

LEMMA LinkIs ==
    ASSUME MvccInv, NEW s \in Sessions, Serial(s), Head1(my[s].key) = my[s].old
    PROVE  /\ ChainChecked(s, my[s].key) /\ NewTop(s, my[s].key, Len(upd) + 1)
           /\ \E label \in Labels, x \in Locals : AfterLink(s, my[s].key, label, x)
<1>k. PICK k : k = my[s].key
  OBVIOUS
<1>w. PICK w : w = Len(upd) + 1
  OBVIOUS
<1>1. ChainChecked(s, k)
  BY <1>k, HeadChecked DEF Serial
<1>2. Link(s) /\ running' = running /\ current' = current /\ pinned_ts' = pinned_ts /\ txn' = txn
  BY DEF Serial, global
<1>3. PICK kind \in KindsOf(s) : upd' = Append(upd, NewUpdate(s, kind))
  BY <1>2 DEF Link
<1>n. PICK n : n = NewUpdate(s, kind)
  OBVIOUS
<1>4. /\ Len(upd) \in Nat /\ DOMAIN upd = 1..Len(upd) /\ upd \in Seq(Updates)
  BY DEF MvccInv, Types, SharedType
<1>5. k \in Keys /\ txn[s].id \in Ids /\ kind \in Kinds
  <2>1. IdInv(s) /\ txn[s].id \in Nat /\ txn[s].id # NONE
    BY <1>1, TxnParts, TxnTyped DEF MvccInv, Types, ChainChecked
  <2>2. current \in 1..MaxId + 1 /\ MaxId \in Nat
    BY MvccAssumption DEF MvccInv, Types, SharedType
  <2>3. txn[s].id \in Ids
    BY <2>1, <2>2 DEF IdInv, Ids, NONE
  <2>4. kind \in Kinds
    BY <1>3 DEF KindsOf, Kinds
  <2> QED
    BY <1>1, <2>3, <2>4 DEF ChainChecked
<1>6. /\ n \in Updates /\ n.txn = txn[s].id /\ n.key = k /\ n.start = NONE /\ n.durable = NONE
      /\ n.prepare = "init"
  BY <1>5, <1>k, <1>n DEF NewUpdate, Updates, NONE, Prepares
<1>7. upd' = Append(upd, n)
  BY <1>3, <1>n
<1>8. /\ upd' \in Seq(Updates) /\ upd'[w] = n /\ DOMAIN upd' = 1..w
      /\ \A u \in 1..Len(upd) : upd'[u] = upd[u]
  BY <1>4, <1>6, <1>7, <1>w
<1>9. /\ w \in Nat /\ w \notin DOMAIN upd /\ DOMAIN upd' = DOMAIN upd \cup {w}
      /\ \A u \in DOMAIN upd : w > u
  BY <1>4, <1>8, <1>w
<1>10. chain' = [chain EXCEPT ![k] = <<w>> \o chain[k]]
  BY <1>2, <1>k, <1>w DEF Link
<1>11. NewTop(s, k, w)
  BY <1>2, <1>4, <1>6, <1>8, <1>9, <1>10, <1>w DEF NewTop
<1>12. \E label \in Labels, x \in Locals : AfterLink(s, k, label, x)
  <2>1. CASE my' = [my EXCEPT ![s] = NoLocals] /\ pc' = [pc EXCEPT ![s] = "idle"]
    <3>1. AfterLink(s, k, "idle", NoLocals)
      BY <2>1 DEF AfterLink, Move
    <3>2. "idle" \in Labels
      BY DEF Labels
    <3> QED
      BY <3>1, <3>2, NoLocalsIs
  <2>2. CASE /\ chain[k] # <<>>
             /\ my' = [my EXCEPT ![s] = [NoLocals EXCEPT !.key = k, !.at = Head1(k)]]
             /\ pc' = [pc EXCEPT ![s] = "scan"]
    <3>1. PICK x : x = [NoLocals EXCEPT !.key = k, !.at = Head1(k)]
      BY Zenon
    <3>2. Head1(k) \in Nat
      BY <1>5, AtHead
    <3>3. x \in Locals /\ x.key = k /\ x.at = Head1(k) /\ x.first = NONE
      BY <1>5, <3>1, <3>2, NoLocalsIs DEF Locals, NoLocals
    <3>4. AfterLink(s, k, "scan", x)
      BY <2>2, <3>1, <3>3 DEF AfterLink, Move
    <3>5. "scan" \in Labels
      BY DEF Labels
    <3> QED
      BY <3>3, <3>4, <3>5
  <2> QED
    BY <1>2, <1>k, <2>1, <2>2 DEF Link, Goto
<1> QED
  BY <1>1, <1>11, <1>12, <1>k, <1>w

LEMMA NewTopOf ==
    ASSUME Types, NEW s \in Sessions, NEW k \in Keys, NEW w, NewTop(s, k, w)
    PROVE  /\ Of(k)' = Of(k) \cup {w}
           /\ \A j : j # k => Of(j)' = Of(j)
           /\ \A u \in DOMAIN upd : /\ Live(u)' = Live(u) /\ Readable(u)' = Readable(u)
                                    /\ Settled(u)' = Settled(u)
                                    /\ \A t : Own(t, u)' = Own(t, u) /\ Visible(t, u)' = Visible(t, u)
<1>1. \A u \in DOMAIN upd : upd'[u] = upd[u]
  BY DEF NewTop
<1>2. txn' = txn /\ running' = running
  BY DEF NewTop
<1>3. Of(k)' = Of(k) \cup {w} /\ \A j : j # k => Of(j)' = Of(j)
  BY <1>1 DEF Of, NewTop
<1>4. \A u \in DOMAIN upd : Live(u)' = Live(u) /\ Readable(u)' = Readable(u)
  BY <1>1 DEF Live, Readable
<1>5. \A u \in DOMAIN upd : Settled(u)' = Settled(u)
  BY <1>1, <1>2, <1>4 DEF Settled
<1>6. \A u \in DOMAIN upd : \A t : Own(t, u)' = Own(t, u) /\ Visible(t, u)' = Visible(t, u)
  BY <1>1, <1>2 DEF Own, Visible
<1> QED
  BY <1>3, <1>4, <1>5, <1>6

\* The chain with the update on top.
LEMMA NewTopChain ==
    ASSUME Types, NEW s \in Sessions, NEW k \in Keys, NEW w, NewTop(s, k, w)
    PROVE  /\ chain' \in [Keys -> Seq(Nat)]
           /\ \A j \in Keys : j # k => chain'[j] = chain[j] /\ Linked(j)' = Linked(j)
           /\ DOMAIN chain'[k] = 1 .. Len(chain[k]) + 1 /\ Len(chain[k]) \in Nat
           /\ chain'[k][1] = w
           /\ \A i \in 2 .. Len(chain[k]) + 1 :
                 chain'[k][i] = chain[k][i - 1] /\ i - 1 \in DOMAIN chain[k]
           /\ Linked(k)' = Linked(k) \cup {w}
<1>1. chain \in [Keys -> Seq(Nat)] /\ w \in Nat
  BY DEF Types, SharedType, NewTop
<1>c. PICK c : c = chain[k]
  OBVIOUS
<1>2. c \in Seq(Nat) /\ Len(c) \in Nat /\ DOMAIN c = 1..Len(c)
  BY <1>1, <1>c
<1>d. PICK d : d = <<w>> \o c
  OBVIOUS
<1>3. /\ d \in Seq(Nat) /\ Len(d) = Len(c) + 1 /\ DOMAIN d = 1 .. Len(c) + 1
      /\ d[1] = w /\ \A i \in 2 .. Len(c) + 1 : d[i] = c[i - 1] /\ i - 1 \in DOMAIN c
  BY <1>1, <1>2, <1>d
<1>4. chain' = [chain EXCEPT ![k] = d]
  BY <1>c, <1>d DEF NewTop
<1>5. chain'[k] = d /\ \A j \in Keys : j # k => chain'[j] = chain[j]
  BY <1>1, <1>4
<1>6. chain' \in [Keys -> Seq(Nat)]
  BY <1>1, <1>3, <1>4
<1>7. \A j \in Keys : j # k => Linked(j)' = Linked(j)
  BY <1>5 DEF Linked
<1>8. Linked(k)' = Linked(k) \cup {w}
  <2>1. Linked(k)' = {d[i] : i \in DOMAIN d} /\ Linked(k) = {c[i] : i \in DOMAIN c}
    BY <1>5, <1>c DEF Linked
  <2>2. ASSUME NEW i \in DOMAIN d PROVE d[i] = w \/ \E j \in DOMAIN c : d[i] = c[j]
    <3>1. i = 1 \/ i \in 2 .. Len(c) + 1
      BY <1>2, <1>3
    <3> QED
      BY <1>3, <3>1
  <2>3. ASSUME NEW j \in DOMAIN c PROVE \E i \in DOMAIN d : d[i] = c[j]
    <3>1. j + 1 \in 2 .. Len(c) + 1 /\ (j + 1) - 1 = j /\ j + 1 \in DOMAIN d
      BY <1>2, <1>3
    <3> QED
      BY <1>3, <3>1
  <2>4. 1 \in DOMAIN d /\ d[1] = w
    BY <1>2, <1>3
  <2> QED
    BY <2>1, <2>2, <2>3, <2>4
<1> QED
  BY <1>2, <1>3, <1>5, <1>6, <1>7, <1>8, <1>c

\* The id of a writer is in the table.
LEMMA WriterRunning ==
    ASSUME MvccInv, NEW s \in Sessions, NEW k, ChainChecked(s, k)
    PROVE  txn[s].id \in running /\ txn[s].id < current
<1>1. IdInv(s)
  BY TxnParts DEF MvccInv
<1> QED
  BY <1>1 DEF IdInv, ChainChecked

LEMMA LinkOther ==
    ASSUME MvccInv, NEW s \in Sessions, NEW k \in Keys, NEW w, ChainChecked(s, k),
           NewTop(s, k, w), NEW r \in Sessions, r # s, Kept(r)
    PROVE  OtherStep(r, NONE, NONE)
<1>i. Types /\ TxnInv
  BY DEF MvccInv
<1>1. OldKept(r, NONE, NONE)
  BY DEF OldKept, NewTop
<1>2. NewHidden(r)
  <2>1. IdInv(r) /\ txn[s].id \in running /\ txn[s].id # NONE
    BY <1>i, TxnParts, WriterRunning DEF ChainChecked
  <2>2. txn[s].id \notin txn[r].seen /\ ~ (txn[s].id = txn[r].id /\ txn[r].id # NONE)
    BY <2>1 DEF IdInv
  <2>3. upd'[w].txn = txn[s].id /\ txn' = txn
    BY DEF NewTop
  <2>4. ~ Visible(r, w)'
    BY <2>2, <2>3 DEF Visible
  <2>5. /\ w \in Nat /\ w > 0 /\ DOMAIN upd' = DOMAIN upd \cup {w}
        /\ \A v \in DOMAIN upd : w > v
    <3>1. Len(upd) \in Nat
      BY <1>i, UpdFunction DEF Types
    <3> QED
      BY <3>1 DEF NewTop
  <2>6. \A u \in DOMAIN upd' \ DOMAIN upd : u = w
    BY <2>5
  <2> QED
    BY <2>4, <2>5, <2>6 DEF NewHidden
<1>3. LinkedKept(NONE, NONE)
  <2>1. \A j \in Keys : \A u \in Linked(j) : u \in Linked(j)'
    BY <1>i, NewTopChain
  <2> QED
    BY <2>1 DEF LinkedKept
<1> QED
  BY <1>1, <1>2, <1>3 DEF OtherStep

LEMMA LinkSteps ==
    ASSUME MvccInv, NEW s \in Sessions, NEW k \in Keys, NEW w, NewTop(s, k, w)
    PROVE  IdStep /\ SnapStep
<1>1. pinned_ts \in Nat
  BY SharedIs DEF MvccInv
<1> QED
  BY <1>1 DEF NewTop, IdStep, SnapStep, Active

LEMMA LinkUpd ==
    ASSUME MvccInv, NEW s \in Sessions, NEW k \in Keys, NEW w, ChainChecked(s, k),
           NewTop(s, k, w), \A t \in Sessions : t # s => Kept(t), pc'[s] \in {"idle", "scan"}
    PROVE  UpdInv'
<1>i. Types /\ TxnInv /\ UpdInv
  BY DEF MvccInv
<1>1. /\ DOMAIN upd' = DOMAIN upd \cup {w} /\ running' = running /\ current' = current
      /\ txn' = txn
      /\ \A u \in DOMAIN upd : upd'[u] = upd[u]
  BY DEF NewTop
<1>2. ASSUME NEW u \in DOMAIN upd PROVE UpdateInv(u)'
  <2>1. UpdateInv(u)
    BY <1>i DEF UpdInv
  <2>2. upd'[u] = upd[u]
    BY <1>1
  <2>3. ASSUME NEW t \in Sessions, Own(t, u), Live(u) PROVE OwnInv(t, u)'
    <3>1. OwnInv(t, u)
      BY <2>3, OwnIs
    <3>2. CASE t = s
      <4>1. txn[s].state = "running" /\ pc[s] = "serial"
        BY DEF ChainChecked
      <4> QED
        BY <1>1, <2>2, <3>1, <3>2, <4>1 DEF OwnInv
    <3>3. CASE t # s
      <4>k. PICK j : j = upd[u].key
        OBVIOUS
      <4>1. pc'[t] = pc[t] /\ my'[t] = my[t] /\ txn'[t] = txn[t]
        BY <3>3 DEF Kept
      <4>2. ASSUME NEW v \in Of(j)', txn[t].commit \in Nat,
                   \A x \in Of(j) : upd[x].durable <= txn[t].commit
            PROVE  upd'[v].durable <= txn[t].commit
        <5>1. CASE v = w
          <6>1. upd'[v].durable = 0
            BY <5>1 DEF NewTop, NONE
          <6> QED
            BY <4>2, <6>1
        <5>2. CASE v # w
          <6>1. v \in DOMAIN upd /\ upd'[v] = upd[v] /\ v \in Of(j)
            BY <1>1, <4>2, <5>2 DEF Of
          <6> QED
            BY <4>2, <6>1
        <5> QED
          BY <5>1, <5>2
      <4>3. txn[t].commit \in Nat
        BY <1>i, TxnTyped DEF Types
      <4>4. upd'[u].key = j
        BY <2>2, <4>k
      <4>5. pc[t] \in Resolving /\ upd[u].durable = NONE /\ txn[t].state = "prepared" =>
               \A v \in Of(j)' : upd'[v].durable <= txn[t].commit
        BY <3>1, <4>2, <4>3, <4>k DEF OwnInv
      <4> QED
        BY <2>2, <3>1, <4>1, <4>4, <4>5 DEF OwnInv
    <3> QED
      BY <3>2, <3>3
  <2>4. Live(u)' = Live(u) /\ Settled(u)' = Settled(u) /\ \A t : Own(t, u)' = Own(t, u)
    BY <1>i, NewTopOf
  <2> QED
    BY <1>1, <2>1, <2>2, <2>3, <2>4 DEF UpdateInv
<1>3. UpdateInv(w)'
  <2>1. /\ upd'[w].txn = txn[s].id /\ upd'[w].start = NONE /\ upd'[w].durable = NONE
        /\ upd'[w].prepare = "init"
    BY DEF NewTop
  <2>2. txn[s].id < current /\ txn[s].id # NONE /\ txn[s].state = "running" /\ txn[s].id \in Nat
    BY <1>i, WriterRunning, TxnTyped DEF ChainChecked, Types
  <2>3. Own(s, w)' /\ Live(w)'
    BY <1>1, <2>1, <2>2 DEF Own, Live, ABORTED
  <2>4. ASSUME NEW t \in Sessions, Own(t, w)' PROVE t = s
    <3>1. txn[t].id = txn[s].id
      BY <1>1, <2>1, <2>4 DEF Own
    <3>2. IdInv(s)
      BY <1>i, TxnParts
    <3> QED
      BY <2>2, <3>1, <3>2 DEF IdInv
  <2>5. OwnInv(s, w)'
    BY <1>1, <2>1, <2>2 DEF OwnInv
  <2> QED
    BY <1>1, <2>1, <2>2, <2>3, <2>4, <2>5 DEF UpdateInv
<1> QED
  BY <1>1, <1>2, <1>3 DEF UpdInv

LEMMA LinkOrdered ==
    ASSUME MvccInv, NEW s \in Sessions, NEW k \in Keys, NEW w, ChainChecked(s, k),
           NewTop(s, k, w)
    PROVE  Ordered'
<1>i. Types /\ TxnInv /\ UpdInv /\ Ordered
  BY DEF MvccInv
<1>1. /\ DOMAIN upd' = DOMAIN upd \cup {w} /\ running' = running /\ txn' = txn
      /\ \A u \in DOMAIN upd : upd'[u] = upd[u] /\ w > u
      /\ w \in Nat /\ w \notin DOMAIN upd
  BY DEF NewTop
<1>2. ASSUME NEW j \in Keys, NEW u \in Of(j)', NEW v \in Of(j)', u < v, Live(u)', Live(v)'
      PROVE  OrderInv(u, v)'
  <2>1. u \in DOMAIN upd /\ u \in Of(j)
    <3>1. u # w
      <4>1. CASE u = w /\ v = w
        BY <1>1, <1>2, <4>1
      <4>2. CASE u = w /\ v # w
        <5>1. v \in DOMAIN upd
          BY <1>1, <1>2, <4>2 DEF Of
        <5>2. w > v /\ v \in Nat
          BY <1>1, <1>i, <5>1, UpdTyped DEF Types
        <5> QED
          BY <1>1, <1>2, <4>2, <5>2
      <4> QED
        BY <4>1, <4>2
    <3> QED
      BY <1>1, <1>2, <3>1 DEF Of
  <2>2. /\ upd'[u] = upd[u] /\ Live(u) /\ Settled(u)' = Settled(u) /\ Readable(u)' = Readable(u)
        /\ \A t : Own(t, u)' = Own(t, u) /\ Visible(t, u)' = Visible(t, u)
    BY <1>1, <1>2, <1>i, <2>1, NewTopOf
  <2>3. CASE v # w
    <3>1. v \in DOMAIN upd /\ v \in Of(j)
      BY <1>1, <1>2, <2>3 DEF Of
    <3>2. upd'[v] = upd[v] /\ Live(v) /\ \A t : Own(t, v)' = Own(t, v)
      BY <1>1, <1>2, <1>i, <3>1, NewTopOf
    <3>3. OrderInv(u, v)
      BY <1>2, <1>i, <2>1, <2>2, <3>1, <3>2, OrderPair
    <3> QED
      BY <1>1, <2>2, <3>2, <3>3 DEF OrderInv
  <2>4. CASE v = w
    <3>1. /\ j = k /\ upd'[w].txn = txn[s].id /\ upd'[w].durable = NONE
      BY <1>2, <2>4 DEF NewTop, Of
    <3>2. Visible(s, u) /\ Readable(u)
      BY <2>1, <2>2, <3>1 DEF ChainChecked
    <3>3. upd[u].txn = txn[s].id \/ Settled(u)
      BY <1>i, <3>2, VisibleSettled DEF Own
    <3>4. txn[s].id \in running /\ txn[s].id # NONE
      BY WriterRunning DEF ChainChecked
    <3>5. ASSUME NEW t \in Sessions, upd'[w].txn \in txn'[t].seen PROVE FALSE
      <4>1. IdInv(t)
        BY <1>i, TxnParts
      <4> QED
        BY <1>1, <3>1, <3>4, <3>5, <4>1 DEF IdInv
    <3>6. ASSUME NEW t \in Sessions, Own(t, w)' PROVE Visible(t, u)'
      <4>1. txn[t].id = txn[s].id
        BY <1>1, <3>1, <3>6 DEF Own
      <4>2. IdInv(s)
        BY <1>i, TxnParts
      <4>3. t = s
        BY <3>4, <4>1, <4>2 DEF IdInv
      <4> QED
        BY <2>2, <3>2, <4>3
    <3> QED
      BY <2>2, <2>4, <3>1, <3>2, <3>3, <3>5, <3>6 DEF OrderInv
  <2> QED
    BY <2>3, <2>4
<1> QED
  BY <1>2 DEF Ordered

LEMMA LinkChains ==
    ASSUME MvccInv, NEW s \in Sessions, NEW k \in Keys, NEW w, NewTop(s, k, w)
    PROVE  Chains'
<1>i. Types /\ IdStep /\ SnapStep /\ SharedType
  BY LinkSteps DEF MvccInv, Types
<1>1. /\ \A u \in DOMAIN upd : upd'[u] = upd[u] /\ w > u
      /\ w \in Nat /\ w \notin DOMAIN upd
  BY DEF NewTop
<1>2. ASSUME NEW j \in Keys, NEW u \in Of(j) \ Linked(j)
      PROVE  ~ Live(u)' /\ \E c \in Linked(j) : c > u /\ Cutter(c)'
  <2>1. ChainInv(j)
    BY DEF MvccInv, Chains
  <2>2. ~ Live(u)
    BY <2>1 DEF ChainInv
  <2>3. PICK c \in Linked(j) : c > u /\ Cutter(c)
    BY <2>1 DEF ChainInv
  <2>4. c \in DOMAIN upd /\ u \in DOMAIN upd
    BY <2>1, LinkedOf DEF Of
  <2>5. Cutter(c)'
    BY <1>i, <1>1, <2>3, <2>4, CutterKept
  <2>6. ~ Live(u)'
    BY <1>1, <2>2, <2>4 DEF Live
  <2> QED
    BY <2>3, <2>5, <2>6
<1>3. ASSUME NEW j \in Keys, j # k PROVE ChainInv(j)'
  <2>1. ChainInv(j)
    BY DEF MvccInv, Chains
  <2>2. Of(j)' = Of(j) /\ Linked(j)' = Linked(j) /\ chain'[j] = chain[j]
    BY <1>3, <1>i, NewTopOf, NewTopChain
  <2> QED
    BY <1>2, <2>1, <2>2 DEF ChainInv
<1>4. ChainInv(k)'
  <2>1. ChainInv(k)
    BY DEF MvccInv, Chains
  <2>2. /\ Of(k)' = Of(k) \cup {w} /\ Linked(k)' = Linked(k) \cup {w}
        /\ DOMAIN chain'[k] = 1 .. Len(chain[k]) + 1 /\ Len(chain[k]) \in Nat
        /\ chain'[k][1] = w
        /\ \A i \in 2 .. Len(chain[k]) + 1 :
              chain'[k][i] = chain[k][i - 1] /\ i - 1 \in DOMAIN chain[k]
    BY <1>i, NewTopOf, NewTopChain
  <2>3. \A i \in DOMAIN chain[k] : /\ chain[k][i] \in Of(k) /\ chain[k][i] \in DOMAIN upd
                                   /\ chain[k][i] \in Nat /\ w > chain[k][i]
    <3>1. ASSUME NEW i \in DOMAIN chain[k]
          PROVE  /\ chain[k][i] \in Of(k) /\ chain[k][i] \in DOMAIN upd
                 /\ chain[k][i] \in Nat /\ w > chain[k][i]
      <4>1. chain[k][i] \in Of(k)
        BY <2>1 DEF ChainInv
      <4>2. chain[k][i] \in DOMAIN upd /\ chain[k][i] \in Nat
        BY <1>i, <4>1, OfDomain
      <4> QED
        BY <1>1, <4>1, <4>2
    <3> QED
      BY <3>1
  <2>4. ASSUME NEW i \in DOMAIN chain'[k]
        PROVE  /\ i = 1 /\ chain'[k][i] = w
               \/ /\ i \in 2 .. Len(chain[k]) + 1 /\ i - 1 \in DOMAIN chain[k]
                  /\ chain'[k][i] = chain[k][i - 1]
    BY <2>2
  <2>5. \A i \in DOMAIN chain'[k] : chain'[k][i] \in Of(k)'
    BY <2>2, <2>3, <2>4
  <2>6. ASSUME NEW i \in DOMAIN chain'[k], NEW j \in DOMAIN chain'[k], i < j
        PROVE  chain'[k][i] > chain'[k][j]
    <3>1. i \in Nat /\ j \in Nat
      BY <2>2
    <3>2. j \in 2 .. Len(chain[k]) + 1 /\ j - 1 \in DOMAIN chain[k] /\ chain'[k][j] = chain[k][j - 1]
      BY <2>2, <2>4, <2>6, <3>1
    <3>3. CASE i = 1 /\ chain'[k][i] = w
      BY <2>3, <3>2, <3>3
    <3>4. CASE /\ i \in 2 .. Len(chain[k]) + 1 /\ i - 1 \in DOMAIN chain[k]
               /\ chain'[k][i] = chain[k][i - 1]
      <4>1. i - 1 < j - 1
        BY <2>6, <3>1
      <4>2. chain[k][i - 1] > chain[k][j - 1]
        BY <2>1, <3>2, <3>4, <4>1 DEF ChainInv
      <4> QED
        BY <3>2, <3>4, <4>2
    <3> QED
      BY <2>4, <3>3, <3>4
  <2>7. \A u \in Of(k)' \ Linked(k)' : ~ Live(u)' /\ \E c \in Linked(k)' : c > u /\ Cutter(c)'
    BY <1>2, <2>2
  <2> QED
    BY <2>5, <2>6, <2>7 DEF ChainInv
<1> QED
  BY <1>3, <1>4 DEF Chains

LEMMA LinkStep ==
    ASSUME MvccInv, NEW s \in Sessions, Serial(s), Head1(my[s].key) = my[s].old
    PROVE  MvccInv'
<1>k. PICK k : k = my[s].key
  OBVIOUS
<1>w. PICK w : w = Len(upd) + 1
  OBVIOUS
<1>i. Types /\ TxnInv /\ UpdInv
  BY DEF MvccInv
<1>1. ChainChecked(s, k) /\ NewTop(s, k, w) /\ k \in Keys
  <2>1. ChainChecked(s, k) /\ NewTop(s, k, w)
    BY <1>k, <1>w, LinkIs
  <2> QED
    BY <2>1 DEF ChainChecked
<1>2. PICK label \in Labels, x \in Locals : AfterLink(s, k, label, x)
  BY <1>k, LinkIs
<1>3. txn' = txn /\ Move(s, label, x) /\ txn' = [txn EXCEPT ![s] = txn[s]] /\ txn[s] \in Txns
  BY <1>1, <1>2, <1>i, TxnTyped DEF NewTop, AfterLink, Types, SessionType
<1>4. /\ SessionType' /\ pc'[s] = label /\ my'[s] = x
      /\ \A t \in Sessions : t # s => Kept(t)
  BY <1>i, <1>3, SessionStep DEF Types
<1>5. /\ running' = running /\ current' = current /\ pinned_ts' = pinned_ts
      /\ upd' \in Seq(Updates) /\ chain' \in [Keys -> Seq(Nat)]
  BY <1>1, <1>i, NewTopChain DEF NewTop
<1>6. Types'
  BY <1>i, <1>4, <1>5 DEF Types, SharedType
<1>7. IdStep /\ SnapStep
  BY <1>1, LinkSteps
<1>8. label \in {"idle", "scan"}
  BY <1>2 DEF AfterLink
<1>9. txn[s].state = "running" /\ txn[s].id # NONE
  BY <1>1 DEF ChainChecked
<1>10. TxnInv'
  <2>1. ASSUME NEW t \in Sessions PROVE IdInv(t)'
    <3>1. IdInv(t)
      BY <1>i, TxnParts
    <3> QED
      BY <1>3, <1>5, <3>1 DEF IdInv
  <2>2. Place(s)'
    <3>1. label = "idle" => x = NoLocals
      BY <1>2 DEF AfterLink
    <3>2. Place(s)
      BY <1>i, TxnParts
    <3> QED
      BY <1>3, <1>4, <1>8, <1>9, <3>1, <3>2 DEF Place, Busy, Traversing, Resolving
  <2>3. LockedInv(s)' /\ TableInv'
    BY <1>4, <1>5, <1>8, <1>i DEF LockedInv, TableInv, TxnInv
  <2>4. \A t \in Sessions, u \in DOMAIN upd :
           t # s /\ Own(t, u) => u \in DOMAIN upd' /\ upd'[u] = upd[u]
    BY <1>1 DEF NewTop
  <2> QED
    BY <1>4, <2>1, <2>2, <2>3, <2>4, TxnQuiet
<1>11. UpdInv' /\ Ordered' /\ Chains'
  BY <1>1, <1>4, <1>8, LinkUpd, LinkOrdered, LinkChains
<1>12. WalkInv(s)'
  <2>1. CASE label = "idle"
    BY <1>4, <2>1 DEF WalkInv, Traversing
  <2>2. CASE label = "scan"
    <3>h. PICK h : h = Head1(k)
      OBVIOUS
    <3>1. /\ chain[k] # <<>> /\ x.key = k /\ x.at = h /\ x.first = NONE
      BY <1>2, <2>2, <3>h DEF AfterLink
    <3>2. h \in Nat /\ h \in Linked(k) /\ h \in Of(k)
      BY <1>1, <3>1, <3>h, AtHead
    <3>3. Linked(k)' = Linked(k) \cup {w}
      BY <1>1, <1>i, NewTopChain
    <3>4. w > h /\ w > NONE
      <4>1. h \in DOMAIN upd /\ h >= 1
        BY <1>i, <3>2, OfDomain DEF Types
      <4>2. w > h /\ w \in Nat
        BY <1>1, <4>1 DEF NewTop
      <4> QED
        BY <3>2, <4>1, <4>2 DEF NONE
    <3>5. Own(s, w)' /\ Live(w)'
      <4>1. upd'[w].txn = txn[s].id
        BY <1>1 DEF NewTop
      <4>2. Own(s, w)'
        BY <1>3, <1>9, <4>1 DEF Own
      <4>3. txn[s].id \in Nat
        BY <1>i, TxnTyped DEF Types
      <4> QED
        BY <4>1, <4>2, <4>3 DEF Live, ABORTED
    <3>6. ScanInv(s)'
      BY <1>1, <1>4, <3>1, <3>2, <3>3, <3>4, <3>5 DEF ScanInv
    <3> QED
      BY <1>4, <2>2, <3>6 DEF WalkInv, Traversing
  <2> QED
    BY <1>8, <2>1, <2>2
<1>13. ASSUME NEW t \in Sessions PROVE WalkInv(t)'
  <2>1. CASE t = s
    BY <1>12, <2>1
  <2>2. CASE t # s
    <3>1. OtherStep(t, NONE, NONE)
      BY <1>1, <1>4, <2>2, LinkOther
    <3>2. pc[t] = "scan" => ScanInv(t)'
      BY <1>7, <3>1, ScanOther
    <3>3. WalkInv(t)
      BY DEF MvccInv, Walks
    <3> QED
      BY <3>1, <3>2, <3>3, WalkInvOther DEF MvccInv
  <2> QED
    BY <2>1, <2>2
<1> QED
  BY <1>6, <1>10, <1>11, <1>13 DEF MvccInv, Walks

-----------------------------------------------------------------------------
(* A chain is cut. *)

\* The chain of key k is cut below its update f.
CutBelow(s, k, f) ==
    /\ k \in Keys /\ f \in Linked(k) /\ f \in DOMAIN upd /\ Cutter(f)
    /\ \E w \in Of(k) : Live(w) /\ Own(s, w)
    /\ txn[s].state = "running" /\ pc[s] = "scan"
    /\ upd' = [u \in DOMAIN upd |-> upd'[u]]
    /\ \A u \in DOMAIN upd : IF upd[u].key = k /\ u < f THEN upd'[u] = Aborted(upd[u])
                             ELSE upd'[u] = upd[u]
    /\ chain' = [chain EXCEPT ![k] = SubSeq(chain[k], 1, Position(k, f))]
    /\ running' = running /\ current' = current /\ pinned_ts' = pinned_ts /\ txn' = txn
    /\ Move(s, "idle", NoLocals)

LEMMA CutIs ==
    ASSUME MvccInv, NEW s \in Sessions, Truncate(s), my[s].first # NONE
    PROVE  CutBelow(s, my[s].key, my[s].first)
<1>k. PICK k : k = my[s].key
  OBVIOUS
<1>f. PICK f : f = my[s].first
  OBVIOUS
<1>i. Types /\ TxnInv /\ SharedType
  BY DEF MvccInv, Types
<1>1. pc[s] = "scan" /\ f # NONE
  BY <1>f DEF Truncate
<1>2. ScanInv(s)
  BY <1>1 DEF MvccInv, Walks, WalkInv
<1>3. /\ k \in Keys /\ f \in Linked(k) /\ Cutter(f)
      /\ \E w \in Linked(k) : Live(w) /\ Own(s, w)
  BY <1>1, <1>2, <1>k, <1>f DEF ScanInv
<1>4. ChainInv(k)
  BY <1>3 DEF MvccInv, Chains
<1>5. f \in DOMAIN upd /\ \E w \in Of(k) : Live(w) /\ Own(s, w)
  BY <1>3, <1>4, LinkedOf DEF Of
<1>6. txn[s].state = "running"
  BY <1>1, PlaceRunning DEF Busy
<1>7. chain' = [chain EXCEPT ![k] = SubSeq(chain[k], 1, Position(k, f))]
  <2>1. chain' = [chain EXCEPT ![my[s].key] = SubSeq(@, 1, Position(my[s].key, my[s].first))]
    BY DEF Truncate
  <2> QED
    BY <2>1, <1>k, <1>f
<1>8. upd' = [u \in DOMAIN upd |->
                IF upd[u].key = k /\ u < f THEN Aborted(upd[u]) ELSE upd[u]]
  BY <1>k, <1>f DEF Truncate
<1>9. Move(s, "idle", NoLocals) /\ running' = running /\ current' = current
      /\ pinned_ts' = pinned_ts /\ txn' = txn
  BY DEF Truncate, Goto, Move, global
<1>10. upd' = [u \in DOMAIN upd |-> upd'[u]]
  BY <1>8
<1>11. CutBelow(s, k, f)
  BY <1>1, <1>3, <1>5, <1>6, <1>7, <1>8, <1>9, <1>10 DEF CutBelow
<1> QED
  BY <1>11, <1>k, <1>f

LEMMA CutTyped ==
    ASSUME Types, NEW s \in Sessions, NEW k, NEW f, CutBelow(s, k, f)
    PROVE  /\ upd' \in Seq(Updates) /\ DOMAIN upd' = DOMAIN upd /\ f \in Nat
           /\ \A u \in DOMAIN upd :
                 /\ upd'[u].key = upd[u].key
                 /\ upd'[u] = upd[u] \/ (Cut(k, f, u) /\ upd'[u] = Aborted(upd[u]))
                 /\ Live(u)' => Live(u) /\ upd'[u] = upd[u]
                 /\ ~ (upd[u].key = k /\ u < f) => upd'[u] = upd[u]
                 /\ upd[u].key = k /\ u < f => ~ Live(u)'
           /\ \A j : Of(j)' = Of(j)
<1>1. Len(upd) \in Nat /\ DOMAIN upd = 1..Len(upd) /\ upd \in [1..Len(upd) -> Updates]
  BY UpdFunction DEF Types
<1>2. f \in Nat /\ f # NONE
  BY UpdTyped DEF CutBelow, Types, NONE
<1>3. ASSUME NEW u \in DOMAIN upd
      PROVE  /\ upd'[u] \in Updates /\ upd'[u].key = upd[u].key
             /\ upd'[u] = upd[u] \/ (Cut(k, f, u) /\ upd'[u] = Aborted(upd[u]))
             /\ Live(u)' => Live(u) /\ upd'[u] = upd[u]
             /\ ~ (upd[u].key = k /\ u < f) => upd'[u] = upd[u]
             /\ upd[u].key = k /\ u < f => ~ Live(u)'
  <2>1. /\ upd[u] \in Updates /\ Aborted(upd[u]) \in Updates
        /\ Aborted(upd[u]).txn = ABORTED /\ Aborted(upd[u]).key = upd[u].key
    BY AbortedIs, UpdTyped DEF Types
  <2>2. CASE upd[u].key = k /\ u < f
    <3>1. upd'[u] = Aborted(upd[u]) /\ Cut(k, f, u)
      BY <1>2, <2>2 DEF CutBelow, Cut, Of
    <3> QED
      BY <2>1, <2>2, <3>1 DEF Live
  <2>3. CASE ~ (upd[u].key = k /\ u < f)
    <3>1. upd'[u] = upd[u]
      BY <2>3 DEF CutBelow
    <3> QED
      BY <2>1, <2>3, <3>1 DEF Live
  <2> QED
    BY <2>2, <2>3
<1>4. upd' \in [1..Len(upd) -> Updates]
  BY <1>1, <1>3 DEF CutBelow
<1>5. upd' \in Seq(Updates) /\ DOMAIN upd' = DOMAIN upd
  BY <1>1, <1>4, SeqOf
<1>6. \A j : Of(j)' = Of(j)
  BY <1>3, <1>5 DEF Of
<1> QED
  BY <1>2, <1>3, <1>5, <1>6

LEMMA TruncateNothing ==
    ASSUME MvccInv, NEW s \in Sessions, Truncate(s), my[s].first = NONE
    PROVE  MvccInv'
<1>i. Types /\ pc[s] = "scan" /\ pc[s] \in Busy
  BY DEF MvccInv, Truncate, Busy
<1>1. upd' = upd
  <2>1. \A u \in DOMAIN upd : ~ (u < NONE)
    <3>1. \A u \in DOMAIN upd : u \in Nat
      BY <1>i, UpdTyped DEF Types
    <3> QED
      BY <3>1 DEF NONE
  <2>2. upd' = [u \in DOMAIN upd |->
                  IF upd[u].key = my[s].key /\ u < NONE THEN Aborted(upd[u]) ELSE upd[u]]
    BY DEF Truncate
  <2>3. upd' = [u \in DOMAIN upd |-> upd[u]]
    BY <2>1, <2>2
  <2>4. upd = [u \in DOMAIN upd |-> upd[u]]
    BY <1>i, UpdFunction DEF Types
  <2> QED
    BY <2>3, <2>4
<1>2. Still /\ Move(s, "idle", NoLocals)
  BY <1>1 DEF Truncate, Still, global, Goto, Move
<1>3. pc'[s] = "idle"
  BY <1>i, <1>2, MoveIs, NoLocalsIs DEF Types, Labels
<1>4. WalkInv(s)'
  BY <1>3 DEF WalkInv, Traversing
<1> QED
  BY <1>i, <1>2, <1>4, LocalStep, PlaceRunning, NoLocalsIs

\* What is cut off is settled.
LEMMA CutSettled ==
    ASSUME MvccInv, NEW s \in Sessions, NEW k, NEW f, CutBelow(s, k, f), NEW u \in DOMAIN upd,
           upd'[u] # upd[u], Live(u)
    PROVE  Settled(u)
<1>i. Types /\ Ordered
  BY DEF MvccInv
<1>1. Cut(k, f, u)
  BY <1>i, CutTyped
<1>2. u \in Of(k) /\ f \in Of(k) /\ u < f /\ Live(f) /\ Settled(f) /\ k \in Keys
  <2>1. f \in Of(k)
    BY LinkedOf DEF CutBelow, MvccInv, Chains
  <2> QED
    BY <1>1, <2>1 DEF Cut, CutBelow, Cutter
<1>3. OrderInv(u, f)
  BY <1>i, <1>2, OrderPair
<1> QED
  BY <1>2, <1>3 DEF OrderInv, Settled, Readable

\* The rest of the chain.
LEMMA CutChain ==
    ASSUME Types, NEW s \in Sessions, NEW k, NEW f, CutBelow(s, k, f), ChainInv(k)
    PROVE  /\ chain' \in [Keys -> Seq(Nat)]
           /\ \A j \in Keys : j # k => chain'[j] = chain[j] /\ Linked(j)' = Linked(j)
           /\ DOMAIN chain'[k] \subseteq DOMAIN chain[k] /\ DOMAIN chain'[k] \subseteq Nat
           /\ \A i \in DOMAIN chain'[k] : chain'[k][i] = chain[k][i]
           /\ \A u \in Linked(k) : u >= f => u \in Linked(k)'
<1>c. PICK c : c = chain[k]
  OBVIOUS
<1>p. PICK p : p = Position(k, f)
  OBVIOUS
<1>i. k \in Keys /\ f \in Linked(k) /\ chain \in [Keys -> Seq(Nat)] /\ SharedType
  BY DEF CutBelow, Types, SharedType
<1>1. c \in Seq(Nat) /\ Len(c) \in Nat /\ DOMAIN c = 1..Len(c) /\ \A i \in DOMAIN c : c[i] \in Nat
  BY <1>c, <1>i, ChainTyped
<1>2. p \in DOMAIN c /\ c[p] = f
  BY <1>c, <1>p, <1>i, PositionIs
<1>d. PICK d : d = SubSeq(c, 1, p)
  OBVIOUS
<1>3. /\ d \in Seq(Nat) /\ DOMAIN d = 1..p /\ p \in Nat /\ p <= Len(c)
      /\ \A i \in 1..p : d[i] = c[i]
  BY <1>1, <1>2, <1>d
<1>4. chain' = [chain EXCEPT ![k] = d]
  BY <1>c, <1>d, <1>p DEF CutBelow
<1>5. chain'[k] = d /\ \A j \in Keys : j # k => chain'[j] = chain[j]
  BY <1>i, <1>4
<1>6. chain' \in [Keys -> Seq(Nat)]
  BY <1>i, <1>3, <1>4
<1>7. \A j \in Keys : j # k => Linked(j)' = Linked(j)
  BY <1>5 DEF Linked
<1>8. DOMAIN d \subseteq DOMAIN c /\ DOMAIN d \subseteq Nat /\ \A i \in DOMAIN d : d[i] = c[i]
  BY <1>1, <1>3
<1>9. ASSUME NEW u \in Linked(k), u >= f PROVE u \in Linked(k)'
  <2>1. PICK i \in DOMAIN c : c[i] = u
    BY <1>c, LinkedIs
  <2>2. i <= p
    <3>1. ASSUME p < i PROVE FALSE
      <4>1. c[p] > c[i]
        BY <1>2, <1>c, <2>1, <3>1 DEF ChainInv
      <4> QED
        BY <1>1, <1>2, <1>9, <2>1, <4>1
    <3> QED
      BY <1>1, <1>2, <2>1, <3>1
  <2>3. i \in DOMAIN d /\ d[i] = u
    BY <1>1, <1>3, <2>1, <2>2
  <2> QED
    BY <1>5, <2>3 DEF Linked
<1> QED
  BY <1>5, <1>6, <1>7, <1>8, <1>9, <1>c

LEMMA CutOther ==
    ASSUME MvccInv, NEW s \in Sessions, NEW k, NEW f, CutBelow(s, k, f),
           NEW r \in Sessions, Kept(r)
    PROVE  OtherStep(r, k, f)
<1>i. Types /\ k \in Keys /\ ChainInv(k)
  BY DEF MvccInv, Chains, CutBelow
<1>1. DOMAIN upd' = DOMAIN upd
  BY <1>i, CutTyped
<1>2. OldKept(r, k, f) /\ NewHidden(r)
  BY <1>1, <1>i, CutTyped DEF OldKept, NewHidden
<1>3. f \in Of(k) /\ Cutter(f) /\ f # NONE /\ f \in Nat
  <2>1. f \in Of(k) /\ Cutter(f)
    BY <1>i, LinkedOf DEF CutBelow
  <2> QED
    BY <1>i, <2>1, OfDomain DEF Types, NONE
<1>4. ASSUME NEW j \in Keys, NEW u \in Linked(j)
      PROVE  u \in Linked(j)' \/ (j = k /\ f # NONE /\ u < f)
  <2>1. CASE j # k
    BY <1>i, <2>1, CutChain
  <2>2. CASE j = k
    <3>1. u \in Nat
      BY <1>i, <2>2, LinkedOf, OfDomain DEF Types
    <3>2. u >= f => u \in Linked(k)'
      BY <1>i, <2>2, CutChain
    <3> QED
      BY <1>3, <2>2, <3>1, <3>2
  <2> QED
    BY <2>1, <2>2
<1>5. LinkedKept(k, f)
  BY <1>3, <1>4 DEF LinkedKept
<1> QED
  BY <1>2, <1>5 DEF OtherStep

\* Nobody else has an update in the chain and looks through it.
LEMMA OneScanner ==
    ASSUME MvccInv, NEW s \in Sessions, NEW k, NEW f, CutBelow(s, k, f),
           NEW r \in Sessions, r # s, pc[r] = "scan"
    PROVE  my[r].key # k
<1>i. Types /\ TxnInv /\ UpdInv /\ Ordered /\ k \in Keys /\ ChainInv(k)
  BY DEF MvccInv, Chains, CutBelow
<1>1. SUFFICES ASSUME my[r].key = k PROVE FALSE
  OBVIOUS
<1>2. ScanInv(r) /\ txn[r].state = "running"
  BY PlaceRunning DEF MvccInv, Walks, WalkInv, Busy
<1>3. PICK v \in Linked(k) : Live(v) /\ Own(r, v)
  BY <1>1, <1>2 DEF ScanInv
<1>4. PICK w \in Of(k) : Live(w) /\ Own(s, w)
  BY DEF CutBelow
<1>5. v \in Of(k) /\ v \in Nat /\ w \in Nat
  BY <1>i, <1>3, <1>4, LinkedOf, OfDomain DEF Types
<1>6. ~ Settled(v) /\ ~ Settled(w)
  <2>1. txn[s].state = "running"
    BY DEF CutBelow
  <2> QED
    BY <1>i, <1>2, <1>3, <1>4, <2>1, OwnRunning
<1>7. upd[v].txn # upd[w].txn
  <2>1. ASSUME upd[v].txn = upd[w].txn PROVE FALSE
    <3>1. Own(s, v)
      BY <1>4, <2>1 DEF Own
    <3> QED
      BY <1>i, <1>3, <3>1, OneOwner
  <2> QED
    BY <2>1
<1>8. v # w
  BY <1>7
<1>9. CASE v < w
  <2>1. OrderInv(v, w)
    BY <1>i, <1>3, <1>4, <1>5, <1>9, OrderPair
  <2> QED
    BY <1>6, <1>7, <2>1 DEF OrderInv
<1>10. CASE w < v
  <2>1. OrderInv(w, v)
    BY <1>i, <1>3, <1>4, <1>5, <1>10, OrderPair
  <2> QED
    BY <1>6, <1>7, <2>1 DEF OrderInv
<1> QED
  BY <1>5, <1>8, <1>9, <1>10

LEMMA CutOrdered ==
    ASSUME MvccInv, NEW s \in Sessions, NEW k, NEW f, CutBelow(s, k, f)
    PROVE  Ordered'
<1>i. /\ Types /\ Ordered /\ running' = running /\ txn' = txn
      /\ \A j : Of(j)' = Of(j)
  BY CutTyped DEF MvccInv, CutBelow
<1>1. ASSUME NEW j \in Keys, NEW u \in Of(j), NEW v \in Of(j), u < v, Live(u)', Live(v)'
      PROVE  OrderInv(u, v)'
  <2>1. u \in DOMAIN upd /\ v \in DOMAIN upd
    BY DEF Of
  <2>2. upd'[u] = upd[u] /\ upd'[v] = upd[v] /\ Live(u) /\ Live(v)
    BY <1>i, <1>1, <2>1, CutTyped
  <2>3. OrderInv(u, v)
    BY <1>i, <1>1, <2>2, OrderPair
  <2> QED
    BY <1>i, <2>2, <2>3 DEF OrderInv, Settled, Readable, Own, Visible
<1> QED
  BY <1>i, <1>1 DEF Ordered

LEMMA CutSteps ==
    ASSUME MvccInv, NEW s \in Sessions, NEW k, NEW f, CutBelow(s, k, f)
    PROVE  /\ IdStep /\ SnapStep /\ SessionType'
           /\ pc'[s] = "idle" /\ my'[s] = NoLocals
           /\ \A t \in Sessions : t # s => Kept(t)
<1>i. Types /\ txn' = txn /\ Move(s, "idle", NoLocals)
  BY DEF MvccInv, CutBelow
<1>1. SessionType /\ "idle" \in Labels /\ NoLocals \in Locals
  BY <1>i, NoLocalsIs DEF Types, Labels
<1>2. /\ pc' \in [Sessions -> Labels] /\ my' \in [Sessions -> Locals]
      /\ pc'[s] = "idle" /\ my'[s] = NoLocals
      /\ \A t \in Sessions : t # s => pc'[t] = pc[t] /\ my'[t] = my[t]
  BY <1>i, <1>1, MoveIs
<1>3. SessionType' /\ \A t \in Sessions : t # s => Kept(t)
  BY <1>i, <1>1, <1>2 DEF SessionType, Kept
<1>4. pinned_ts \in Nat /\ running' = running /\ pinned_ts' = pinned_ts
  BY <1>i DEF CutBelow, Types, SharedType
<1>5. IdStep /\ SnapStep
  BY <1>i, <1>4 DEF IdStep, SnapStep, Active
<1> QED
  BY <1>2, <1>3, <1>5

LEMMA CutChains ==
    ASSUME MvccInv, NEW s \in Sessions, NEW k, NEW f, CutBelow(s, k, f)
    PROVE  Chains'
<1>i. Types /\ k \in Keys /\ IdStep /\ SnapStep /\ f \in Linked(k) /\ f \in DOMAIN upd /\ Cutter(f)
  BY CutSteps DEF MvccInv, CutBelow
<1>1. \A j \in Keys : ChainInv(j)
  BY DEF MvccInv, Chains
<1>2. \A j : Of(j)' = Of(j)
  BY <1>i, CutTyped
<1>3. ASSUME NEW j \in Keys, NEW c \in Linked(j), Cutter(c), j = k => c >= f
      PROVE  Cutter(c)' /\ c \in Linked(j)'
  <2>1. c \in DOMAIN upd /\ upd[c].key = j /\ c \in Nat /\ f \in Nat
    BY <1>i, <1>1, <1>3, LinkedOf, OfDomain, CutTyped DEF Types
  <2>2. ~ (upd[c].key = k /\ c < f)
    BY <1>3, <2>1
  <2>3. upd'[c] = upd[c]
    BY <1>i, <2>1, <2>2, CutTyped
  <2>4. Cutter(c)'
    BY <1>3, <1>i, <2>1, <2>3, CutterKept
  <2>5. c \in Linked(j)'
    BY <1>1, <1>3, <1>i, CutChain
  <2> QED
    BY <2>4, <2>5
<1>4. ASSUME NEW j \in Keys, NEW u \in Of(j), u \notin Linked(j)'
      PROVE  ~ Live(u)' /\ \E c \in Linked(j)' : c > u /\ Cutter(c)'
  <2>1. u \in DOMAIN upd /\ upd[u].key = j /\ u \in Nat /\ f \in Nat
    BY <1>i, OfDomain, CutTyped DEF Types
  <2>2. CASE u \in Linked(j)
    <3>1. j = k /\ u < f
      <4>1. j = k
        BY <1>1, <1>4, <1>i, <2>2, CutChain
      <4>2. ~ (u >= f)
        BY <1>1, <1>4, <1>i, <2>2, <4>1, CutChain
      <4> QED
        BY <2>1, <4>1, <4>2
    <3>2. ~ Live(u)'
      BY <1>i, <2>1, <3>1, CutTyped
    <3>3. Cutter(f)' /\ f \in Linked(j)'
      <4>1. f >= f
        BY <2>1
      <4> QED
        BY <1>3, <1>i, <3>1, <4>1
    <3> QED
      BY <2>1, <3>1, <3>2, <3>3
  <2>3. CASE u \notin Linked(j)
    <3>1. ~ Live(u)
      BY <1>1, <2>3 DEF ChainInv
    <3>2. PICK c \in Linked(j) : c > u /\ Cutter(c)
      BY <1>1, <2>3 DEF ChainInv
    <3>3. ~ Live(u)'
      BY <1>i, <2>1, <3>1, CutTyped
    <3>4. CASE j = k => c >= f
      <4>1. Cutter(c)' /\ c \in Linked(j)'
        BY <1>3, <3>2, <3>4
      <4> QED
        BY <3>2, <3>3, <4>1
    <3>5. CASE j = k /\ ~ (c >= f)
      <4>1. c \in Nat
        BY <1>1, <1>i, LinkedOf, OfDomain DEF Types
      <4>2. f > u /\ f >= f
        BY <2>1, <3>2, <3>5, <4>1
      <4>3. Cutter(f)' /\ f \in Linked(j)'
        BY <1>3, <1>i, <3>5, <4>2
      <4> QED
        BY <3>3, <4>2, <4>3
    <3> QED
      BY <3>4, <3>5
  <2> QED
    BY <2>2, <2>3
<1>5. ASSUME NEW j \in Keys
      PROVE  /\ \A i \in DOMAIN chain'[j] : chain'[j][i] \in Of(j)
             /\ \A i, l \in DOMAIN chain'[j] : i < l => chain'[j][i] > chain'[j][l]
  <2>1. ChainInv(j)
    BY <1>1
  <2>2. CASE j # k
    <3>1. chain'[j] = chain[j]
      BY <1>1, <1>i, <2>2, CutChain
    <3> QED
      BY <2>1, <3>1 DEF ChainInv
  <2>3. CASE j = k
    <3>1. /\ DOMAIN chain'[j] \subseteq DOMAIN chain[j]
          /\ \A i \in DOMAIN chain'[j] : chain'[j][i] = chain[j][i]
      BY <1>1, <1>i, <2>3, CutChain
    <3> QED
      BY <2>1, <3>1 DEF ChainInv
  <2> QED
    BY <2>2, <2>3
<1>6. ASSUME NEW j \in Keys PROVE ChainInv(j)'
  <2>1. Of(j)' = Of(j)
    BY <1>2
  <2> QED
    BY <1>4, <1>5, <2>1 DEF ChainInv
<1> QED
  BY <1>6 DEF Chains

LEMMA CutUpd ==
    ASSUME MvccInv, NEW s \in Sessions, NEW k, NEW f, CutBelow(s, k, f)
    PROVE  UpdInv'
<1>i. /\ Types /\ IdStep /\ running' = running /\ current' = current /\ txn' = txn
      /\ pc[s] = "scan" /\ pc'[s] = "idle" /\ txn[s].state = "running"
      /\ \A t \in Sessions : t # s => Kept(t)
  BY CutSteps DEF MvccInv, CutBelow
<1>1. /\ DOMAIN upd' = DOMAIN upd
      /\ \A j : Of(j)' = Of(j)
  BY <1>i, CutTyped
<1>2. \A v \in DOMAIN upd : upd'[v] = upd[v] \/ upd'[v].durable = NONE
  BY <1>i, CutTyped, AbortedIs DEF Types
<1>3. ASSUME NEW u \in DOMAIN upd PROVE UpdateInv(u)'
  <2>1. UpdateInv(u)
    BY DEF MvccInv, UpdInv
  <2>2. CASE upd'[u] # upd[u]
    <3>1. upd'[u] = Aborted(upd[u])
      BY <1>i, <2>2, CutTyped
    <3>2. ~ Live(u)' /\ upd'[u].prepare = "init" /\ upd'[u].start = NONE /\ upd'[u].durable = NONE
      BY <1>i, <3>1, AbortedIs DEF Types, Live
    <3> QED
      BY <3>2 DEF UpdateInv
  <2>3. CASE upd'[u] = upd[u]
    <3>1. ASSUME NEW t \in Sessions, Own(t, u), Live(u) PROVE OwnInv(t, u)'
      <4>1. OwnInv(t, u)
        BY <2>1, <3>1 DEF UpdateInv
      <4>2. CASE t = s
        BY <1>1, <1>i, <2>3, <4>1, <4>2 DEF OwnInv
      <4>3. CASE t # s
        <5>1. pc'[t] = pc[t] /\ my'[t] = my[t] /\ txn'[t] = txn[t]
          BY <1>i, <4>3 DEF Kept
        <5>2. ASSUME NEW v \in Of(upd[u].key), upd[v].durable <= txn[t].commit
              PROVE  upd'[v].durable <= txn[t].commit
          <6>1. v \in DOMAIN upd /\ txn[t].commit \in Nat
            BY <1>i, TxnTyped DEF Types, Of
          <6> QED
            BY <1>2, <5>2, <6>1 DEF NONE
        <5>3. PICK j : j = upd[u].key
          OBVIOUS
        <5>4. Of(j)' = Of(j) /\ upd'[u].key = j
          BY <1>1, <2>3, <5>3
        <5>5. txn[t].state = "prepared" /\ pc[t] \in Resolving /\ upd[u].durable = NONE =>
                 \A v \in Of(j)' : upd'[v].durable <= txn[t].commit
          BY <4>1, <5>2, <5>3, <5>4 DEF OwnInv
        <5> QED
          BY <2>3, <4>1, <5>1, <5>3, <5>4, <5>5 DEF OwnInv
      <4> QED
        BY <4>2, <4>3
    <3>2. Live(u)' = Live(u) /\ Settled(u)' = Settled(u)
      BY <1>i, <2>3 DEF Live, Settled, Readable
    <3>3. \A t : Own(t, u)' = Own(t, u)
      BY <1>i, <2>3 DEF Own
    <3> QED
      BY <1>i, <2>1, <2>3, <3>1, <3>2, <3>3 DEF UpdateInv
  <2> QED
    BY <2>2, <2>3
<1> QED
  BY <1>1, <1>3 DEF UpdInv

LEMMA CutTxn ==
    ASSUME MvccInv, NEW s \in Sessions, NEW k, NEW f, CutBelow(s, k, f)
    PROVE  TxnInv'
<1>i. /\ Types /\ TxnInv /\ running' = running /\ current' = current /\ txn' = txn
      /\ pinned_ts' = pinned_ts /\ pc[s] = "scan" /\ txn[s].state = "running"
      /\ pc'[s] = "idle" /\ my'[s] = NoLocals
      /\ \A t \in Sessions : t # s => Kept(t)
  BY CutSteps DEF MvccInv, CutBelow
<1>1. ASSUME NEW t \in Sessions, NEW u \in DOMAIN upd, Own(t, u), upd[u].prepare = "locked"
      PROVE  u \in DOMAIN upd' /\ upd'[u] = upd[u]
  <2>1. Live(u)
    BY <1>1, <1>i, OwnLive
  <2>2. ~ Settled(u)
    BY <1>1 DEF Settled, Readable
  <2> QED
    BY <1>i, <2>1, <2>2, CutSettled, CutTyped
<1>2. \A t \in Sessions : IdInv(t)'
  <2>1. ASSUME NEW t \in Sessions PROVE IdInv(t)'
    <3>1. IdInv(t)
      BY <1>i, TxnParts
    <3> QED
      BY <1>i, <3>1 DEF IdInv
  <2> QED
    BY <2>1
<1>3. Place(s)' /\ LockedInv(s)'
  <2>1. Place(s)
    BY <1>i, TxnParts
  <2> QED
    BY <1>i, <2>1 DEF Place, LockedInv, Busy, Traversing, Resolving
<1>4. TableInv'
  BY <1>i DEF TableInv, TxnInv
<1> QED
  BY <1>1, <1>2, <1>3, <1>4, <1>i, TxnQuiet

LEMMA CutStep ==
    ASSUME MvccInv, NEW s \in Sessions, NEW k, NEW f, CutBelow(s, k, f)
    PROVE  MvccInv'
<1>i. /\ Types /\ k \in Keys /\ ChainInv(k) /\ IdStep /\ SnapStep /\ pc'[s] = "idle"
      /\ \A t \in Sessions : t # s => Kept(t)
  BY CutSteps DEF MvccInv, Chains, CutBelow
<1>1. Types'
  <2>1. upd' \in Seq(Updates) /\ chain' \in [Keys -> Seq(Nat)] /\ SessionType'
    BY <1>i, CutTyped, CutChain, CutSteps
  <2>2. running' = running /\ current' = current /\ pinned_ts' = pinned_ts
    BY DEF CutBelow
  <2> QED
    BY <1>i, <2>1, <2>2 DEF Types, SharedType
<1>2. TxnInv' /\ UpdInv' /\ Ordered' /\ Chains'
  BY CutTxn, CutUpd, CutOrdered, CutChains
<1>3. ASSUME NEW t \in Sessions PROVE WalkInv(t)'
  <2>1. CASE t = s
    BY <1>i, <2>1 DEF WalkInv, Traversing
  <2>2. CASE t # s
    <3>1. OtherStep(t, k, f)
      BY <1>i, <2>2, CutOther
    <3>2. pc[t] = "scan" => ScanInv(t)'
      <4>1. ASSUME pc[t] = "scan" PROVE ScanInv(t)'
        <5>1. my[t].key # k
          BY <2>2, <4>1, OneScanner
        <5> QED
          BY <1>i, <3>1, <4>1, <5>1, ScanOther
      <4> QED
        BY <4>1
    <3>3. WalkInv(t)
      BY DEF MvccInv, Walks
    <3> QED
      BY <3>1, <3>2, <3>3, WalkInvOther DEF MvccInv
  <2> QED
    BY <2>1, <2>2
<1> QED
  BY <1>1, <1>2, <1>3 DEF MvccInv, Walks

LEMMA TruncateStep ==
    ASSUME MvccInv, NEW s \in Sessions, Truncate(s)
    PROVE  MvccInv'
<1>1. CASE my[s].first = NONE
  BY <1>1, TruncateNothing
<1>2. CASE my[s].first # NONE
  <2>1. PICK k, f : k = my[s].key /\ f = my[s].first
    OBVIOUS
  <2>2. CutBelow(s, k, f)
    BY <1>2, <2>1, CutIs
  <2> QED
    BY <2>2, CutStep
<1> QED
  BY <1>1, <1>2

-----------------------------------------------------------------------------
(* The invariant. *)

LEMMA MvccInit ==
    ASSUME Init
    PROVE  MvccInv
<1>1. /\ upd = <<>> /\ DOMAIN upd = {} /\ upd \in Seq(Updates)
      /\ \A k \in Keys : chain[k] = <<>>
      /\ running = {} /\ current = 1 /\ pinned_ts = 0
      /\ \A s \in Sessions : txn[s] = NoTxn /\ pc[s] = "idle" /\ my[s] = NoLocals
  BY DEF Init, NONE
<1>2. Types
  <2>1. chain \in [Keys -> Seq(Nat)]
    BY DEF Init
  <2>2. current \in 1 .. MaxId + 1
    BY <1>1, MvccAssumption
  <2>3. NoTxn \in Txns /\ NoLocals \in Locals /\ "idle" \in Labels
    BY NoTxnIs, NoLocalsIs DEF Labels
  <2>4. SessionType
    BY <2>3 DEF Init, SessionType
  <2> QED
    BY <1>1, <2>1, <2>2, <2>4 DEF Types, SharedType
<1>3. TxnInv
  <2>1. TableInv
    BY <1>1 DEF TableInv
  <2>2. ASSUME NEW s \in Sessions PROVE Place(s) /\ IdInv(s) /\ LockedInv(s)
    <3>1. Place(s)
      BY <1>1, NoTxnIs DEF Place, Busy, Traversing, Resolving
    <3>2. IdInv(s)
      BY <1>1, NoTxnIs DEF IdInv, NONE
    <3>3. LockedInv(s)
      BY <1>1 DEF LockedInv
    <3> QED
      BY <3>1, <3>2, <3>3
  <2> QED
    BY <2>1, <2>2 DEF TxnInv
<1>4. UpdInv
  BY <1>1 DEF UpdInv
<1>5. \A k : Of(k) = {}
  BY <1>1 DEF Of
<1>6. Ordered
  BY <1>5 DEF Ordered
<1>7. Chains
  <2>1. ASSUME NEW k \in Keys PROVE ChainInv(k)
    <3>1. DOMAIN chain[k] = {}
      BY <1>1
    <3> QED
      BY <1>5, <3>1 DEF ChainInv
  <2> QED
    BY <2>1 DEF Chains
<1>8. Walks
  BY <1>1 DEF Walks, WalkInv, Traversing
<1> QED
  BY <1>2, <1>3, <1>4, <1>6, <1>7, <1>8 DEF MvccInv

LEMMA SerialStep ==
    ASSUME MvccInv, NEW s \in Sessions, Serial(s)
    PROVE  MvccInv'
  BY SerialRetryStep, LinkStep

LEMMA UnchangedStep ==
    ASSUME MvccInv, UNCHANGED vars
    PROVE  MvccInv'
<1>1. /\ upd' = upd /\ chain' = chain /\ running' = running /\ current' = current
      /\ pinned_ts' = pinned_ts /\ txn' = txn /\ pc' = pc /\ my' = my
  BY DEF vars
<1>i. Types /\ TxnInv /\ UpdInv
  BY DEF MvccInv
<1>2. Types'
  BY <1>i, <1>1 DEF Types, SharedType, SessionType
<1>3. /\ \A k : Of(k)' = Of(k)
      /\ \A t \in Sessions : Kept(t)
  BY <1>1 DEF Of, Kept
<1>4. TxnInv'
  <2>1. ASSUME NEW s \in Sessions PROVE Place(s)' /\ IdInv(s)' /\ LockedInv(s)'
    <3>1. Place(s) /\ IdInv(s) /\ LockedInv(s)
      BY <1>i, TxnParts
    <3> QED
      BY <1>1, <3>1 DEF Place, IdInv, LockedInv, Own
  <2> QED
    BY <1>1, <1>i, <2>1 DEF TxnInv, TableInv
<1>5. UpdInv'
  <2>1. ASSUME NEW u \in DOMAIN upd PROVE UpdateInv(u)'
    <3>1. UpdateInv(u)
      BY <1>i DEF UpdInv
    <3>2. \A s : OwnInv(s, u) => OwnInv(s, u)'
      BY <1>1, <1>3 DEF OwnInv
    <3> QED
      BY <1>1, <3>1, <3>2 DEF UpdateInv, Live, Own, Settled, Readable
  <2> QED
    BY <1>1, <2>1 DEF UpdInv
<1>6. IdStep /\ SnapStep
  <2>1. pinned_ts \in Nat
    BY <1>i DEF Types, SharedType
  <2> QED
    BY <1>1, <2>1 DEF IdStep, SnapStep, Active
<1>7. Chains'
  BY <1>1, <1>6, ChainsQuiet
<1>8. Ordered'
  <2>1. ASSUME NEW k \in Keys, NEW u \in Of(k), NEW v \in Of(k), u < v, Live(u), Live(v)
        PROVE  OrderInv(u, v)'
    <3>1. OrderInv(u, v)
      BY <2>1, OrderPair DEF MvccInv
    <3> QED
      BY <1>1, <3>1 DEF OrderInv, Settled, Readable, Own, Visible
  <2> QED
    BY <1>1, <1>3, <2>1 DEF Ordered, Live
<1>9. Walks'
  BY <1>1, <1>3, <1>6, WalksQuiet DEF Walks
<1> QED
  BY <1>2, <1>4, <1>5, <1>7, <1>8, <1>9 DEF MvccInv

LEMMA WalkingStep ==
    ASSUME MvccInv, NEW s \in Sessions, Walking(s)
    PROVE  MvccInv'
<1>1. CASE PrepareState(s)
  BY <1>1, PrepareStateStep
<1>2. CASE CheckVisible(s)
  BY <1>2, CheckVisibleStep
<1>3. CASE Recheck(s)
  BY <1>3, RecheckStep
<1>4. CASE \E k \in Keys : ReadStart(s, k)
  BY <1>4, ReadStartStep
<1>5. CASE FindBase(s)
  BY <1>5, FindBaseStep
<1>6. CASE ReadDone(s)
  BY <1>6, ReadDoneStep
<1> QED
  BY <1>1, <1>2, <1>3, <1>4, <1>5, <1>6 DEF Walking

LEMMA WritingStep ==
    ASSUME MvccInv, NEW s \in Sessions, Writing(s)
    PROVE  MvccInv'
<1>1. CASE \E k \in Keys : WriteStart(s, k)
  BY <1>1, WriteStartStep
<1>2. CASE Modify(s)
  BY <1>2, ModifyStep
<1>3. CASE Serial(s)
  BY <1>3, SerialStep
<1>4. CASE Scan(s)
  BY <1>4, ScanStep
<1>5. CASE Truncate(s)
  BY <1>5, TruncateStep
<1> QED
  BY <1>1, <1>2, <1>3, <1>4, <1>5 DEF Writing

LEMMA EndingStep ==
    ASSUME MvccInv, NEW s \in Sessions, Ending(s)
    PROVE  MvccInv'
<1>1. CASE \E ts \in 1..MaxTs : Commit(s, ts) \/ Prepare(s, ts) \/ CommitPrepared(s, ts)
  BY <1>1, CommitStep, PrepareStep, CommitPreparedStep
<1>2. CASE Release(s)
  BY <1>2, ReleaseStep
<1>3. CASE PrepareEnd(s)
  BY <1>3, PrepareEndStep
<1>4. CASE ResolveLock(s)
  BY <1>4, ResolveLockStep
<1>5. CASE ResolveStamp(s)
  BY <1>5, ResolveStampStep
<1>6. CASE ResolveEnd(s)
  BY <1>6, ResolveEndStep
<1>7. CASE Rollback(s)
  BY <1>7, RollbackStep
<1>8. CASE Abort(s)
  BY <1>8, AbortStep
<1> QED
  BY <1>1, <1>2, <1>3, <1>4, <1>5, <1>6, <1>7, <1>8 DEF Ending

LEMMA MvccNext ==
    ASSUME MvccInv, [Next]_vars
    PROVE  MvccInv'
<1>1. ASSUME NEW s \in Sessions, Walking(s) \/ Writing(s) \/ Ending(s) PROVE MvccInv'
  BY <1>1, WalkingStep, WritingStep, EndingStep
<1>2. ASSUME NEW s \in Sessions, NEW ts \in 0..MaxRead, Begin(s, ts) PROVE MvccInv'
  BY <1>2, BeginStep
<1>3. ASSUME NEW ts \in 1..MaxRead, UpdatePinned(ts) PROVE MvccInv'
  BY <1>3, UpdatePinnedStep
<1>4. CASE UNCHANGED vars
  BY <1>4, UnchangedStep
<1> QED
  BY <1>1, <1>2, <1>3, <1>4 DEF Next

\* The inductive invariant: the order of the updates of a key, what sessions own, what was
\* cut off the chains, and what each walk down a chain has found out.
THEOREM MvccInvariant == Spec => []MvccInv
<1>1. Init => MvccInv
  BY MvccInit
<1>2. MvccInv /\ [Next]_vars => MvccInv'
  BY MvccNext
<1> QED
  BY <1>1, <1>2, PTL DEF Spec

-----------------------------------------------------------------------------
(* The properties. *)

LEMMA AtIs ==
    ASSUME MvccInv, NEW s \in Sessions
    PROVE  my[s].at \in DOMAIN upd \cup {NONE}
<1>i. Types /\ TxnInv /\ WalkInv(s) /\ Place(s) /\ LockedInv(s) /\ pc[s] \in Labels
  BY TxnParts, TxnTyped DEF MvccInv, Types, Walks
<1>1. \A k \in Keys : \A u \in Linked(k) : u \in DOMAIN upd
  BY LinkedOf DEF MvccInv, Chains, Of
<1>2. CASE pc[s] \in Traversing
  BY <1>1, <1>2, <1>i DEF WalkInv, Walk
<1>3. CASE pc[s] = "base"
  BY <1>1, <1>3, <1>i DEF WalkInv, BaseInv
<1>4. CASE pc[s] = "done"
  BY <1>4, <1>i DEF WalkInv, DoneInv, Of
<1>5. CASE pc[s] \in {"modify", "serial"}
  BY <1>5, <1>i DEF WalkInv, CheckedInv
<1>6. CASE pc[s] = "scan"
  BY <1>1, <1>6, <1>i DEF WalkInv, ScanInv
<1>7. CASE pc[s] \in {"stamp", "unlock"}
  BY <1>7, <1>i DEF LockedInv
<1>8. CASE pc[s] \in {"idle", "release", "prepared", "resolve", "abort"}
  BY <1>8, <1>i, NoLocalsIs DEF Place
<1> QED
  BY <1>i, <1>2, <1>3, <1>4, <1>5, <1>6, <1>7, <1>8 DEF Labels, Traversing

LEMMA TypesOK ==
    ASSUME MvccInv
    PROVE  TypeOK
<1>i. Types
  BY DEF MvccInv
<1>1. ASSUME NEW k \in Keys PROVE chain[k] \in Seq(DOMAIN upd)
  <2>1. PICK n \in Nat : n = Len(chain[k]) /\ DOMAIN chain[k] = 1..n
    BY <1>i, ChainTyped DEF Types
  <2>2. ASSUME NEW i \in 1..n PROVE chain[k][i] \in DOMAIN upd
    BY <2>1 DEF MvccInv, Chains, ChainInv, Of
  <2>3. chain[k] \in [1..n -> DOMAIN upd]
    <3>1. chain[k] \in [1..n -> Nat]
      BY <1>i, <2>1, ChainTyped DEF Types
    <3> QED
      BY <2>2, <3>1
  <2> QED
    BY <2>3, SeqOf
<1>2. \A u \in DOMAIN upd : upd[u] \in Updates
  BY <1>i, UpdTyped DEF Types
<1>3. /\ running \subseteq 1..MaxId /\ current \in Nat /\ pinned_ts \in Nat
      /\ pc \in [Sessions -> Labels]
  BY <1>i, MvccAssumption DEF Types, SharedType, SessionType, Ids
<1>4. \A s \in Sessions : my[s].at \in DOMAIN upd \cup {NONE}
  BY AtIs
<1> QED
  BY <1>1, <1>2, <1>3, <1>4 DEF TypeOK, Updates, Ids, Kinds, Prepares

\* Every update, chain, id and place in a chain keeps its type: a walk is at an update
\* that exists, or at none (txn_inline.h:905).
THEOREM MvccTypes == Spec => []TypeOK
<1>1. MvccInv => TypeOK
  BY TypesOK
<1> QED
  BY <1>1, MvccInvariant, PTL

\* The greatest number of a set.
LEMMA MaxIs ==
    ASSUME NEW S \in SUBSET Nat, NEW m \in S, \A x \in S : x <= m
    PROVE  Max(S) = m
<1>1. \E x \in S : \A y \in S : x >= y
  OBVIOUS
<1>2. Max(S) \in S /\ \A y \in S : Max(S) >= y
  BY <1>1 DEF Max
<1>3. Max(S) \in Nat /\ m \in Nat /\ Max(S) <= m /\ Max(S) >= m
  BY <1>2
<1> QED
  BY <1>3

LEMMA MaxBounded ==
    ASSUME NEW n \in Nat, NEW S \in SUBSET (0..n), S # {}
    PROVE  Max(S) \in S /\ \A x \in S : x <= Max(S)
<1>1. PICK D : D = {n - x : x \in S}
  OBVIOUS
<1>2. D \in SUBSET Nat /\ D # {}
  <2>1. PICK x \in S : TRUE
    OBVIOUS
  <2>2. n - x \in D
    BY <1>1
  <2>3. \A y \in S : n - y \in Nat
    OBVIOUS
  <2> QED
    BY <1>1, <2>2, <2>3
<1>3. PICK d \in D : \A y \in D : d =< y
  BY <1>2, LeastNat
<1>4. PICK m \in S : d = n - m
  BY <1>1, <1>3
<1>5. ASSUME NEW x \in S PROVE x <= m
  <2>1. n - m <= n - x
    BY <1>1, <1>3, <1>4
  <2> QED
    BY <2>1
<1>6. Max(S) = m
  <2>1. S \in SUBSET Nat
    OBVIOUS
  <2> QED
    BY <1>5, <2>1, MaxIs
<1> QED
  BY <1>5, <1>6

\* The versions of a key that a session may read, and the full values up to one.
Versions(s, k) ==
    {u \in DOMAIN upd : /\ upd[u].key = k /\ upd[u].kind # "reserve"
                        /\ upd[u].prepare \in {"init", "resolved"}
                        /\ Visible(s, u)}
Fulls(k, u) ==
    {v \in 1..u : upd[v].key = k /\ upd[v].txn # ABORTED /\ upd[v].kind = "standard"}

LEMMA ExpectedIs ==
    \A s, k : Expected(s, k) = Max(Versions(s, k) \cup {NONE})
  BY DEF Expected, Versions
LEMMA BaseIs ==
    \A k, u : Base(k, u) = IF u = NONE THEN NONE ELSE Max({NONE} \cup Fulls(k, u))
  BY DEF Base, Fulls

LEMMA DoneRight ==
    ASSUME MvccInv, NEW s \in Sessions, pc[s] = "done"
    PROVE  LET u == IF my[s].old # NONE THEN my[s].old ELSE my[s].at
           IN  u = Expected(s, my[s].key) /\ my[s].at = Base(my[s].key, u)
<1>k. PICK k : k = my[s].key
  OBVIOUS
<1>a. PICK a : a = my[s].at
  OBVIOUS
<1>o. PICK o : o = my[s].old
  OBVIOUS
<1>i. Types
  BY DEF MvccInv
<1>1. /\ k \in Keys /\ Passed(s, k, o)
      /\ IF o = NONE THEN a = NONE ELSE Version(s, k, o)
      /\ a # NONE => a \in Of(k) /\ Live(a) /\ upd[a].kind = "standard" /\ a <= o
      /\ NoFull(k, a + 1, o)
  BY <1>k, <1>a, <1>o DEF MvccInv, Walks, WalkInv, DoneInv
<1>2. o \in Nat /\ a \in Nat
  BY <1>i, <1>a, <1>o, TxnTyped DEF Types
<1>3. \A u \in DOMAIN upd : u \in Nat /\ u >= 1 /\ u <= Len(upd)
  BY <1>i, UpdTyped DEF Types
<1>4. Len(upd) \in Nat /\ DOMAIN upd = 1..Len(upd)
  BY <1>i, UpdFunction DEF Types
<1>5. o = Expected(s, k)
  <2>1. o \in Versions(s, k) \cup {NONE}
    BY <1>1 DEF Version, Versions, Of, Readable
  <2>2. ASSUME NEW u \in Versions(s, k) PROVE u <= o
    <3>1. u \in Of(k) /\ upd[u].kind # "reserve" /\ Visible(s, u) /\ u \in Nat
      BY <1>3 DEF Versions, Of
    <3>2. Live(u)
      BY <1>i, <3>1, VisibleLive DEF Types
    <3>3. ~ (u > o)
      BY <1>1, <3>1, <3>2 DEF Passed
    <3> QED
      BY <1>2, <3>1, <3>3
  <2>3. Versions(s, k) \cup {NONE} \in SUBSET Nat
    BY <1>3 DEF Versions, NONE
  <2>4. \A x \in Versions(s, k) \cup {NONE} : x <= o
    BY <1>2, <2>2 DEF NONE
  <2> QED
    BY <2>1, <2>3, <2>4, MaxIs, ExpectedIs
<1>6. a = Base(k, o)
  <2>1. CASE o = NONE
    BY <1>1, <2>1, BaseIs
  <2>2. CASE o # NONE
    <3>1. o \in DOMAIN upd
      BY <1>1, <2>2 DEF Version, Of
    <3>2. 1..o \subseteq DOMAIN upd
      BY <1>2, <1>3, <1>4, <3>1
    <3>3. {NONE} \cup Fulls(k, o) \in SUBSET Nat
      BY DEF Fulls, NONE
    <3>4. a \in {NONE} \cup Fulls(k, o)
      <4>1. CASE a # NONE
        <5>1. a \in DOMAIN upd /\ upd[a].key = k
          BY <1>1, <4>1 DEF Of
        <5> QED
          BY <1>1, <1>2, <1>3, <4>1, <5>1 DEF Fulls, Live
      <4> QED
        BY <4>1
    <3>5. ASSUME NEW v \in Fulls(k, o) PROVE v <= a
      <4>1. v \in 1..o /\ v \in Of(k) /\ Live(v) /\ upd[v].kind = "standard"
        BY <3>2 DEF Fulls, Of, Live
      <4>2. ~ (a + 1 <= v)
        BY <1>1, <1>2, <4>1 DEF NoFull
      <4> QED
        BY <1>2, <4>1, <4>2
    <3>6. \A x \in {NONE} \cup Fulls(k, o) : x <= a
      BY <1>2, <3>5 DEF NONE
    <3>7. Max({NONE} \cup Fulls(k, o)) = a
      BY <3>3, <3>4, <3>6, MaxIs
    <3> QED
      BY <2>2, <3>7, BaseIs
  <2> QED
    BY <2>1, <2>2
<1>7. o = IF my[s].old # NONE THEN my[s].old ELSE my[s].at
  BY <1>1, <1>a, <1>o
<1> QED
  BY <1>5, <1>6, <1>7, <1>a, <1>k

\* A read returns the version that its snapshot and its read timestamp call for, on the
\* full value it is built on, although prepared updates are resolved, others write and
\* roll back and chains are cut while it walks (txn_inline.h:905).
THEOREM ReadsAlwaysRight == Spec => []ReadsRight
<1>1. MvccInv => ReadsRight
  BY DoneRight DEF ReadsRight
<1> QED
  BY <1>1, MvccInvariant, PTL

LEMMA WalksLinked ==
    ASSUME MvccInv, NEW s \in Sessions, my[s].at # NONE,
           pc[s] \in {"state", "visible", "recheck", "base", "scan"}
    PROVE  my[s].at \in Linked(my[s].key)
<1>1. WalkInv(s)
  BY DEF MvccInv, Walks
<1> QED
  BY <1>1 DEF WalkInv, Walk, BaseInv, ScanInv, Traversing

\* What was cut off a chain is below the value that a transaction may come to read.
LEMMA BaseLinked ==
    ASSUME MvccInv, NEW s \in Sessions, Active(s), NEW k \in Keys,
           NEW v \in DOMAIN upd, upd[v].key = k, Base(k, Expected(s, k)) <= v
    PROVE  v \in Linked(k)
<1>i. Types /\ TxnInv /\ UpdInv /\ ChainInv(k)
  BY DEF MvccInv, Chains
<1>1. SUFFICES ASSUME v \notin Linked(k) PROVE FALSE
  OBVIOUS
<1>2. PICK c \in Linked(k) : c > v /\ Cutter(c)
  BY <1>1, <1>i DEF ChainInv, Of
<1>3. Len(upd) \in Nat /\ DOMAIN upd = 1..Len(upd)
  BY <1>i, UpdFunction DEF Types
<1>4. c \in Of(k) /\ c \in DOMAIN upd /\ upd[c].key = k /\ c \in Nat /\ c >= 1
  BY <1>i, LinkedOf, OfDomain DEF Types
<1>5. Visible(s, c) /\ Readable(c) /\ Live(c) /\ upd[c].kind = "standard"
  BY <1>2, <1>4, <1>i, CutterVisible
<1>u. PICK u : u = Expected(s, k)
  OBVIOUS
<1>6. u \in DOMAIN upd /\ c <= u
  <2>1. c \in Versions(s, k)
    BY <1>4, <1>5 DEF Versions, Readable
  <2>2. Versions(s, k) \cup {NONE} \in SUBSET (0..Len(upd))
    BY <1>3 DEF Versions, NONE
  <2>3. u \in Versions(s, k) \cup {NONE} /\ c <= u
    BY <1>3, <1>u, <2>1, <2>2, MaxBounded, ExpectedIs
  <2> QED
    BY <1>4, <2>3 DEF Versions, NONE
<1>7. c <= Base(k, u) /\ Base(k, u) \in Nat
  <2>1. u \in Nat /\ u # NONE
    BY <1>3, <1>6 DEF NONE
  <2>2. c \in Fulls(k, u)
    BY <1>4, <1>5, <1>6, <2>1 DEF Fulls, Live
  <2>3. {NONE} \cup Fulls(k, u) \in SUBSET (0..u)
    BY <2>1 DEF Fulls, NONE
  <2>4. Base(k, u) = Max({NONE} \cup Fulls(k, u))
    BY <2>1, BaseIs
  <2>5. PICK S : S = {NONE} \cup Fulls(k, u)
    OBVIOUS
  <2>6. S \in SUBSET (0..u) /\ c \in S
    BY <2>2, <2>3, <2>5
  <2>7. Max(S) \in S /\ c <= Max(S)
    BY <2>1, <2>6, MaxBounded
  <2> QED
    BY <2>1, <2>4, <2>5, <2>6, <2>7
<1>8. v \in Nat
  BY <1>3
<1> QED
  BY <1>2, <1>4, <1>7, <1>8, <1>u

\* What a running transaction may come to read is still linked in its chain, with the value
\* it is built on, and nobody walks in updates that were freed (row_modify.c:435).
THEOREM VersionsAlwaysKept == Spec => []VersionsKept
<1>1. ASSUME MvccInv PROVE VersionsKept
  <2>1. ASSUME NEW s \in Sessions, Active(s), NEW k \in Keys
        PROVE  LET u == Expected(s, k)
               IN  \A v \in DOMAIN upd : upd[v].key = k /\ Base(k, u) <= v => v \in Linked(k)
    BY <1>1, <2>1, BaseLinked
  <2>2. \A s \in Sessions :
           pc[s] \in {"state", "visible", "recheck", "base", "scan"} /\ my[s].at # NONE
           => my[s].at \in Linked(my[s].key)
    BY <1>1, WalksLinked
  <2> QED
    BY <2>1, <2>2 DEF VersionsKept
<1> QED
  BY <1>1, MvccInvariant, PTL

\* A session's place changes by its own steps, and at the swap only by the swap.
OwnPlace(t) ==
    /\ \A s \in Sessions : s # t => pc'[s] = pc[s]
    /\ pc[t] = "serial" => Serial(t)

LEMMA GotoOther ==
    ASSUME SessionType, NEW t \in Sessions, NEW label, Goto(t, label)
    PROVE  \A s \in Sessions : s # t => pc'[s] = pc[s]
  BY DEF Goto, SessionType

LEMMA WalkingPlace ==
    ASSUME SessionType, NEW t \in Sessions, Walking(t)
    PROVE  OwnPlace(t)
<1>1. CASE PrepareState(t)
  <2>1. \E label : Goto(t, label)
    BY <1>1 DEF PrepareState, WalkTo
  <2> QED
    BY <1>1, <2>1, GotoOther DEF OwnPlace, PrepareState
<1>2. CASE CheckVisible(t)
  BY <1>2, GotoOther DEF OwnPlace, CheckVisible
<1>3. CASE Recheck(t)
  <2>1. \E label : Goto(t, label)
    BY <1>3 DEF Recheck, WalkTo, Decide, ReadNext, ModifyNext
  <2> QED
    BY <1>3, <2>1, GotoOther DEF OwnPlace, Recheck
<1>4. CASE \E k \in Keys : ReadStart(t, k)
  BY <1>4, GotoOther DEF OwnPlace, ReadStart
<1>5. CASE FindBase(t)
  BY <1>5, GotoOther DEF OwnPlace, FindBase
<1>6. CASE ReadDone(t)
  BY <1>6, GotoOther DEF OwnPlace, ReadDone
<1> QED
  BY <1>1, <1>2, <1>3, <1>4, <1>5, <1>6 DEF Walking

LEMMA WritingPlace ==
    ASSUME SessionType, NEW t \in Sessions, Writing(t)
    PROVE  OwnPlace(t)
<1>1. CASE \E k \in Keys : WriteStart(t, k)
  BY <1>1, GotoOther DEF OwnPlace, WriteStart
<1>2. CASE Modify(t)
  BY <1>2, GotoOther DEF OwnPlace, Modify
<1>3. CASE Serial(t)
  <2>1. \E label : Goto(t, label)
    BY <1>3 DEF Serial, Link
  <2> QED
    BY <1>3, <2>1, GotoOther DEF OwnPlace
<1>4. CASE Scan(t)
  BY <1>4 DEF OwnPlace, Scan
<1>5. CASE Truncate(t)
  BY <1>5, GotoOther DEF OwnPlace, Truncate
<1> QED
  BY <1>1, <1>2, <1>3, <1>4, <1>5 DEF Writing

LEMMA EndingPlace ==
    ASSUME SessionType, NEW t \in Sessions, Ending(t)
    PROVE  OwnPlace(t)
<1>1. CASE \E ts \in 1..MaxTs : Commit(t, ts) \/ Prepare(t, ts) \/ CommitPrepared(t, ts)
  BY <1>1, GotoOther DEF OwnPlace, Commit, Prepare, CommitPrepared
<1>2. CASE Release(t)
  BY <1>2, GotoOther DEF OwnPlace, Release
<1>3. CASE PrepareEnd(t)
  BY <1>3, GotoOther DEF OwnPlace, PrepareEnd
<1>4. CASE ResolveLock(t)
  BY <1>4, GotoOther DEF OwnPlace, ResolveLock
<1>5. CASE ResolveStamp(t)
  BY <1>5, GotoOther DEF OwnPlace, ResolveStamp
<1>6. CASE ResolveEnd(t)
  BY <1>6, GotoOther DEF OwnPlace, ResolveEnd
<1>7. CASE Rollback(t)
  BY <1>7, GotoOther DEF OwnPlace, Rollback
<1>8. CASE Abort(t)
  BY <1>8, GotoOther DEF OwnPlace, Abort
<1> QED
  BY <1>1, <1>2, <1>3, <1>4, <1>5, <1>6, <1>7, <1>8 DEF Ending

LEMMA SwapOnly ==
    ASSUME MvccInv, Next, NEW s \in Sessions, pc[s] = "serial", pc'[s] # "serial"
    PROVE  Serial(s)
<1>i. SessionType
  BY DEF MvccInv, Types
<1>1. ASSUME NEW t \in Sessions, Walking(t) \/ Writing(t) \/ Ending(t) PROVE Serial(s)
  <2>1. OwnPlace(t)
    BY <1>1, <1>i, WalkingPlace, WritingPlace, EndingPlace
  <2> QED
    BY <2>1 DEF OwnPlace
<1>2. ASSUME NEW t \in Sessions, NEW ts \in 0..MaxRead, Begin(t, ts) PROVE Serial(s)
  BY <1>2 DEF Begin
<1>3. ASSUME NEW ts \in 1..MaxRead, UpdatePinned(ts) PROVE Serial(s)
  BY <1>3 DEF UpdatePinned
<1> QED
  BY <1>1, <1>2, <1>3 DEF Next

\* First writer wins: an update is linked on top only of updates that its transaction sees,
\* of its own, or aborted ones, although the chain changes between the check and the swap
\* (txn_inline.h:1547, serial_inline.h:272).
THEOREM NoUpdateLost == Spec => NoLostUpdate
<1>1. ASSUME MvccInv, Next, NEW s \in Sessions,
             upd' # upd, pc[s] = "serial", pc'[s] # "serial",
             NEW u \in DOMAIN upd, upd[u].key = my[s].key, upd[u].txn # ABORTED
      PROVE  Visible(s, u) /\ upd[u].prepare \in {"init", "resolved"}
  <2>1. Serial(s)
    BY <1>1, SwapOnly
  <2>2. Head1(my[s].key) = my[s].old
    BY <1>1, <2>1 DEF Serial
  <2>3. ChainChecked(s, my[s].key)
    BY <1>1, <2>2, HeadChecked
  <2>4. u \in Of(my[s].key) /\ Live(u)
    BY <1>1 DEF Of, Live
  <2> QED
    BY <2>3, <2>4 DEF ChainChecked, Readable
<1>2. MvccInv /\ [Next]_vars =>
         [\A s \in Sessions : upd' # upd /\ pc[s] = "serial" /\ pc'[s] # "serial" =>
             \A u \in DOMAIN upd : upd[u].key = my[s].key /\ upd[u].txn # ABORTED =>
                Visible(s, u) /\ upd[u].prepare \in {"init", "resolved"}]_vars
  BY <1>1
<1> QED
  BY <1>2, MvccInvariant, PTL DEF Spec, NoLostUpdate

=============================================================================
