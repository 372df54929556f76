---------------------------- MODULE BlockProofs ----------------------------
(* The turtle file is complete whatever the moment of a crash, and the blocks of    *)
(* every checkpoint it may lead to are on disk and not in use for anything else;    *)
(* every block of the file is accounted for, and sizes are exact.                   *)
EXTENDS Block, FiniteSetTheorems, TLAPS

-----------------------------------------------------------------------------
(* The turtle file. *)

\* The setup file exists exactly between its creation and its rename, and is flushed
\* before the rename.
SetfileFollows ==
    /\ phase = "set" => setfile = "torn"
    /\ phase = "whole" => setfile = "whole"
    /\ phase \notin {"set", "whole"} => setfile = "none"

TurtleInv == (\A t \in turtles : t.whole) /\ SetfileFollows

LEMMA TurtleInit == Init => TurtleInv
  BY DEF Init, TurtleInv, SetfileFollows

\* The steps of pages leave the turtle file and the phase of the checkpoint alone.
LEMMA PageSteps ==
    ASSUME TurtleInv, NEW p \in Pages,
           Modify(p) \/ EvictReview(p) \/ EvictWrite(p) \/ EvictFree(p) \/ WalkPage(p)
    PROVE  TurtleInv'
<1>1. UNCHANGED <<phase, turtles, setfile>>
  BY DEF Modify, EvictReview, EvictWrite, EvictFree, WalkPage
<1> QED
  BY <1>1 DEF TurtleInv, SetfileFollows

\* The steps of a checkpoint up to the turtle file, and its last one, neither need nor
\* make a setup file.
LEMMA BlockSteps ==
    ASSUME TurtleInv,
           Start \/ Drained \/ WalkRoot \/ Sync \/ Resolve \/ Fail
             \/ \E del \in SUBSET (1 .. Len(list)) : Process(del)
    PROVE  TurtleInv'
<1>1. UNCHANGED <<turtles, setfile>>
  BY DEF Start, Drained, WalkRoot, Sync, Resolve, Fail, Process
<1>2. phase \notin {"set", "whole"} /\ phase' \notin {"set", "whole"}
  BY DEF Start, Drained, WalkRoot, Sync, Resolve, Fail, Process
<1> QED
  BY <1>1, <1>2 DEF TurtleInv, SetfileFollows

\* The steps of the update itself, and a crash.
LEMMA TurtleSteps ==
    ASSUME TurtleInv,
           TurtleSet \/ TurtleSync \/ TurtleRename \/ DirectorySync \/ Crash
    PROVE  TurtleInv'
<1>1. CASE TurtleSet
  BY <1>1 DEF TurtleSet, TurtleInv, SetfileFollows
<1>2. CASE TurtleSync
  BY <1>2 DEF TurtleSync, TurtleInv, SetfileFollows
<1>3. CASE TurtleRename
  <2>1. setfile = "whole" /\ phase' = "renamed" /\ setfile' = "none"
    BY <1>3 DEF TurtleRename, TurtleInv, SetfileFollows
  <2>2. PICK new : turtles' = turtles \cup {new} /\ new = [whole |-> TRUE, list |-> list]
    BY <1>3, <2>1 DEF TurtleRename
  <2>3. new.whole
    BY <2>2
  <2>4. \A t \in turtles' : t.whole
    BY <2>2, <2>3, Zenon DEF TurtleInv
  <2> QED
    BY <2>1, <2>4 DEF TurtleInv, SetfileFollows
<1>4. CASE DirectorySync
  BY <1>4 DEF DirectorySync, TurtleInv, SetfileFollows
<1>5. CASE Crash
  <2>1. phase' = "none" /\ setfile' = "none" /\ \E t \in turtles : turtles' = {t}
    BY <1>5 DEF Crash
  <2> QED
    BY <2>1 DEF TurtleInv, SetfileFollows
<1> QED
  BY <1>1, <1>2, <1>3, <1>4, <1>5

LEMMA TurtleStep == TurtleInv /\ [Next]_vars => TurtleInv'
<1> SUFFICES ASSUME TurtleInv, [Next]_vars PROVE TurtleInv'
  OBVIOUS
<1>1. CASE UNCHANGED vars
  BY <1>1 DEF vars, TurtleInv, SetfileFollows
<1>2. CASE Next
  BY <1>2, PageSteps, BlockSteps, TurtleSteps DEF Next
<1> QED
  BY <1>1, <1>2

\* Whatever the moment of a crash, the turtle file is complete and its next update can
\* create its setup file: __wt_turtle_update flushes the setup file before it renames
\* it, and __wt_turtle_init removes one that a crash left behind.
THEOREM TurtleAlwaysUsable == Spec => []TurtleUsable
<1>1. TurtleInv => TurtleUsable
  BY DEF TurtleInv, SetfileFollows, TurtleUsable
<1> QED
  BY TurtleInit, TurtleStep, <1>1, PTL DEF Spec
-----------------------------------------------------------------------------
(* Numbers and sets of numbers. *)

LEMMA MaxPair ==
    ASSUME NEW a \in Int, NEW b \in Int
    PROVE  Max({a, b}) = IF a <= b THEN b ELSE a
<1>1. \E x \in {a, b} : \A y \in {a, b} : x >= y
  OBVIOUS
<1>2. Max({a, b}) \in {a, b} /\ \A y \in {a, b} : Max({a, b}) >= y
  BY <1>1, Zenon DEF Max
<1> QED
  BY <1>2

LEMMA MinPair ==
    ASSUME NEW a \in Int, NEW b \in Int
    PROVE  Min({a, b}) = IF a <= b THEN a ELSE b
<1>1. \E x \in {a, b} : \A y \in {a, b} : x =< y
  OBVIOUS
<1>2. Min({a, b}) \in {a, b} /\ \A y \in {a, b} : Min({a, b}) =< y
  BY <1>1, Zenon DEF Min
<1> QED
  BY <1>2

\* A set of naturals that has a member has a least one.
LEMMA LeastNat ==
    ASSUME NEW S \in SUBSET Nat, S # {}
    PROVE  \E x \in S : \A y \in S : x =< y
<1>1. PICK x \in S : \A y \in S : ~ (<<y, x>> \in OpToRel(<, Nat))
  BY NatLessThanWellFounded, WFMin
<1>2. ASSUME NEW y \in S PROVE x =< y
  <2>1. x \in Nat /\ y \in Nat
    OBVIOUS
  <2>2. ASSUME y < x PROVE <<y, x>> \in OpToRel(<, Nat)
    <3>1. <<y, x>> \in Nat \X Nat /\ <<y, x>>[1] < <<y, x>>[2]
      BY <2>1, <2>2
    <3> QED
      BY <3>1, Zenon DEF OpToRel
  <2>3. ~ (y < x)
    BY <1>1, <2>2, Zenon
  <2> QED
    BY <2>1, <2>3
<1> QED
  BY <1>2

LEMMA MinNat ==
    ASSUME NEW S \in SUBSET Nat, S # {}
    PROVE  Min(S) \in S /\ \A y \in S : Min(S) =< y
<1>1. \E x \in S : \A y \in S : x =< y
  BY LeastNat
<1> QED
  BY <1>1, Zenon DEF Min

\* How many members of a set there are up to a number.
Rank(S, b) == Cardinality({c \in S : c <= b})

LEMMA RankIs ==
    ASSUME NEW S \in SUBSET Nat, IsFiniteSet(S), NEW b \in S
    PROVE  Rank(S, b) \in 1 .. Cardinality(S)
<1> DEFINE T == {c \in S : c <= b}
<1>1. T \in SUBSET S /\ b \in T
  OBVIOUS
<1>2. IsFiniteSet(T) /\ Cardinality(T) <= Cardinality(S)
  BY <1>1, FS_Subset
<1>3. Cardinality(T) \in Nat /\ Cardinality(S) \in Nat
  BY <1>2, FS_CardinalityType
<1>4. Cardinality(T) # 0
  BY <1>1, <1>2, FS_EmptySet
<1> QED
  BY <1>2, <1>3, <1>4 DEF Rank

LEMMA RankGrows ==
    ASSUME NEW S \in SUBSET Nat, IsFiniteSet(S), NEW b \in S, NEW d \in S, b < d
    PROVE  Rank(S, b) < Rank(S, d)
<1> DEFINE T == {c \in S : c <= b}
           U == {c \in S : c <= d}
<1>0. b \in Nat /\ d \in Nat /\ \A c \in S : c \in Nat
  OBVIOUS
<1>1. T \in SUBSET U /\ d \in U /\ d \notin T
  <2>1. \A c \in S : c <= b => c <= d
    BY <1>0
  <2>2. d <= d /\ ~(d <= b)
    BY <1>0
  <2> QED
    BY <2>1, <2>2
<1>2. U \in SUBSET S
  OBVIOUS
<1>3. IsFiniteSet(U)
  BY <1>2, FS_Subset
<1>4. IsFiniteSet(T) /\ Cardinality(T) <= Cardinality(U) /\ Cardinality(U) # Cardinality(T)
  BY <1>1, <1>3, FS_Subset
<1>5. Cardinality(T) \in Nat /\ Cardinality(U) \in Nat
  BY <1>3, <1>4, FS_CardinalityType
<1> HIDE DEF T, U
<1>6. Cardinality(T) < Cardinality(U)
  BY <1>4, <1>5
<1> QED
  BY <1>6 DEF Rank, T, U

\* Every number up to the size of a set is the rank of a member.
LEMMA RankAll ==
    ASSUME NEW S \in SUBSET Nat, IsFiniteSet(S), NEW i \in 1 .. Cardinality(S)
    PROVE  \E b \in S : Rank(S, b) = i
<1> DEFINE n == Cardinality(S)
           f == [b \in S |-> Rank(S, b)]
<1>1. n \in Nat
  BY FS_CardinalityType
<1>2. f \in [S -> 1 .. n]
  BY RankIs
<1>3. ASSUME NEW a \in S, NEW b \in S, f[a] = f[b] PROVE a = b
  <2>1. Rank(S, a) = Rank(S, b) /\ Rank(S, a) \in 1 .. n
    BY <1>3, RankIs
  <2>2. ~(a < b)
    BY <2>1, RankGrows, RankIs
  <2>3. ~(b < a)
    BY <2>1, RankGrows, RankIs
  <2>4. a \in Nat /\ b \in Nat
    OBVIOUS
  <2> QED
    BY <2>2, <2>3, <2>4
<1>4. DOMAIN f = S
  OBVIOUS
<1>5. f \in Injection(S, 1 .. n)
  <2> HIDE DEF f
  <2> QED
    BY <1>2, <1>3, <1>4, Zenon DEF Injection, IsInjective
<1>6. IsFiniteSet(1 .. n) /\ Cardinality(1 .. n) = n
  BY <1>1, FS_Interval
<1>7. f \in Surjection(S, 1 .. n)
  <2> HIDE DEF f
  <2> QED
    BY <1>5, <1>6, FS_Injection
<1>8. PICK b \in S : f[b] = i
  <2> HIDE DEF f
  <2> QED
    BY <1>7, Zenon DEF Surjection
<1> QED
  BY <1>8

\* Nth lists the members of a set in order.
LEMMA NthIs ==
    ASSUME NEW S \in SUBSET Nat, IsFiniteSet(S), NEW i \in 1 .. Cardinality(S)
    PROVE  Nth(S, i) \in S /\ Rank(S, Nth(S, i)) = i
<1>1. \E b \in S : Cardinality({c \in S : c <= b}) = i
  BY RankAll, Zenon DEF Rank
<1> QED
  BY <1>1, Zenon DEF Nth, Rank

LEMMA NthGrows ==
    ASSUME NEW S \in SUBSET Nat, IsFiniteSet(S),
           NEW i \in 1 .. Cardinality(S), NEW j \in 1 .. Cardinality(S), i < j
    PROVE  Nth(S, i) < Nth(S, j)
<1>1. /\ Nth(S, i) \in S /\ Rank(S, Nth(S, i)) = i
      /\ Nth(S, j) \in S /\ Rank(S, Nth(S, j)) = j
  BY NthIs
<1>2. PICK a \in S, b \in S : a = Nth(S, i) /\ b = Nth(S, j)
  BY <1>1
<1>3. a \in Nat /\ b \in Nat /\ Rank(S, a) = i /\ Rank(S, b) = j /\ i \in Nat /\ j \in Nat
  BY <1>1, <1>2, FS_CardinalityType
<1>4. ~(b < a)
  BY <1>3, RankGrows
<1>5. a # b
  BY <1>3
<1> QED
  BY <1>2, <1>3, <1>4, <1>5

LEMMA NthAll ==
    ASSUME NEW S \in SUBSET Nat, IsFiniteSet(S), NEW b \in S
    PROVE  \E i \in 1 .. Cardinality(S) : Nth(S, i) = b
<1> DEFINE i == Rank(S, b)
<1>1. i \in 1 .. Cardinality(S)
  BY RankIs
<1>2. Nth(S, i) \in S /\ Rank(S, Nth(S, i)) = i
  BY <1>1, NthIs
<1>3. PICK a \in S : a = Nth(S, i)
  BY <1>2
<1>4. a \in Nat /\ b \in Nat /\ i \in Nat /\ Rank(S, a) = i
  BY <1>1, <1>2, <1>3, FS_CardinalityType
<1>5. ~(a < b)
  BY <1>4, RankGrows
<1>6. ~(b < a)
  BY <1>4, RankGrows
<1> QED
  BY <1>1, <1>3, <1>4, <1>5, <1>6

-----------------------------------------------------------------------------
(* Epochs: the checkpoints of a list and, after them, the live system w.  Block b   *)
(* comes up in the epoch that allocates it and goes with the one that discards it. *)

AllocIn(lst, w) ==
    [i \in 1 .. Len(lst) + 1 |-> IF i = Len(lst) + 1 THEN w.alloc ELSE lst[i].alloc]
DiscardIn(lst, w) ==
    [i \in 1 .. Len(lst) + 1 |-> IF i = Len(lst) + 1 THEN w.discard ELSE lst[i].discard]
RootIn(lst, w) ==
    [i \in 1 .. Len(lst) + 1 |-> IF i = Len(lst) + 1 THEN w.root ELSE lst[i].root.block]
ImageIn(lst, w) ==
    [i \in 1 .. Len(lst) + 1 |-> IF i = Len(lst) + 1 THEN w.image ELSE lst[i].root.image]

\* The epochs 1 to m, by the blocks each allocates (A) and discards (D), its root (R) and
\* the blocks its pages are in (I).  A root is freed only with its own checkpoint.
ChainType(m, A, D, R, I) ==
    /\ m \in Nat \ {0}
    /\ A \in [1 .. m -> SUBSET Blocks] /\ D \in [1 .. m -> SUBSET Blocks]
    /\ R \in [1 .. m -> Address] /\ I \in [1 .. m -> SUBSET Blocks]
AllocOnce(m, A) == \A i, j \in 1 .. m : \A b \in A[i] : b \in A[j] => i = j
DiscardOnce(m, D) == \A i, j \in 1 .. m : \A b \in D[i] : b \in D[j] => i = j
DiscardLater(m, A, D) == \A i \in 1 .. m : \A b \in D[i] : \E j \in 1 .. m : j < i /\ b \in A[j]
RootsKept(m, A, D, R, I) ==
    \A i \in 1 .. m : R[i] # 0 =>
        R[i] \in A[i] /\ \A j \in 1 .. m : R[i] \notin D[j] /\ R[i] \notin I[j]
\* A checkpoint's pages are in what was allocated up to then and not discarded.
ImageExact(m, A, D, R, I) ==
    \A i \in 1 .. m : \A b \in Blocks :
        b \in I[i] <=> /\ \E j \in 1 .. m : j <= i /\ b \in A[j] /\ b # R[j]
                       /\ \A j \in 1 .. m : j <= i => b \notin D[j]
Chain(m, A, D, R, I) ==
    /\ ChainType(m, A, D, R, I)
    /\ AllocOnce(m, A) /\ DiscardOnce(m, D) /\ DiscardLater(m, A, D)
    /\ RootsKept(m, A, D, R, I) /\ ImageExact(m, A, D, R, I)

\* Where a checkpoint's extent lists are.
Ats(c) == {c.allocAt, c.discardAt, c.availAt} \ {0}
AtsDistinct(c) ==
    /\ c.allocAt # 0 => c.allocAt # c.discardAt /\ c.allocAt # c.availAt
    /\ c.discardAt # 0 => c.discardAt # c.availAt

\* The blocks of a file of sz blocks: those of the epochs (A), of the extent lists (E),
\* available (av) and to become available (ck).
Space(m, A, E, av, ck, sz) ==
    /\ sz \in Address /\ av \subseteq 1 .. sz /\ ck \subseteq (1 .. sz) \ av
    /\ \A i \in 1 .. m : A[i] \subseteq (1 .. sz) \ (av \cup ck)
    /\ \A i \in 1 .. m : E[i] \subseteq (1 .. sz) \ (av \cup ck)
    /\ \A i, j \in 1 .. m : A[i] \cap E[j] = {}
    /\ \A i, j \in 1 .. m : \A b \in E[i] : b \in E[j] => i = j
    /\ \A b \in 1 .. sz : b \in av \/ b \in ck \/ \E i \in 1 .. m : b \in A[i] \/ b \in E[i]
AtsIn(lst) == [i \in 1 .. Len(lst) + 1 |-> IF i = Len(lst) + 1 THEN {} ELSE Ats(lst[i])]

Whole(lst, w, av, ck, sz) ==
    /\ Chain(Len(lst) + 1, AllocIn(lst, w), DiscardIn(lst, w), RootIn(lst, w), ImageIn(lst, w))
    /\ Space(Len(lst) + 1, AllocIn(lst, w), AtsIn(lst), av, ck, sz)
    /\ \A i \in 1 .. Len(lst) : AtsDistinct(lst[i])

BlocksOf(a) == (UNION {Block(a[p]) : p \in Pages})
Apart(a) == \A p, q \in Pages : a[p] # 0 /\ a[p] = a[q] => p = q

\* The live system: what is running, and what is left of it when only a list of
\* checkpoints is.
Running == [alloc |-> live.alloc, discard |-> live.discard, root |-> root.block,
            image |-> BlocksOf(addr) \cup BlocksOf(old)]
Resumed(lst) == [alloc |-> {}, discard |-> {}, root |-> 0,
                 image |-> IF lst = <<>> THEN {} ELSE lst[Len(lst)].root.image]

\* A list of checkpoints the system can go on from.
Consistent(lst) ==
    /\ lst \in Seq(Checkpoints)
    /\ IF lst = <<>> THEN Whole(lst, Resumed(lst), {}, {}, 0)
       ELSE LET c == lst[Len(lst)]
            IN  /\ Whole(lst, Resumed(lst), c.avail \ {c.availAt}, {}, c.size)
                /\ c.root.image = BlocksOf(c.addr) /\ Apart(c.addr)

LiveInv ==
    /\ live \in [alloc : SUBSET Blocks, avail : SUBSET Blocks, discard : SUBSET Blocks,
                 ckptAvail : SUBSET Blocks, bytes : Int]
    /\ Whole(list, Running, live.avail, live.ckptAvail, size)
PagesInv ==
    /\ addr \in [Pages -> Address] /\ old \in [Pages -> Address]
    /\ evict \in [Pages -> {"no", "in", "wrote"}]
    /\ Apart(addr) /\ Apart(old)
    /\ \A p, q \in Pages : addr[p] # 0 => addr[p] # old[q]
    /\ \A p \in Pages : evict[p] # "wrote" => old[p] = 0
PhaseInv ==
    /\ phase \in Phases
    /\ phase \in {"run", "root"} => \A p \in Pages : evict[p] = "no"
    /\ root \in [block : Address, image : SUBSET Blocks]
    /\ IF phase = "root" THEN root.image = BlocksOf(addr) ELSE root = NoRoot
    /\ phase \in {"none", "wait", "run", "root"} => live.ckptAvail = {}

\* What the blocks of a list are safe from: allocation and truncation, and loss.
Guarded(lst) ==
    \A i \in 1 .. Len(lst) : Needed(lst[i]) \subseteq (1 .. size) \ (live.avail \cup live.alloc)
Flushed(lst) == \A i \in 1 .. Len(lst) : Needed(lst[i]) \cap unsynced = {}

StableInv ==
    /\ unsynced \subseteq Blocks
    /\ Consistent(list)
    /\ \A t \in turtles : Consistent(t.list) /\ Guarded(t.list) /\ Flushed(t.list)
    /\ phase # "written" => Flushed(list)
    /\ phase \in {"none", "wait", "run", "root", "stable"} => \A t \in turtles : t.list = list
BlockInv == LiveInv /\ PagesInv /\ PhaseInv /\ StableInv

\* Sizes
BytesOf(lst) ==
    \A i \in 1 .. Len(lst) :
        lst[i].bytes = Cardinality(lst[i].root.image) + Cardinality(Block(lst[i].root.block))
BytesInv ==
    /\ BytesOf(list) /\ \A t \in turtles : BytesOf(t.list)
    /\ live.bytes = Cardinality(Resumed(list).image)
-----------------------------------------------------------------------------
(* Taking blocks from the avail list and from past the end of the file. *)

LEMMA InFile ==
    ASSUME NEW end \in Nat, NEW av \in SUBSET (1 .. end)
    PROVE  IsFiniteSet(av) /\ Cardinality(av) \in Nat /\ av \in SUBSET Nat
<1>1. IsFiniteSet(1 .. end)
  BY FS_Interval
<1>2. IsFiniteSet(av)
  BY <1>1, FS_Subset
<1> QED
  BY <1>2, FS_CardinalityType

LEMMA SizeAfterIs ==
    ASSUME NEW end \in Nat, NEW av \in SUBSET (1 .. end), NEW n \in Nat
    PROVE  /\ SizeAfter(av, end, n) \in Nat
           /\ SizeAfter(av, end, n) = IF n <= Cardinality(av) THEN end
                                      ELSE end + n - Cardinality(av)
<1>1. Cardinality(av) \in Nat
  BY InFile
<1>2. Max({end, end + n - Cardinality(av)})
        = IF end <= end + n - Cardinality(av) THEN end + n - Cardinality(av) ELSE end
  BY <1>1, MaxPair
<1> QED
  BY <1>1, <1>2 DEF SizeAfter

\* A block that is taken is available or past the end of the file, and in the file after.
LEMMA TakenIs ==
    ASSUME NEW end \in Nat, NEW av \in SUBSET (1 .. end), NEW n \in Nat, NEW i \in 1 .. n
    PROVE  /\ NthBlock(av, end, i) \in 1 .. SizeAfter(av, end, n)
           /\ NthBlock(av, end, i) \in av \/ NthBlock(av, end, i) > end
<1>1. IsFiniteSet(av) /\ Cardinality(av) \in Nat /\ av \in SUBSET Nat
  BY InFile
<1>2. /\ SizeAfter(av, end, n) \in Nat
      /\ SizeAfter(av, end, n) = IF n <= Cardinality(av) THEN end
                                 ELSE end + n - Cardinality(av)
  BY SizeAfterIs
<1>3. CASE i <= Cardinality(av)
  <2>1. i \in 1 .. Cardinality(av)
    BY <1>1, <1>3
  <2>2. Nth(av, i) \in av
    BY <1>1, <2>1, NthIs
  <2>3. NthBlock(av, end, i) = Nth(av, i)
    BY <1>3 DEF NthBlock
  <2>4. Nth(av, i) \in 1 .. end
    BY <2>2
  <2>5. Nth(av, i) \in 1 .. SizeAfter(av, end, n)
    BY <1>1, <1>2, <2>4
  <2> QED
    BY <2>2, <2>3, <2>5
<1>4. CASE ~(i <= Cardinality(av))
  <2>1. NthBlock(av, end, i) = end + i - Cardinality(av)
    BY <1>4 DEF NthBlock
  <2> QED
    BY <1>1, <1>2, <1>4, <2>1
<1> QED
  BY <1>3, <1>4

\* No block is taken twice.
LEMMA TakenGrows ==
    ASSUME NEW end \in Nat, NEW av \in SUBSET (1 .. end), NEW i \in Nat, NEW j \in Nat,
           0 < i, i < j
    PROVE  /\ NthBlock(av, end, i) \in Nat /\ NthBlock(av, end, j) \in Nat
           /\ NthBlock(av, end, i) < NthBlock(av, end, j)
<1>1. IsFiniteSet(av) /\ Cardinality(av) \in Nat /\ av \in SUBSET Nat
  BY InFile
<1>2. CASE j <= Cardinality(av)
  <2>1. i \in 1 .. Cardinality(av) /\ j \in 1 .. Cardinality(av)
    BY <1>1, <1>2
  <2>2. Nth(av, i) < Nth(av, j) /\ Nth(av, i) \in Nat /\ Nth(av, j) \in Nat
    BY <1>1, <2>1, NthGrows, NthIs
  <2> QED
    BY <1>1, <1>2, <2>2 DEF NthBlock
<1>3. CASE i <= Cardinality(av) /\ ~(j <= Cardinality(av))
  <2>1. i \in 1 .. Cardinality(av)
    BY <1>1, <1>3
  <2>2. Nth(av, i) \in av
    BY <1>1, <2>1, NthIs
  <2>3. Nth(av, i) \in Nat /\ Nth(av, i) <= end
    <3>1. Nth(av, i) \in 1 .. end
      BY <2>2
    <3> QED
      BY <3>1
  <2>4. NthBlock(av, end, i) = Nth(av, i) /\ NthBlock(av, end, j) = end + j - Cardinality(av)
    BY <1>3 DEF NthBlock
  <2> QED
    BY <1>1, <1>3, <2>3, <2>4
<1>4. CASE ~(i <= Cardinality(av))
  <2>1. ~(j <= Cardinality(av))
    BY <1>1, <1>4
  <2>2. /\ NthBlock(av, end, i) = end + i - Cardinality(av)
        /\ NthBlock(av, end, j) = end + j - Cardinality(av)
    BY <1>4, <2>1 DEF NthBlock
  <2> QED
    BY <1>1, <1>4, <2>1, <2>2
<1> QED
  BY <1>2, <1>3, <1>4

LEMMA TakenOnce ==
    ASSUME NEW end \in Nat, NEW av \in SUBSET (1 .. end), NEW n \in Nat,
           NEW i \in 1 .. n, NEW j \in 1 .. n, NthBlock(av, end, i) = NthBlock(av, end, j)
    PROVE  i = j
<1>1. i \in Nat /\ j \in Nat /\ 0 < i /\ 0 < j
  OBVIOUS
<1>2. ~(i < j)
  BY <1>1, TakenGrows
<1>3. ~(j < i)
  BY <1>1, TakenGrows
<1> QED
  BY <1>1, <1>2, <1>3

\* Every block by which the file grows is taken.
LEMMA GrownTaken ==
    ASSUME NEW end \in Nat, NEW av \in SUBSET (1 .. end), NEW n \in Nat,
           NEW b \in (end + 1) .. SizeAfter(av, end, n)
    PROVE  \E i \in 1 .. n : NthBlock(av, end, i) = b
<1>1. Cardinality(av) \in Nat
  BY InFile
<1>2. /\ SizeAfter(av, end, n) \in Nat
      /\ SizeAfter(av, end, n) = IF n <= Cardinality(av) THEN end
                                 ELSE end + n - Cardinality(av)
  BY SizeAfterIs
<1> DEFINE i == b - end + Cardinality(av)
<1>3. i \in 1 .. n /\ ~(i <= Cardinality(av)) /\ end + i - Cardinality(av) = b
  BY <1>1, <1>2
<1>4. NthBlock(av, end, i) = b
  BY <1>3 DEF NthBlock
<1> QED
  BY <1>3, <1>4

\* The blocks that n allocations take, all told.
Took(av, end, n) == {NthBlock(av, end, i) : i \in 1 .. n}
LEMMA TookIs ==
    ASSUME NEW end \in Nat, NEW av \in SUBSET (1 .. end), NEW n \in Nat
    PROVE  /\ SizeAfter(av, end, n) \in Nat /\ end <= SizeAfter(av, end, n)
           /\ Took(av, end, n) \subseteq 1 .. SizeAfter(av, end, n)
           /\ \A b \in Took(av, end, n) : b \in av \/ b > end
           /\ (end + 1) .. SizeAfter(av, end, n) \subseteq Took(av, end, n)
           /\ AvailAfter(av, end, n) = av \ Took(av, end, n)
<1>1. SizeAfter(av, end, n) \in Nat /\ end <= SizeAfter(av, end, n)
  <2>1. Cardinality(av) \in Nat
    BY InFile
  <2>2. /\ SizeAfter(av, end, n) \in Nat
        /\ SizeAfter(av, end, n) = IF n <= Cardinality(av) THEN end
                                   ELSE end + n - Cardinality(av)
    BY SizeAfterIs
  <2> QED
    BY <2>1, <2>2
<1>2. ASSUME NEW b \in Took(av, end, n)
      PROVE  b \in 1 .. SizeAfter(av, end, n) /\ (b \in av \/ b > end)
  <2>1. PICK i \in 1 .. n : b = NthBlock(av, end, i)
    BY DEF Took
  <2> QED
    BY <2>1, TakenIs
<1>3. ASSUME NEW b \in (end + 1) .. SizeAfter(av, end, n) PROVE b \in Took(av, end, n)
  <2>1. PICK i \in 1 .. n : b = NthBlock(av, end, i)
    BY GrownTaken
  <2> QED
    BY <2>1 DEF Took
<1>4. AvailAfter(av, end, n) = av \ Took(av, end, n)
  BY DEF AvailAfter, Took
<1> QED
  BY <1>1, <1>2, <1>3, <1>4

\* The blocks that are cut off are available ones.
LEMMA CutAtIs ==
    ASSUME NEW end \in Nat, NEW av
    PROVE  CutAt(av, end) \in 0 .. end /\ (CutAt(av, end) + 1) .. end \subseteq av
<1> DEFINE S == {n \in 0 .. end : (n + 1) .. end \subseteq av}
<1>1. S \in SUBSET Nat /\ end \in S
  OBVIOUS
<1>2. Min(S) \in S
  <2> HIDE DEF S
  <2> QED
    BY <1>1, MinNat
<1> QED
  BY <1>2 DEF CutAt

LEMMA NextTaken ==
    ASSUME NEW end \in Nat, NEW av \in SUBSET (1 .. end)
    PROVE  NthBlock(av, end, 1) \in av \/ (av = {} /\ NthBlock(av, end, 1) = end + 1)
<1>1. IsFiniteSet(av) /\ Cardinality(av) \in Nat
  BY InFile
<1>2. CASE av = {}
  <2>1. Cardinality(av) = 0
    BY <1>2, FS_EmptySet
  <2> QED
    BY <1>2, <2>1 DEF NthBlock
<1>3. CASE av # {}
  <2>1. Cardinality(av) # 0
    BY <1>1, <1>3, FS_EmptySet
  <2>2. 1 \in 1 .. Cardinality(av) /\ 1 <= Cardinality(av)
    BY <1>1, <2>1
  <2>3. Nth(av, 1) \in av
    BY <1>1, <2>2, NthIs, InFile
  <2> QED
    BY <2>2, <2>3 DEF NthBlock
<1> QED
  BY <1>2, <1>3

\* The run of available blocks around a block.
LEMMA ExtentAround ==
    ASSUME size \in Nat, NEW av \in SUBSET (1 .. size), NEW b \in av
    PROVE  Extents(av) # {}
<1> DEFINE L == {k \in 1 .. b : k .. b \subseteq av}
           N == {b - k : k \in L}
           H == {k \in b .. size : b .. k \subseteq av}
           M == {size - k : k \in H}
<1>0. b \in Nat /\ b \in 1 .. size
  OBVIOUS
<1>1. b \in L /\ b \in H
  BY <1>0
<1>2. N \in SUBSET Nat /\ M \in SUBSET Nat
  BY <1>0
\* The lowest start and the highest end.
<1>3. L \in SUBSET Nat /\ L # {}
  BY <1>1
<1>4. M # {}
  BY <1>1
<1> HIDE DEF L, M, N
<1>5. PICK lo \in L : \A y \in L : lo =< y
  BY <1>3, LeastNat
<1>6. PICK m \in M : \A y \in M : m =< y
  BY <1>2, <1>4, LeastNat
<1>7. PICK hi \in H : m = size - hi
  BY <1>6 DEF M
<1>8. \A k \in H : k <= hi
  <2> SUFFICES ASSUME NEW k \in H PROVE k <= hi
    OBVIOUS
  <2>1. size - k \in M
    BY DEF M
  <2>2. size - hi =< size - k
    BY <1>6, <1>7, <2>1
  <2>3. hi \in Int /\ k \in Int
    BY <1>7, <1>0
  <2> QED
    BY <2>2, <2>3
<1>9. lo \in 1 .. b /\ lo .. b \subseteq av
  BY <1>5 DEF L
<1>10. hi \in b .. size /\ b .. hi \subseteq av
  BY <1>7
<1>11. lo - 1 \notin av
  <2> SUFFICES ASSUME lo - 1 \in av PROVE FALSE
    OBVIOUS
  <2>1. lo - 1 \in 1 .. size
    OBVIOUS
  <2>2. lo - 1 \in 1 .. b /\ (lo - 1) .. b \subseteq av
    BY <1>0, <1>9, <2>1
  <2>3. lo - 1 \in L
    BY <2>2 DEF L
  <2> QED
    BY <1>5, <1>9, <2>3
<1>12. hi + 1 \notin av
  <2> SUFFICES ASSUME hi + 1 \in av PROVE FALSE
    OBVIOUS
  <2>1. hi + 1 \in 1 .. size
    OBVIOUS
  <2>2. hi + 1 \in b .. size /\ b .. (hi + 1) \subseteq av
    BY <1>0, <1>10, <2>1
  <2>3. hi + 1 \in H
    BY <2>2
  <2> QED
    BY <1>8, <1>10, <2>3
<1>13. lo .. hi \subseteq av
  BY <1>0, <1>9, <1>10
<1>14. /\ <<lo, hi>> \in (1 .. size) \X (1 .. size)
       /\ <<lo, hi>>[1] = lo /\ <<lo, hi>>[2] = hi /\ lo <= hi
  BY <1>0, <1>9, <1>10
<1>15. <<lo, hi>> \in Extents(av)
  BY <1>11, <1>12, <1>13, <1>14 DEF Extents
<1> QED
  BY <1>15

\* The shortest extent, and of those the first.
LEMMA ShortestExtent ==
    ASSUME size \in Nat, NEW av \in SUBSET (1 .. size), av # {}
    PROVE  \E e \in Extents(av) : \A f \in Extents(av) : Shorter(e, f)
<1> DEFINE E == Extents(av)
           S == {e[2] - e[1] : e \in E}
<1>1. E # {}
  BY ExtentAround
<1>2. \A e \in E : e[1] \in Nat /\ e[2] \in Nat /\ e[1] <= e[2]
  BY DEF Extents
<1> HIDE DEF E
<1>3. S \in SUBSET Nat /\ S # {}
  BY <1>1, <1>2
<1>4. PICK d \in S : \A y \in S : d =< y
  <2> HIDE DEF S
  <2> QED
    BY <1>3, LeastNat
<1> DEFINE F == {e \in E : e[2] - e[1] = d}
           T == {e[1] : e \in F}
<1>5. F # {}
  BY <1>4
<1>6. T \in SUBSET Nat /\ T # {}
  BY <1>2, <1>5
<1>7. PICK s \in T : \A y \in T : s =< y
  <2> HIDE DEF T
  <2> QED
    BY <1>6, LeastNat
<1>8. PICK e \in F : e[1] = s
  BY <1>7
<1>9. ASSUME NEW f \in E PROVE Shorter(e, f)
  <2>1. f[2] - f[1] \in S /\ d =< f[2] - f[1] /\ d = e[2] - e[1]
    BY <1>4, <1>8
  <2>2. CASE d = f[2] - f[1]
    <3>1. f[1] \in T
      BY <2>2
    <3>2. s =< f[1]
      BY <1>7, <3>1
    <3> QED
      BY <1>8, <2>1, <2>2, <3>2 DEF Shorter
  <2>3. CASE d # f[2] - f[1]
    <3>1. d < f[2] - f[1]
      BY <1>2, <1>8, <2>1, <2>3
    <3> QED
      BY <2>1, <3>1 DEF Shorter
  <2> QED
    BY <2>2, <2>3
<1> QED
  BY <1>8, <1>9 DEF E

\* __wt_block_alloc takes an available block, or the one past the end of the file.
LEMMA BestFitIs ==
    ASSUME size \in Nat, live.avail \in SUBSET (1 .. size)
    PROVE  BestFit \in live.avail \/ BestFit = size + 1
<1>1. CASE live.avail = {}
  BY <1>1 DEF BestFit
<1>2. CASE live.avail # {}
  <2> DEFINE P(e) == \A f \in Extents(live.avail) : Shorter(e, f)
  <2>1. \E e \in Extents(live.avail) : P(e)
    BY <1>2, ShortestExtent
  <2>2. (CHOOSE e \in Extents(live.avail) : P(e)) \in Extents(live.avail)
    <3> HIDE DEF P
    <3> QED
      BY <2>1, Zenon
  <2>3. BestFit = (CHOOSE e \in Extents(live.avail) : P(e))[1]
    BY <1>2 DEF BestFit
  <2>4. PICK e \in Extents(live.avail) : BestFit = e[1]
    BY <2>2, <2>3
  <2>5. e[1] \in e[1] .. e[2] /\ e[1] .. e[2] \subseteq live.avail
    BY DEF Extents
  <2> QED
    BY <2>4, <2>5
<1> QED
  BY <1>1, <1>2

-----------------------------------------------------------------------------
(* The blocks the epochs allocate and discard. *)

\* F2 is F, but at its last epoch.
SameBefore(m, F, F2) == \A i \in 1 .. m : i # m => F2[i] = F[i]

\* A block that no epoch has allocated is nowhere in the chain.
LEMMA FreshNowhere ==
    ASSUME NEW m, NEW A, NEW D, NEW R, NEW I, Chain(m, A, D, R, I),
           NEW b \in Blocks, \A i \in 1 .. m : b \notin A[i]
    PROVE  \A i \in 1 .. m : b \notin D[i] /\ b \notin I[i] /\ R[i] # b
<1> SUFFICES ASSUME NEW i \in 1 .. m
             PROVE  b \notin D[i] /\ b \notin I[i] /\ R[i] # b
  OBVIOUS
<1>1. b \notin D[i]
  BY DEF Chain, DiscardLater
<1>2. b \notin I[i]
  BY DEF Chain, ImageExact
<1>3. R[i] # b
  <2>1. b # 0
    BY DEF Blocks
  <2> QED
    BY <2>1 DEF Chain, RootsKept
<1> QED
  BY <1>1, <1>2, <1>3

\* The last epoch allocates a block for a page.
LEMMA ChainAdd ==
    ASSUME NEW m, NEW A, NEW D, NEW R, NEW I, Chain(m, A, D, R, I),
           NEW b \in Blocks, \A i \in 1 .. m : b \notin A[i],
           NEW A2 \in [1 .. m -> SUBSET Blocks], SameBefore(m, A, A2), A2[m] = A[m] \cup {b},
           NEW I2 \in [1 .. m -> SUBSET Blocks], SameBefore(m, I, I2), I2[m] = I[m] \cup {b}
    PROVE  Chain(m, A2, D, R, I2)
<1>0. m \in Nat \ {0} /\ m \in 1 .. m
  BY DEF Chain, ChainType
<1>1. \A i \in 1 .. m : b \notin D[i] /\ b \notin I[i] /\ R[i] # b
  BY FreshNowhere
<1>2. \A i \in 1 .. m : \A c \in Blocks : c \in A2[i] <=> c \in A[i] \/ (i = m /\ c = b)
  BY DEF SameBefore
<1>3. \A i \in 1 .. m : \A c \in Blocks : c \in I2[i] <=> c \in I[i] \/ (i = m /\ c = b)
  BY DEF SameBefore
<1>4. \A i \in 1 .. m : /\ A[i] \subseteq Blocks /\ A2[i] \subseteq Blocks
                        /\ D[i] \subseteq Blocks /\ I[i] \subseteq Blocks
  BY DEF Chain, ChainType
<1>5. ChainType(m, A2, D, R, I2)
  BY DEF Chain, ChainType
<1>6. AllocOnce(m, A2)
  BY <1>2, <1>4 DEF Chain, AllocOnce
<1>7. DiscardLater(m, A2, D)
  BY <1>2, <1>4 DEF Chain, DiscardLater
<1>8. RootsKept(m, A2, D, R, I2)
  <2> SUFFICES ASSUME NEW i \in 1 .. m, R[i] # 0
               PROVE  R[i] \in A2[i] /\ \A j \in 1 .. m : R[i] \notin D[j] /\ R[i] \notin I2[j]
    BY DEF RootsKept
  <2>1. R[i] \in A[i] /\ \A j \in 1 .. m : R[i] \notin D[j] /\ R[i] \notin I[j]
    BY DEF Chain, RootsKept
  <2>2. R[i] \in Blocks /\ R[i] # b
    BY <1>1, <1>4, <2>1
  <2> QED
    BY <1>2, <1>3, <2>1, <2>2
<1>9. ImageExact(m, A2, D, R, I2)
  <2> SUFFICES ASSUME NEW i \in 1 .. m, NEW c \in Blocks
               PROVE  c \in I2[i] <=> /\ \E j \in 1 .. m : j <= i /\ c \in A2[j] /\ c # R[j]
                                      /\ \A j \in 1 .. m : j <= i => c \notin D[j]
    BY DEF ImageExact
  <2>1. c \in I[i] <=> /\ \E j \in 1 .. m : j <= i /\ c \in A[j] /\ c # R[j]
                       /\ \A j \in 1 .. m : j <= i => c \notin D[j]
    BY DEF Chain, ImageExact
  <2>2. CASE c # b
    BY <1>2, <1>3, <2>1, <2>2
  <2>3. CASE c = b
    <3>1. c \in I2[i] <=> i = m
      BY <1>1, <1>3, <2>3
    <3>2. \A j \in 1 .. m : c \in A2[j] <=> j = m
      BY <1>2, <2>3
    <3>3. \A j \in 1 .. m : c \notin D[j] /\ c # R[j]
      BY <1>1, <2>3
    <3>4. m <= i <=> i = m
      BY <1>0
    <3> QED
      BY <1>0, <3>1, <3>2, <3>3, <3>4
  <2> QED
    BY <2>2, <2>3
<1> QED
  BY <1>5, <1>6, <1>7, <1>8, <1>9 DEF Chain

\* The last epoch, which has no root yet, allocates it.
LEMMA ChainAddRoot ==
    ASSUME NEW m, NEW A, NEW D, NEW R, NEW I, Chain(m, A, D, R, I),
           NEW b \in Blocks, \A i \in 1 .. m : b \notin A[i],
           NEW A2 \in [1 .. m -> SUBSET Blocks], SameBefore(m, A, A2), A2[m] = A[m] \cup {b},
           NEW R2 \in [1 .. m -> Address], SameBefore(m, R, R2), R[m] = 0, R2[m] = b
    PROVE  Chain(m, A2, D, R2, I)
<1>0. m \in Nat \ {0} /\ m \in 1 .. m
  BY DEF Chain, ChainType
<1>1. \A i \in 1 .. m : b \notin D[i] /\ b \notin I[i] /\ R[i] # b
  BY FreshNowhere
<1>2. \A i \in 1 .. m : \A c \in Blocks : c \in A2[i] <=> c \in A[i] \/ (i = m /\ c = b)
  BY DEF SameBefore
<1>3. \A i \in 1 .. m : R2[i] = IF i = m THEN b ELSE R[i]
  BY DEF SameBefore
<1>4. \A i \in 1 .. m : /\ A[i] \subseteq Blocks /\ A2[i] \subseteq Blocks
                        /\ D[i] \subseteq Blocks /\ I[i] \subseteq Blocks
  BY DEF Chain, ChainType
<1>5. ChainType(m, A2, D, R2, I)
  BY DEF Chain, ChainType
<1>6. AllocOnce(m, A2)
  BY <1>2, <1>4 DEF Chain, AllocOnce
<1>7. DiscardLater(m, A2, D)
  BY <1>2, <1>4 DEF Chain, DiscardLater
<1>8. RootsKept(m, A2, D, R2, I)
  <2> SUFFICES ASSUME NEW i \in 1 .. m, R2[i] # 0
               PROVE  R2[i] \in A2[i] /\ \A j \in 1 .. m : R2[i] \notin D[j] /\ R2[i] \notin I[j]
    BY DEF RootsKept
  <2>1. CASE i = m
    BY <1>1, <1>2, <1>3, <2>1
  <2>2. CASE i # m
    <3>1. R2[i] = R[i] /\ A2[i] = A[i]
      BY <1>3, <2>2 DEF SameBefore
    <3> QED
      BY <3>1 DEF Chain, RootsKept
  <2> QED
    BY <2>1, <2>2
<1>9. ImageExact(m, A2, D, R2, I)
  <2> SUFFICES ASSUME NEW i \in 1 .. m, NEW c \in Blocks
               PROVE  c \in I[i] <=> /\ \E j \in 1 .. m : j <= i /\ c \in A2[j] /\ c # R2[j]
                                     /\ \A j \in 1 .. m : j <= i => c \notin D[j]
    BY DEF ImageExact
  <2>1. c \in I[i] <=> /\ \E j \in 1 .. m : j <= i /\ c \in A[j] /\ c # R[j]
                       /\ \A j \in 1 .. m : j <= i => c \notin D[j]
    BY DEF Chain, ImageExact
  <2>2. CASE c # b
    <3>1. \A j \in 1 .. m : (c \in A2[j] /\ c # R2[j]) <=> (c \in A[j] /\ c # R[j])
      <4>1. c # 0
        BY DEF Blocks
      <4> QED
        BY <1>2, <1>3, <2>2, <4>1
    <3> QED
      BY <2>1, <3>1
  <2>3. CASE c = b
    BY <1>1, <1>2, <1>3, <2>3
  <2> QED
    BY <2>2, <2>3
<1> QED
  BY <1>5, <1>6, <1>7, <1>8, <1>9 DEF Chain

\* A block of the last epoch's pages is freed: one the epoch itself allocated is no
\* longer in the chain, any other one is discarded.
LEMMA ChainFree ==
    ASSUME NEW m, NEW A, NEW D, NEW R, NEW I, Chain(m, A, D, R, I), NEW b \in I[m],
           NEW A2 \in [1 .. m -> SUBSET Blocks], SameBefore(m, A, A2), A2[m] = A[m] \ {b},
           NEW D2 \in [1 .. m -> SUBSET Blocks], SameBefore(m, D, D2),
           D2[m] = IF b \in A[m] THEN D[m] ELSE D[m] \cup {b},
           NEW I2 \in [1 .. m -> SUBSET Blocks], SameBefore(m, I, I2), I2[m] = I[m] \ {b}
    PROVE  Chain(m, A2, D2, R, I2)
<1>0. m \in Nat \ {0} /\ m \in 1 .. m /\ b \in Blocks
  BY DEF Chain, ChainType
<1>a. \A i \in 1 .. m : m <= i <=> i = m
  BY <1>0
<1>b. \A i \in 1 .. m : ~(m < i) /\ i <= m /\ (i # m => i < m)
  BY <1>0
<1>1. /\ \E j \in 1 .. m : b \in A[j] /\ b # R[j]
      /\ \A j \in 1 .. m : b \notin D[j]
  BY <1>0, <1>b DEF Chain, ImageExact
<1>2. \A i \in 1 .. m : \A c \in Blocks : c \in A2[i] <=> c \in A[i] /\ ~(i = m /\ c = b)
  BY DEF SameBefore
<1>3. \A i \in 1 .. m : \A c \in Blocks : c \in I2[i] <=> c \in I[i] /\ ~(i = m /\ c = b)
  BY DEF SameBefore
<1>4. \A i \in 1 .. m : \A c \in Blocks :
        c \in D2[i] <=> c \in D[i] \/ (i = m /\ c = b /\ b \notin A[m])
  BY DEF SameBefore
<1>5. \A i \in 1 .. m : /\ A[i] \subseteq Blocks /\ A2[i] \subseteq Blocks
                        /\ D[i] \subseteq Blocks /\ I[i] \subseteq Blocks
                        /\ D2[i] \subseteq Blocks /\ I2[i] \subseteq Blocks
  BY DEF Chain, ChainType
<1>6. \A i \in 1 .. m : R[i] # b
  <2>1. b # 0
    BY <1>0 DEF Blocks
  <2> QED
    BY <1>0, <2>1 DEF Chain, RootsKept
<1>7. ChainType(m, A2, D2, R, I2)
  BY DEF Chain, ChainType
<1>8. AllocOnce(m, A2)
  BY <1>2, <1>5 DEF Chain, AllocOnce
<1>9. DiscardOnce(m, D2)
  BY <1>0, <1>1, <1>4, <1>5 DEF Chain, DiscardOnce
<1>10. DiscardLater(m, A2, D2)
  <2> SUFFICES ASSUME NEW i \in 1 .. m, NEW c \in D2[i]
               PROVE  \E j \in 1 .. m : j < i /\ c \in A2[j]
    BY DEF DiscardLater
  <2>1. c \in Blocks
    BY <1>5
  <2>2. CASE c \in D[i]
    <3>1. PICK j \in 1 .. m : j < i /\ c \in A[j]
      BY <2>2 DEF Chain, DiscardLater
    <3>2. c # b
      BY <1>1, <2>2
    <3> QED
      BY <1>2, <2>1, <3>1, <3>2
  <2>3. CASE i = m /\ c = b /\ b \notin A[m]
    <3>1. PICK j \in 1 .. m : b \in A[j]
      BY <1>1
    <3>2. j # m
      BY <2>3, <3>1
    <3> QED
      BY <1>b, <1>2, <2>1, <2>3, <3>1, <3>2
  <2> QED
    BY <1>4, <2>1, <2>2, <2>3
<1>11. RootsKept(m, A2, D2, R, I2)
  <2> SUFFICES ASSUME NEW i \in 1 .. m, R[i] # 0
               PROVE  R[i] \in A2[i] /\ \A j \in 1 .. m : R[i] \notin D2[j] /\ R[i] \notin I2[j]
    BY DEF RootsKept
  <2>1. R[i] \in A[i] /\ \A j \in 1 .. m : R[i] \notin D[j] /\ R[i] \notin I[j]
    BY DEF Chain, RootsKept
  <2>2. R[i] \in Blocks /\ R[i] # b
    BY <1>5, <1>6, <2>1
  <2> QED
    BY <1>2, <1>3, <1>4, <2>1, <2>2
<1>12. ImageExact(m, A2, D2, R, I2)
  <2> SUFFICES ASSUME NEW i \in 1 .. m, NEW c \in Blocks
               PROVE  c \in I2[i] <=> /\ \E j \in 1 .. m : j <= i /\ c \in A2[j] /\ c # R[j]
                                      /\ \A j \in 1 .. m : j <= i => c \notin D2[j]
    BY DEF ImageExact
  <2>1. c \in I[i] <=> /\ \E j \in 1 .. m : j <= i /\ c \in A[j] /\ c # R[j]
                       /\ \A j \in 1 .. m : j <= i => c \notin D[j]
    BY DEF Chain, ImageExact
  <2>2. CASE c # b
    <3>1. /\ c \in I2[i] <=> c \in I[i]
          /\ \A j \in 1 .. m : (c \in A2[j] <=> c \in A[j]) /\ (c \in D2[j] <=> c \in D[j])
      BY <1>2, <1>3, <1>4, <2>2
    <3> QED
      BY <2>1, <3>1
  <2>3. CASE c = b /\ i # m
    <3>1. \A j \in 1 .. m : j <= i => j # m
      BY <1>a, <2>3
    <3>2. /\ c \in I2[i] <=> c \in I[i]
          /\ \A j \in 1 .. m : j <= i =>
               (c \in A2[j] <=> c \in A[j]) /\ (c \in D2[j] <=> c \in D[j])
      BY <1>2, <1>3, <1>4, <2>3, <3>1
    <3> QED
      BY <2>1, <3>2
  <2>4. CASE c = b /\ i = m
    <3>1. c \notin I2[i]
      BY <1>3, <2>4
    <3>2. CASE b \in A[m]
      <4>1. \A j \in 1 .. m : b \in A[j] => j = m
        BY <1>0, <3>2 DEF Chain, AllocOnce
      <4>2. \A j \in 1 .. m : b \notin A2[j]
        BY <1>0, <1>2, <4>1
      <4> QED
        BY <2>4, <3>1, <4>2
    <3>3. CASE b \notin A[m]
      <4>1. b \in D2[m] /\ m <= i
        BY <1>0, <1>4, <2>4, <3>3
      <4> QED
        BY <1>0, <2>4, <3>1, <4>1
    <3> QED
      BY <3>2, <3>3
  <2> QED
    BY <2>2, <2>3, <2>4
<1> QED
  BY <1>7, <1>8, <1>9, <1>10, <1>11, <1>12 DEF Chain

-----------------------------------------------------------------------------
(* Merging epochs: epoch i goes into group g[i], whose last epoch is at[g[i]]. *)

Grouping(m, n, g, at) ==
    /\ m \in Nat \ {0} /\ n \in Nat \ {0}
    /\ g \in [1 .. m -> 1 .. n] /\ at \in [1 .. n -> 1 .. m]
    /\ \A k \in 1 .. n : g[at[k]] = k
    /\ \A i \in 1 .. m, k \in 1 .. n : i <= at[k] <=> g[i] <= k
\* What the epochs of group k allocate and discard, the roots of all but the last included.
InAlloc(m, A, g, k, b) == \E i \in 1 .. m : g[i] = k /\ b \in A[i]
InDiscard(m, D, R, g, at, k, b) ==
    \E i \in 1 .. m : g[i] = k /\ (b \in D[i] \/ (b = R[i] /\ i # at[k]))
Merged(m, n, A, D, R, g, at, A2, D2) ==
    \A k \in 1 .. n : \A b \in Blocks :
        /\ b \in A2[k] <=> InAlloc(m, A, g, k, b) /\ ~InDiscard(m, D, R, g, at, k, b)
        /\ b \in D2[k] <=> InDiscard(m, D, R, g, at, k, b) /\ ~InAlloc(m, A, g, k, b)

\* Merging epochs leaves a chain: what a group both allocates and discards is no longer
\* in it, and the pages of the checkpoints that are kept are where they were.
Regrouped(m, n, A, D, R, I, g, at, A2, D2, R2, I2) ==
    /\ Grouping(m, n, g, at)
    /\ A2 \in [1 .. n -> SUBSET Blocks] /\ D2 \in [1 .. n -> SUBSET Blocks]
    /\ Merged(m, n, A, D, R, g, at, A2, D2)
    /\ R2 \in [1 .. n -> Address] /\ \A k \in 1 .. n : R2[k] = R[at[k]]
    /\ I2 \in [1 .. n -> SUBSET Blocks] /\ \A k \in 1 .. n : I2[k] = I[at[k]]
LEMMA ChainMerge ==
    ASSUME NEW m, NEW A, NEW D, NEW R, NEW I, Chain(m, A, D, R, I),
           NEW n, NEW g, NEW at, NEW A2, NEW D2, NEW R2, NEW I2,
           Regrouped(m, n, A, D, R, I, g, at, A2, D2, R2, I2)
    PROVE  Chain(n, A2, D2, R2, I2)
<1> DEFINE InA(k, b) == InAlloc(m, A, g, k, b)
           InD(k, b) == InDiscard(m, D, R, g, at, k, b)
<1>0. /\ Grouping(m, n, g, at)
      /\ A2 \in [1 .. n -> SUBSET Blocks] /\ D2 \in [1 .. n -> SUBSET Blocks]
      /\ Merged(m, n, A, D, R, g, at, A2, D2)
      /\ R2 \in [1 .. n -> Address] /\ I2 \in [1 .. n -> SUBSET Blocks]
  BY Zenon DEF Regrouped
<1>a. /\ \A k \in 1 .. n : R2[k] = R[at[k]]
      /\ \A k \in 1 .. n : I2[k] = I[at[k]]
  BY DEF Regrouped
<1> USE <1>0, <1>a
<1>1. /\ \A i \in 1 .. m : A[i] \subseteq Blocks /\ D[i] \subseteq Blocks
      /\ \A k \in 1 .. n : A2[k] \subseteq Blocks /\ D2[k] \subseteq Blocks
  BY DEF Chain, ChainType
<1>2. /\ m \in Nat \ {0} /\ n \in Nat \ {0}
      /\ \A i \in 1 .. m : g[i] \in 1 .. n
      /\ \A k \in 1 .. n : at[k] \in 1 .. m /\ g[at[k]] = k
      /\ \A i \in 1 .. m, k \in 1 .. n : i <= at[k] <=> g[i] <= k
  BY DEF Grouping
<1>3. \A k \in 1 .. n : \A b \in Blocks :
        /\ b \in A2[k] <=> InA(k, b) /\ ~InD(k, b)
        /\ b \in D2[k] <=> InD(k, b) /\ ~InA(k, b)
  BY DEF Merged
<1>4. \A i, j \in 1 .. m : \A b \in Blocks : b \in A[i] /\ b \in A[j] => i = j
  BY DEF Chain, AllocOnce
<1>5. \A i, j \in 1 .. m : \A b \in Blocks : b \in D[i] /\ b \in D[j] => i = j
  BY DEF Chain, DiscardOnce
\* A root.
<1>6. \A i \in 1 .. m : \A b \in Blocks : b = R[i] =>
        b \in A[i] /\ \A j \in 1 .. m : b \notin D[j] /\ b \notin I[j]
  <2>1. \A b \in Blocks : b # 0
    BY DEF Blocks
  <2> QED
    BY <2>1 DEF Chain, RootsKept
<1>7. \A k \in 1 .. n : \A b \in Blocks : InA(k, b) <=> \E i \in 1 .. m : g[i] = k /\ b \in A[i]
  BY DEF InAlloc
<1>8. \A k \in 1 .. n : \A b \in Blocks :
        InD(k, b) <=> \E i \in 1 .. m : g[i] = k /\ (b \in D[i] \/ (b = R[i] /\ i # at[k]))
  BY DEF InDiscard
<1> HIDE DEF InA, InD
<1>9. ChainType(n, A2, D2, R2, I2)
  BY <1>2 DEF ChainType
<1>10. AllocOnce(n, A2)
  <2> SUFFICES ASSUME NEW k \in 1 .. n, NEW l \in 1 .. n, NEW b \in A2[k], b \in A2[l]
               PROVE  k = l
    BY DEF AllocOnce
  <2>1. b \in Blocks
    BY <1>1
  <2>2. InA(k, b) /\ InA(l, b)
    BY <1>3, <2>1
  <2>3. PICK i \in 1 .. m : g[i] = k /\ b \in A[i]
    BY <1>7, <2>1, <2>2
  <2>4. PICK j \in 1 .. m : g[j] = l /\ b \in A[j]
    BY <1>7, <2>1, <2>2
  <2>5. i = j
    BY <1>4, <2>1, <2>3, <2>4
  <2> QED
    BY <2>3, <2>4, <2>5
<1>11. DiscardOnce(n, D2)
  <2> SUFFICES ASSUME NEW k \in 1 .. n, NEW l \in 1 .. n, NEW b \in D2[k], b \in D2[l]
               PROVE  k = l
    BY DEF DiscardOnce
  <2>1. b \in Blocks
    BY <1>1
  <2>2. InD(k, b) /\ InD(l, b)
    BY <1>3, <2>1
  <2>3. PICK i \in 1 .. m : g[i] = k /\ (b \in D[i] \/ b = R[i])
    BY <1>8, <2>1, <2>2
  <2>4. PICK j \in 1 .. m : g[j] = l /\ (b \in D[j] \/ b = R[j])
    BY <1>8, <2>1, <2>2
  <2>5. CASE b \in D[i]
    <3>1. b \in D[j]
      BY <1>6, <2>1, <2>4, <2>5
    <3> QED
      BY <1>5, <2>1, <2>3, <2>4, <2>5, <3>1
  <2>6. CASE b = R[i]
    <3>1. b = R[j] /\ b \in A[i]
      BY <1>6, <2>1, <2>4, <2>6
    <3>2. b \in A[j]
      BY <1>6, <2>1, <3>1
    <3>3. i = j
      BY <1>4, <2>1, <3>1, <3>2
    <3> QED
      BY <2>3, <2>4, <3>3
  <2> QED
    BY <2>3, <2>5, <2>6
<1>12. DiscardLater(n, A2, D2)
  <2> SUFFICES ASSUME NEW k \in 1 .. n, NEW b \in D2[k]
               PROVE  \E l \in 1 .. n : l < k /\ b \in A2[l]
    BY DEF DiscardLater
  <2>1. b \in Blocks
    BY <1>1
  <2>2. InD(k, b) /\ ~InA(k, b)
    BY <1>3, <2>1
  <2>3. PICK i \in 1 .. m : g[i] = k /\ (b \in D[i] \/ b = R[i])
    BY <1>8, <2>1, <2>2
  <2>4. b \in D[i]
    <3>1. b \notin A[i]
      BY <1>7, <2>1, <2>2, <2>3
    <3> QED
      BY <1>6, <2>1, <2>3, <3>1
  <2>5. PICK j \in 1 .. m : j < i /\ b \in A[j]
    BY <2>4 DEF Chain, DiscardLater
  <2>6. g[j] # k
    BY <1>7, <2>1, <2>2, <2>5
  <2>7. g[j] < k
    <3>1. i <= at[k] /\ at[k] \in 1 .. m /\ k \in Nat
      BY <1>2, <2>3
    <3>2. j <= at[k]
      BY <1>2, <2>5, <3>1
    <3>3. g[j] <= k /\ g[j] \in 1 .. n
      BY <1>2, <3>2
    <3> QED
      BY <2>6, <3>1, <3>3
  <2>8. ~InD(g[j], b)
    <3> SUFFICES ASSUME InD(g[j], b) PROVE FALSE
      OBVIOUS
    <3>1. PICK h \in 1 .. m : g[h] = g[j] /\ (b \in D[h] \/ b = R[h])
      BY <1>2, <1>8, <2>1
    <3>2. b \in D[h]
      BY <1>6, <2>1, <2>4, <3>1
    <3>3. h = i
      BY <1>5, <2>1, <2>4, <3>2
    <3> QED
      BY <2>3, <2>6, <3>1, <3>3
  <2>9. InA(g[j], b)
    BY <1>2, <1>7, <2>1, <2>5
  <2> QED
    BY <1>2, <1>3, <2>1, <2>7, <2>8, <2>9
<1>13. RootsKept(n, A2, D2, R2, I2)
  <2> SUFFICES ASSUME NEW k \in 1 .. n, R2[k] # 0
               PROVE  R2[k] \in A2[k] /\ \A l \in 1 .. n : R2[k] \notin D2[l] /\ R2[k] \notin I2[l]
    BY DEF RootsKept
  <2>1. PICK b : b = R2[k]
    OBVIOUS
  <2>2. b = R[at[k]] /\ b \in Blocks /\ at[k] \in 1 .. m /\ g[at[k]] = k
    <3>1. b \in Address /\ b # 0
      BY <2>1
    <3>2. b \in Blocks
      BY <3>1, BlockAssumption DEF Address, Blocks
    <3> QED
      BY <1>2, <2>1, <3>2
  <2>3. b \in A[at[k]] /\ \A j \in 1 .. m : b \notin D[j] /\ b \notin I[j]
    BY <1>6, <2>2
  <2>4. \A i \in 1 .. m : b = R[i] => i = at[k]
    BY <1>4, <1>6, <2>2, <2>3
  <2>5. \A l \in 1 .. n : ~InD(l, b)
    <3> SUFFICES ASSUME NEW l \in 1 .. n, InD(l, b) PROVE FALSE
      OBVIOUS
    <3>1. PICK h \in 1 .. m : g[h] = l /\ (b \in D[h] \/ (b = R[h] /\ h # at[l]))
      BY <1>8, <2>2
    <3>2. h = at[k] /\ h # at[l]
      BY <2>3, <2>4, <3>1
    <3> QED
      BY <2>2, <3>1, <3>2
  <2>6. InA(k, b)
    BY <1>7, <2>2, <2>3
  <2>7. b \in A2[k]
    BY <1>3, <2>2, <2>5, <2>6
  <2>8. \A l \in 1 .. n : b \notin D2[l] /\ b \notin I2[l]
    <3> SUFFICES ASSUME NEW l \in 1 .. n PROVE b \notin D2[l] /\ b \notin I2[l]
      OBVIOUS
    <3>1. PICK i \in 1 .. m : i = at[l] /\ I2[l] = I[i]
      BY <1>2
    <3>2. b \notin D2[l]
      BY <1>3, <2>2, <2>5
    <3> QED
      BY <2>3, <3>1, <3>2
  <2> QED
    BY <2>1, <2>7, <2>8
<1>14. ImageExact(n, A2, D2, R2, I2)
  <2> SUFFICES ASSUME NEW k \in 1 .. n, NEW b \in Blocks
               PROVE  b \in I2[k] <=> /\ \E l \in 1 .. n : l <= k /\ b \in A2[l] /\ b # R2[l]
                                      /\ \A l \in 1 .. n : l <= k => b \notin D2[l]
    BY DEF ImageExact
  <2>1. b \in I2[k] <=> /\ \E j \in 1 .. m : j <= at[k] /\ b \in A[j] /\ b # R[j]
                        /\ \A j \in 1 .. m : j <= at[k] => b \notin D[j]
    <3>1. PICK i \in 1 .. m : i = at[k] /\ I2[k] = I[i]
      BY <1>2
    <3>2. b \in I[i] <=> /\ \E j \in 1 .. m : j <= i /\ b \in A[j] /\ b # R[j]
                         /\ \A j \in 1 .. m : j <= i => b \notin D[j]
      BY DEF Chain, ImageExact
    <3> QED
      BY <3>1, <3>2
  <2>2. ASSUME b \in I2[k]
        PROVE  /\ \E l \in 1 .. n : l <= k /\ b \in A2[l] /\ b # R2[l]
               /\ \A l \in 1 .. n : l <= k => b \notin D2[l]
    <3>1. PICK j \in 1 .. m : j <= at[k] /\ b \in A[j] /\ b # R[j]
      BY <2>1, <2>2
    <3>2. \A h \in 1 .. m : g[h] <= k => b \notin D[h]
      BY <1>2, <2>1, <2>2
    <3>3. \A h \in 1 .. m : b # R[h]
      BY <1>4, <1>6, <3>1
    <3>4. \A l \in 1 .. n : l <= k => ~InD(l, b)
      BY <1>8, <3>2, <3>3
    <3>5. g[j] \in 1 .. n /\ g[j] <= k /\ InA(g[j], b)
      BY <1>2, <1>7, <3>1
    <3>6. b \in A2[g[j]] /\ b # R2[g[j]]
      <4>1. PICK l \in 1 .. n : l = g[j]
        BY <3>5
      <4>2. PICK i \in 1 .. m : i = at[l] /\ R2[l] = R[i]
        BY <1>2
      <4>3. b \in A2[l]
        BY <1>3, <3>4, <3>5, <4>1
      <4> QED
        BY <3>3, <4>1, <4>2, <4>3
    <3>7. \A l \in 1 .. n : l <= k => b \notin D2[l]
      BY <1>3, <3>4
    <3> QED
      BY <3>5, <3>6, <3>7
  <2>3. ASSUME NEW l \in 1 .. n, l <= k, b \in A2[l], b # R2[l],
               \A e \in 1 .. n : e <= k => b \notin D2[e]
        PROVE  b \in I2[k]
    <3>1. InA(l, b) /\ ~InD(l, b)
      BY <1>3, <2>3
    <3>2. PICK j \in 1 .. m : g[j] = l /\ b \in A[j]
      BY <1>7, <3>1
    <3>3. j <= at[k]
      BY <1>2, <2>3, <3>2
    <3>4. b # R[j]
      <4>1. j = at[l] => R[j] = R2[l]
        OBVIOUS
      <4>2. j # at[l] => b # R[j]
        BY <1>8, <3>1, <3>2
      <4> QED
        BY <2>3, <4>1, <4>2
    <3>5. ASSUME NEW h \in 1 .. m, h <= at[k], b \in D[h] PROVE FALSE
      <4>1. g[h] \in 1 .. n /\ g[h] <= k /\ InD(g[h], b)
        BY <1>2, <1>8, <3>5
      <4>2. InA(g[h], b)
        BY <1>3, <2>3, <4>1
      <4>3. PICK i \in 1 .. m : g[i] = g[h] /\ b \in A[i]
        BY <1>7, <4>1, <4>2
      <4>4. i = j
        BY <1>4, <3>2, <4>3
      <4> QED
        BY <3>1, <3>2, <4>1, <4>3, <4>4
    <3> QED
      BY <2>1, <3>2, <3>3, <3>4, <3>5
  <2> QED
    BY <2>2, <2>3
<1> QED
  BY <1>9, <1>10, <1>11, <1>12, <1>13, <1>14 DEF Chain

\* A new epoch begins where the last one ended.
Extended(n, A, D, R, I, A2, D2, R2, I2) ==
    /\ A2 \in [1 .. n + 1 -> SUBSET Blocks] /\ D2 \in [1 .. n + 1 -> SUBSET Blocks]
    /\ R2 \in [1 .. n + 1 -> Address] /\ I2 \in [1 .. n + 1 -> SUBSET Blocks]
    /\ \A k \in 1 .. n : A2[k] = A[k] /\ D2[k] = D[k] /\ R2[k] = R[k] /\ I2[k] = I[k]
    /\ A2[n + 1] = {} /\ D2[n + 1] = {} /\ R2[n + 1] = 0 /\ I2[n + 1] = I[n]
LEMMA ChainNew ==
    ASSUME NEW n, NEW A, NEW D, NEW R, NEW I, Chain(n, A, D, R, I),
           NEW A2, NEW D2, NEW R2, NEW I2, Extended(n, A, D, R, I, A2, D2, R2, I2)
    PROVE  Chain(n + 1, A2, D2, R2, I2)
<1>0. /\ A2 \in [1 .. n + 1 -> SUBSET Blocks] /\ D2 \in [1 .. n + 1 -> SUBSET Blocks]
      /\ R2 \in [1 .. n + 1 -> Address] /\ I2 \in [1 .. n + 1 -> SUBSET Blocks]
      /\ \A k \in 1 .. n : A2[k] = A[k] /\ D2[k] = D[k] /\ R2[k] = R[k] /\ I2[k] = I[k]
      /\ A2[n + 1] = {} /\ D2[n + 1] = {} /\ R2[n + 1] = 0 /\ I2[n + 1] = I[n]
  BY DEF Extended
<1>1. /\ n \in Nat \ {0} /\ n + 1 \in Nat \ {0} /\ n \in 1 .. n
      /\ \A k \in 1 .. n + 1 : k = n + 1 \/ k \in 1 .. n
      /\ \A k \in 1 .. n : k \in 1 .. n + 1 /\ k # n + 1
      /\ \A k \in 1 .. n : k <= n /\ ~(n + 1 <= k) /\ k <= n + 1
      /\ n + 1 <= n + 1 /\ n + 1 \in 1 .. n + 1
  BY DEF Chain, ChainType
<1>2. ChainType(n + 1, A2, D2, R2, I2)
  BY <1>0, <1>1 DEF ChainType
<1>3. AllocOnce(n + 1, A2)
  BY <1>0, <1>1 DEF Chain, AllocOnce
<1>4. DiscardOnce(n + 1, D2)
  BY <1>0, <1>1 DEF Chain, DiscardOnce
<1>5. DiscardLater(n + 1, A2, D2)
  BY <1>0, <1>1 DEF Chain, DiscardLater
<1>6. RootsKept(n + 1, A2, D2, R2, I2)
  <2> SUFFICES ASSUME NEW k \in 1 .. n + 1, R2[k] # 0
               PROVE  /\ R2[k] \in A2[k]
                      /\ \A l \in 1 .. n + 1 : R2[k] \notin D2[l] /\ R2[k] \notin I2[l]
    BY DEF RootsKept
  <2>1. k \in 1 .. n
    BY <1>0, <1>1
  <2>2. R[k] \in A[k] /\ \A l \in 1 .. n : R[k] \notin D[l] /\ R[k] \notin I[l]
    BY <1>0, <2>1 DEF Chain, RootsKept
  <2> QED
    BY <1>0, <1>1, <2>1, <2>2
<1>7. ImageExact(n + 1, A2, D2, R2, I2)
  <2> SUFFICES ASSUME NEW k \in 1 .. n + 1, NEW b \in Blocks
               PROVE  b \in I2[k] <=>
                        /\ \E j \in 1 .. n + 1 : j <= k /\ b \in A2[j] /\ b # R2[j]
                        /\ \A j \in 1 .. n + 1 : j <= k => b \notin D2[j]
    BY DEF ImageExact
  <2>1. PICK l \in 1 .. n : I2[k] = I[l] /\ \A j \in 1 .. n : j <= k <=> j <= l
    BY <1>0, <1>1
  <2>2. b \in I[l] <=> /\ \E j \in 1 .. n : j <= l /\ b \in A[j] /\ b # R[j]
                       /\ \A j \in 1 .. n : j <= l => b \notin D[j]
    BY DEF Chain, ImageExact
  <2>3. (\E j \in 1 .. n + 1 : j <= k /\ b \in A2[j] /\ b # R2[j])
          <=> \E j \in 1 .. n : j <= l /\ b \in A[j] /\ b # R[j]
    BY <1>0, <1>1, <2>1
  <2>4. (\A j \in 1 .. n + 1 : j <= k => b \notin D2[j])
          <=> \A j \in 1 .. n : j <= l => b \notin D[j]
    BY <1>0, <1>1, <2>1
  <2> QED
    BY <2>1, <2>2, <2>3, <2>4
<1> QED
  BY <1>2, <1>3, <1>4, <1>5, <1>6, <1>7 DEF Chain

-----------------------------------------------------------------------------
(* The blocks of the file. *)

\* An available block, or one past the end of the file, belongs to no epoch.
LEMMA FreeNowhere ==
    ASSUME NEW m, NEW A, NEW E, NEW av, NEW ck, NEW sz, Space(m, A, E, av, ck, sz),
           NEW b, b \in av \/ b \in ck \/ b = sz + 1
    PROVE  \A i \in 1 .. m : b \notin A[i] /\ b \notin E[i]
<1>1. /\ \A i \in 1 .. m : A[i] \subseteq (1 .. sz) \ (av \cup ck)
      /\ \A i \in 1 .. m : E[i] \subseteq (1 .. sz) \ (av \cup ck)
      /\ sz \in Nat
  BY DEF Space, Address
<1>2. b = sz + 1 => b \notin 1 .. sz
  BY <1>1
<1> QED
  BY <1>1, <1>2

\* The last epoch takes a block.
LEMMA SpaceTake ==
    ASSUME NEW m, NEW A, NEW E, NEW av, NEW ck, NEW sz, Space(m, A, E, av, ck, sz), m \in 1 .. m,
           NEW b \in Blocks, b \in av \/ b = sz + 1,
           NEW A2, SameBefore(m, A, A2), A2[m] = A[m] \cup {b},
           NEW sz2, sz2 = IF b <= sz THEN sz ELSE b
    PROVE  Space(m, A2, E, av \ {b}, ck, sz2)
<1> DEFINE av2 == av \ {b}
<1>1. /\ sz \in Address /\ av \subseteq 1 .. sz /\ ck \subseteq (1 .. sz) \ av
      /\ \A i \in 1 .. m : A[i] \subseteq (1 .. sz) \ (av \cup ck)
      /\ \A i \in 1 .. m : E[i] \subseteq (1 .. sz) \ (av \cup ck)
      /\ \A i, j \in 1 .. m : A[i] \cap E[j] = {}
      /\ \A i, j \in 1 .. m : \A c \in E[i] : c \in E[j] => i = j
      /\ \A c \in 1 .. sz : c \in av \/ c \in ck \/ \E i \in 1 .. m : c \in A[i] \/ c \in E[i]
  BY DEF Space
<1>2. sz \in Nat /\ MaxBlock \in Nat /\ b \in 1 .. MaxBlock
  BY <1>1, BlockAssumption DEF Address, Blocks
<1>3. sz2 \in Address
  BY <1>1, <1>2 DEF Address
<1>4. 1 .. sz \subseteq 1 .. sz2 /\ b \in 1 .. sz2 /\ \A c \in 1 .. sz2 : c \in 1 .. sz \/ c = b
  BY <1>1, <1>2
<1>5. \A i \in 1 .. m : b \notin A[i] /\ b \notin E[i]
  BY FreeNowhere
<1>6. b \notin ck
  BY <1>1, <1>2
<1>7. \A i \in 1 .. m : \A c : c \in A2[i] <=> c \in A[i] \/ (i = m /\ c = b)
  BY DEF SameBefore
<1>8. av2 \subseteq 1 .. sz2 /\ ck \subseteq (1 .. sz2) \ av2 /\ b \notin av2 /\ av2 \subseteq av
      /\ \A c \in av : c = b \/ c \in av2
  BY <1>1, <1>4
<1> HIDE DEF av2
<1>9. \A i \in 1 .. m : A2[i] \subseteq (1 .. sz2) \ (av2 \cup ck)
  <2> SUFFICES ASSUME NEW i \in 1 .. m, NEW c \in A2[i]
               PROVE  c \in 1 .. sz2 /\ c \notin av2 /\ c \notin ck
    OBVIOUS
  <2>1. CASE c = b
    BY <1>4, <1>6, <1>8, <2>1
  <2>2. CASE c \in A[i]
    BY <1>1, <1>4, <1>8, <2>2
  <2> QED
    BY <1>7, <2>1, <2>2
<1>10. \A i \in 1 .. m : E[i] \subseteq (1 .. sz2) \ (av2 \cup ck)
  BY <1>1, <1>4, <1>8
<1>11. \A i, j \in 1 .. m : A2[i] \cap E[j] = {}
  <2> SUFFICES ASSUME NEW i \in 1 .. m, NEW j \in 1 .. m, NEW c, c \in A2[i], c \in E[j]
               PROVE  FALSE
    OBVIOUS
  <2>1. c # b
    BY <1>5
  <2>2. c \in A[i]
    BY <1>7, <2>1
  <2> QED
    BY <1>1, <2>2
<1>12. ASSUME NEW c \in 1 .. sz2
       PROVE  c \in av2 \/ c \in ck \/ \E i \in 1 .. m : c \in A2[i] \/ c \in E[i]
  <2>1. CASE c = b
    BY <1>7, <2>1
  <2>2. CASE c # b
    <3>1. c \in 1 .. sz
      BY <1>4, <2>2
    <3>2. c \in av \/ c \in ck \/ \E i \in 1 .. m : c \in A[i] \/ c \in E[i]
      BY <1>1, <3>1
    <3> QED
      BY <1>7, <1>8, <2>2, <3>2
  <2> QED
    BY <2>1, <2>2
<1> QED
  BY <1>1, <1>3, <1>8, <1>9, <1>10, <1>11, <1>12 DEF Space, av2

\* The last epoch gives back a block that it alone has.
LEMMA SpaceGive ==
    ASSUME NEW m, NEW A, NEW E, NEW av, NEW ck, NEW sz, Space(m, A, E, av, ck, sz), m \in 1 .. m,
           NEW b \in A[m], \A i \in 1 .. m : b \in A[i] => i = m,
           NEW A2, SameBefore(m, A, A2), A2[m] = A[m] \ {b}
    PROVE  Space(m, A2, E, av \cup {b}, ck, sz)
<1> DEFINE av2 == av \cup {b}
<1>1. /\ sz \in Address /\ av \subseteq 1 .. sz /\ ck \subseteq (1 .. sz) \ av
      /\ \A i \in 1 .. m : A[i] \subseteq (1 .. sz) \ (av \cup ck)
      /\ \A i \in 1 .. m : E[i] \subseteq (1 .. sz) \ (av \cup ck)
      /\ \A i, j \in 1 .. m : A[i] \cap E[j] = {}
      /\ \A i, j \in 1 .. m : \A c \in E[i] : c \in E[j] => i = j
      /\ \A c \in 1 .. sz : c \in av \/ c \in ck \/ \E i \in 1 .. m : c \in A[i] \/ c \in E[i]
  BY DEF Space
<1>2. b \in 1 .. sz /\ b \notin av /\ b \notin ck /\ \A i \in 1 .. m : b \notin E[i]
  BY <1>1
<1>3. \A i \in 1 .. m : \A c : c \in A2[i] <=> c \in A[i] /\ c # b
  BY DEF SameBefore
<1>4. av2 \subseteq 1 .. sz /\ ck \subseteq (1 .. sz) \ av2 /\ \A c : c \in av2 <=> c \in av \/ c = b
  BY <1>1, <1>2
<1> HIDE DEF av2
<1>5. \A i \in 1 .. m : A2[i] \subseteq (1 .. sz) \ (av2 \cup ck)
  BY <1>1, <1>3, <1>4
<1>6. \A i \in 1 .. m : E[i] \subseteq (1 .. sz) \ (av2 \cup ck)
  BY <1>1, <1>2, <1>4
<1>7. \A i, j \in 1 .. m : A2[i] \cap E[j] = {}
  BY <1>1, <1>3
<1>8. ASSUME NEW c \in 1 .. sz
      PROVE  c \in av2 \/ c \in ck \/ \E i \in 1 .. m : c \in A2[i] \/ c \in E[i]
  BY <1>1, <1>3, <1>4
<1> QED
  BY <1>1, <1>4, <1>5, <1>6, <1>7, <1>8 DEF Space, av2

\* What was to become available is available.
LEMMA SpaceResolve ==
    ASSUME NEW m, NEW A, NEW E, NEW av, NEW ck, NEW sz, Space(m, A, E, av, ck, sz)
    PROVE  Space(m, A, E, av \cup ck, {}, sz)
  BY DEF Space

-----------------------------------------------------------------------------
(* The epochs of a list of checkpoints and of a live system. *)

LEMMA Epochs ==
    ASSUME NEW lst \in Seq(Checkpoints), NEW w,
           w.alloc \in SUBSET Blocks, w.discard \in SUBSET Blocks, w.root \in Address,
           w.image \in SUBSET Blocks,
           NEW m, m = Len(lst) + 1
    PROVE  /\ m \in Nat \ {0} /\ m \in 1 .. m
           /\ \A i \in 1 .. m : i = m \/ i \in 1 .. Len(lst)
           /\ \A i \in 1 .. Len(lst) : i \in 1 .. m /\ i # m
           /\ AllocIn(lst, w) \in [1 .. m -> SUBSET Blocks] /\ AllocIn(lst, w)[m] = w.alloc
           /\ DiscardIn(lst, w) \in [1 .. m -> SUBSET Blocks] /\ DiscardIn(lst, w)[m] = w.discard
           /\ RootIn(lst, w) \in [1 .. m -> Address] /\ RootIn(lst, w)[m] = w.root
           /\ ImageIn(lst, w) \in [1 .. m -> SUBSET Blocks] /\ ImageIn(lst, w)[m] = w.image
           /\ \A i \in 1 .. Len(lst) :
                /\ AllocIn(lst, w)[i] = lst[i].alloc /\ DiscardIn(lst, w)[i] = lst[i].discard
                /\ RootIn(lst, w)[i] = lst[i].root.block
                /\ ImageIn(lst, w)[i] = lst[i].root.image
<1>1. Len(lst) \in Nat
  OBVIOUS
<1>2. /\ m \in Nat \ {0} /\ m \in 1 .. m
      /\ \A i \in 1 .. m : i = m \/ i \in 1 .. Len(lst)
      /\ \A i \in 1 .. Len(lst) : i \in 1 .. m /\ i # m
  BY <1>1
<1>3. \A i \in 1 .. Len(lst) : lst[i] \in Checkpoints
  OBVIOUS
<1>4. \A i \in 1 .. Len(lst) : /\ lst[i].alloc \in SUBSET Blocks /\ lst[i].discard \in SUBSET Blocks
                               /\ lst[i].root.block \in Address
                               /\ lst[i].root.image \in SUBSET Blocks
  BY <1>3 DEF Checkpoints
<1>5. AllocIn(lst, w) \in [1 .. m -> SUBSET Blocks] /\ AllocIn(lst, w)[m] = w.alloc
  BY <1>2, <1>4 DEF AllocIn
<1>6. DiscardIn(lst, w) \in [1 .. m -> SUBSET Blocks] /\ DiscardIn(lst, w)[m] = w.discard
  BY <1>2, <1>4 DEF DiscardIn
<1>7. RootIn(lst, w) \in [1 .. m -> Address] /\ RootIn(lst, w)[m] = w.root
  BY <1>2, <1>4 DEF RootIn
<1>8. ImageIn(lst, w) \in [1 .. m -> SUBSET Blocks] /\ ImageIn(lst, w)[m] = w.image
  BY <1>2, <1>4 DEF ImageIn
<1>9. \A i \in 1 .. Len(lst) :
         /\ AllocIn(lst, w)[i] = lst[i].alloc /\ DiscardIn(lst, w)[i] = lst[i].discard
         /\ RootIn(lst, w)[i] = lst[i].root.block
         /\ ImageIn(lst, w)[i] = lst[i].root.image
  BY <1>2 DEF AllocIn, DiscardIn, RootIn, ImageIn
<1> QED
  BY <1>2, <1>5, <1>6, <1>7, <1>8, <1>9

\* Two live systems after the same list.
LEMMA EpochsSame ==
    ASSUME NEW lst \in Seq(Checkpoints), NEW w, NEW w2, NEW m, m = Len(lst) + 1
    PROVE  /\ SameBefore(m, AllocIn(lst, w), AllocIn(lst, w2))
           /\ SameBefore(m, DiscardIn(lst, w), DiscardIn(lst, w2))
           /\ SameBefore(m, RootIn(lst, w), RootIn(lst, w2))
           /\ SameBefore(m, ImageIn(lst, w), ImageIn(lst, w2))
           /\ w2.alloc = w.alloc => AllocIn(lst, w2) = AllocIn(lst, w)
           /\ w2.discard = w.discard => DiscardIn(lst, w2) = DiscardIn(lst, w)
           /\ w2.root = w.root => RootIn(lst, w2) = RootIn(lst, w)
           /\ w2.image = w.image => ImageIn(lst, w2) = ImageIn(lst, w)
<1>1. SameBefore(m, AllocIn(lst, w), AllocIn(lst, w2))
  BY DEF SameBefore, AllocIn
<1>2. SameBefore(m, DiscardIn(lst, w), DiscardIn(lst, w2))
  BY DEF SameBefore, DiscardIn
<1>3. SameBefore(m, RootIn(lst, w), RootIn(lst, w2))
  BY DEF SameBefore, RootIn
<1>4. SameBefore(m, ImageIn(lst, w), ImageIn(lst, w2))
  BY DEF SameBefore, ImageIn
<1>5. w2.alloc = w.alloc => AllocIn(lst, w2) = AllocIn(lst, w)
  BY DEF AllocIn
<1>6. w2.discard = w.discard => DiscardIn(lst, w2) = DiscardIn(lst, w)
  BY DEF DiscardIn
<1>7. w2.root = w.root => RootIn(lst, w2) = RootIn(lst, w)
  BY DEF RootIn
<1>8. w2.image = w.image => ImageIn(lst, w2) = ImageIn(lst, w)
  BY DEF ImageIn
<1> QED
  BY <1>1, <1>2, <1>3, <1>4, <1>5, <1>6, <1>7, <1>8

\* Live systems with the same lists, root and pages are as good.
LEMMA WholeSame ==
    ASSUME NEW lst \in Seq(Checkpoints), NEW w, NEW w2, NEW av, NEW ck, NEW sz,
           Whole(lst, w, av, ck, sz),
           w2.alloc = w.alloc, w2.discard = w.discard, w2.root = w.root, w2.image = w.image
    PROVE  Whole(lst, w2, av, ck, sz)
<1>1. /\ AllocIn(lst, w2) = AllocIn(lst, w) /\ DiscardIn(lst, w2) = DiscardIn(lst, w)
      /\ RootIn(lst, w2) = RootIn(lst, w) /\ ImageIn(lst, w2) = ImageIn(lst, w)
  BY EpochsSame
<1> QED
  BY <1>1, Zenon DEF Whole

\* What a live system of the chain has.
LEMMA WholeType ==
    ASSUME NEW lst \in Seq(Checkpoints), NEW w, NEW av, NEW ck, NEW sz,
           Whole(lst, w, av, ck, sz)
    PROVE  /\ w.alloc \in SUBSET Blocks /\ w.discard \in SUBSET Blocks /\ w.root \in Address
           /\ w.image \in SUBSET Blocks
           /\ sz \in Address /\ av \subseteq 1 .. sz /\ ck \subseteq (1 .. sz) \ av
<1> DEFINE m == Len(lst) + 1
<1>1. ChainType(m, AllocIn(lst, w), DiscardIn(lst, w), RootIn(lst, w), ImageIn(lst, w))
  BY Zenon DEF Whole, Chain
<1>2. m \in 1 .. m
  OBVIOUS
<1>3. /\ AllocIn(lst, w)[m] = w.alloc /\ DiscardIn(lst, w)[m] = w.discard
      /\ RootIn(lst, w)[m] = w.root /\ ImageIn(lst, w)[m] = w.image
  BY <1>2 DEF AllocIn, DiscardIn, RootIn, ImageIn
<1>4. /\ w.alloc \in SUBSET Blocks /\ w.discard \in SUBSET Blocks /\ w.root \in Address
      /\ w.image \in SUBSET Blocks
  BY <1>1, <1>2, <1>3 DEF ChainType
<1>5. sz \in Address /\ av \subseteq 1 .. sz /\ ck \subseteq (1 .. sz) \ av
  BY DEF Whole, Space
<1> QED
  BY <1>4, <1>5

\* A page is written to a free block.
LEMMA WholeTake ==
    ASSUME NEW lst \in Seq(Checkpoints), NEW w, NEW w2, NEW av, NEW ck, NEW sz,
           Whole(lst, w, av, ck, sz),
           NEW b \in Blocks, b \in av \/ b = sz + 1,
           w2.alloc = w.alloc \cup {b}, w2.discard = w.discard, w2.root = w.root,
           w2.image = w.image \cup {b},
           NEW sz2, sz2 = IF b <= sz THEN sz ELSE b
    PROVE  Whole(lst, w2, av \ {b}, ck, sz2)
<1> DEFINE m == Len(lst) + 1
           A == AllocIn(lst, w)   A2 == AllocIn(lst, w2)
           D == DiscardIn(lst, w)
           R == RootIn(lst, w)
           I == ImageIn(lst, w)   I2 == ImageIn(lst, w2)
           E == AtsIn(lst)
<1>1. Chain(m, A, D, R, I) /\ Space(m, A, E, av, ck, sz) /\ \A i \in 1 .. Len(lst) : AtsDistinct(lst[i])
  BY Zenon DEF Whole
<1>2. /\ w.alloc \in SUBSET Blocks /\ w.discard \in SUBSET Blocks /\ w.root \in Address
      /\ w.image \in SUBSET Blocks
  BY WholeType
<1>3. w2.alloc \in SUBSET Blocks /\ w2.image \in SUBSET Blocks /\ w2.discard \in SUBSET Blocks
      /\ w2.root \in Address
  BY <1>2
<1>4. m \in 1 .. m /\ A[m] = w.alloc /\ I[m] = w.image
  BY <1>2, Epochs
<1>5. /\ A2 \in [1 .. m -> SUBSET Blocks] /\ A2[m] = w2.alloc
      /\ I2 \in [1 .. m -> SUBSET Blocks] /\ I2[m] = w2.image
  BY <1>3, Epochs
<1>6. /\ SameBefore(m, A, A2) /\ SameBefore(m, I, I2)
      /\ DiscardIn(lst, w2) = D /\ RootIn(lst, w2) = R
  BY EpochsSame
<1> HIDE DEF m, A, A2, D, R, I, I2, E
<1>7. \A i \in 1 .. m : b \notin A[i]
  <2>1. Space(m, A, E, av, ck, sz) /\ (b \in av \/ b \in ck \/ b = sz + 1)
    BY <1>1, Zenon
  <2>2. \A i \in 1 .. m : b \notin A[i] /\ b \notin E[i]
    BY <2>1, FreeNowhere
  <2> QED
    BY <2>2
<1>8. Chain(m, A2, D, R, I2)
  BY <1>1, <1>4, <1>5, <1>6, <1>7, ChainAdd
<1>9. Space(m, A2, E, av \ {b}, ck, sz2)
  BY <1>1, <1>4, <1>5, <1>6, SpaceTake
<1> QED
  BY <1>1, <1>6, <1>8, <1>9, Zenon DEF Whole, m, A2, I2, E

\* The root is written to a free block.
LEMMA WholeTakeRoot ==
    ASSUME NEW lst \in Seq(Checkpoints), NEW w, NEW w2, NEW av, NEW ck, NEW sz,
           Whole(lst, w, av, ck, sz),
           NEW b \in Blocks, b \in av \/ b = sz + 1,
           w2.alloc = w.alloc \cup {b}, w2.discard = w.discard, w.root = 0, w2.root = b,
           w2.image = w.image,
           NEW sz2, sz2 = IF b <= sz THEN sz ELSE b
    PROVE  Whole(lst, w2, av \ {b}, ck, sz2)
<1> DEFINE m == Len(lst) + 1
           A == AllocIn(lst, w)   A2 == AllocIn(lst, w2)
           D == DiscardIn(lst, w)
           R == RootIn(lst, w)    R2 == RootIn(lst, w2)
           I == ImageIn(lst, w)
           E == AtsIn(lst)
<1>1. Chain(m, A, D, R, I) /\ Space(m, A, E, av, ck, sz) /\ \A i \in 1 .. Len(lst) : AtsDistinct(lst[i])
  BY Zenon DEF Whole
<1>2. /\ w.alloc \in SUBSET Blocks /\ w.discard \in SUBSET Blocks /\ w.root \in Address
      /\ w.image \in SUBSET Blocks
  BY WholeType
<1>3. w2.alloc \in SUBSET Blocks /\ w2.image \in SUBSET Blocks /\ w2.discard \in SUBSET Blocks
      /\ w2.root \in Address
  BY <1>2, BlockAssumption DEF Address, Blocks
<1>4. m \in 1 .. m /\ A[m] = w.alloc /\ R[m] = w.root
  BY <1>2, Epochs
<1>5. /\ A2 \in [1 .. m -> SUBSET Blocks] /\ A2[m] = w2.alloc
      /\ R2 \in [1 .. m -> Address] /\ R2[m] = w2.root
  BY <1>3, Epochs
<1>6. /\ SameBefore(m, A, A2) /\ SameBefore(m, R, R2)
      /\ DiscardIn(lst, w2) = D /\ ImageIn(lst, w2) = I
  BY EpochsSame
<1> HIDE DEF m, A, A2, D, R, R2, I, E
<1>7. \A i \in 1 .. m : b \notin A[i]
  <2>1. Space(m, A, E, av, ck, sz) /\ (b \in av \/ b \in ck \/ b = sz + 1)
    BY <1>1, Zenon
  <2>2. \A i \in 1 .. m : b \notin A[i] /\ b \notin E[i]
    BY <2>1, FreeNowhere
  <2> QED
    BY <2>2
<1>8. Chain(m, A2, D, R2, I)
  BY <1>1, <1>4, <1>5, <1>6, <1>7, ChainAddRoot
<1>9. Space(m, A2, E, av \ {b}, ck, sz2)
  BY <1>1, <1>4, <1>5, <1>6, SpaceTake
<1> QED
  BY <1>1, <1>6, <1>8, <1>9, Zenon DEF Whole, m, A2, R2, E

\* A block of a page is freed (__wt_block_off_free).
LEMMA WholeFree ==
    ASSUME NEW lst \in Seq(Checkpoints), NEW w, NEW w2, NEW av, NEW ck, NEW sz,
           Whole(lst, w, av, ck, sz),
           NEW b \in w.image,
           w2.alloc = w.alloc \ {b}, w2.root = w.root, w2.image = w.image \ {b},
           w2.discard = IF b \in w.alloc THEN w.discard ELSE w.discard \cup {b},
           NEW av2, av2 = IF b \in w.alloc THEN av \cup {b} ELSE av
    PROVE  Whole(lst, w2, av2, ck, sz)
<1> DEFINE m == Len(lst) + 1
           A == AllocIn(lst, w)     A2 == AllocIn(lst, w2)
           D == DiscardIn(lst, w)   D2 == DiscardIn(lst, w2)
           R == RootIn(lst, w)
           I == ImageIn(lst, w)     I2 == ImageIn(lst, w2)
           E == AtsIn(lst)
<1>1. Chain(m, A, D, R, I) /\ Space(m, A, E, av, ck, sz) /\ \A i \in 1 .. Len(lst) : AtsDistinct(lst[i])
  BY Zenon DEF Whole
<1>2. /\ w.alloc \in SUBSET Blocks /\ w.discard \in SUBSET Blocks /\ w.root \in Address
      /\ w.image \in SUBSET Blocks
  BY WholeType
<1>3. w2.alloc \in SUBSET Blocks /\ w2.image \in SUBSET Blocks /\ w2.discard \in SUBSET Blocks
      /\ w2.root \in Address
  BY <1>2
<1>4. m \in 1 .. m /\ A[m] = w.alloc /\ D[m] = w.discard /\ I[m] = w.image
  BY <1>2, Epochs
<1>5. /\ A2 \in [1 .. m -> SUBSET Blocks] /\ A2[m] = w2.alloc
      /\ D2 \in [1 .. m -> SUBSET Blocks] /\ D2[m] = w2.discard
      /\ I2 \in [1 .. m -> SUBSET Blocks] /\ I2[m] = w2.image
  BY <1>3, Epochs
<1>6. /\ SameBefore(m, A, A2) /\ SameBefore(m, D, D2) /\ SameBefore(m, I, I2)
      /\ RootIn(lst, w2) = R /\ (w2.alloc = w.alloc => A2 = A)
  BY EpochsSame
<1> HIDE DEF m, A, A2, D, D2, R, I, I2, E
<1>7. Chain(m, A2, D2, R, I2)
  <2>1. b \in I[m] /\ A2[m] = A[m] \ {b} /\ I2[m] = I[m] \ {b}
        /\ D2[m] = IF b \in A[m] THEN D[m] ELSE D[m] \cup {b}
    BY <1>4, <1>5
  <2> QED
    BY <1>1, <1>5, <1>6, <2>1, ChainFree
<1>8. Space(m, A2, E, av2, ck, sz)
  <2>1. CASE b \in w.alloc
    <3>1. b \in A[m] /\ A2[m] = A[m] \ {b} /\ av2 = av \cup {b}
      BY <1>4, <1>5, <2>1
    <3>2. \A i \in 1 .. m : b \in A[i] => i = m
      BY <1>1, <1>4, <3>1 DEF Chain, AllocOnce
    <3>3. Space(m, A2, E, av \cup {b}, ck, sz)
      BY <1>1, <1>4, <1>6, <3>1, <3>2, SpaceGive
    <3> QED
      BY <3>1, <3>3
  <2>2. CASE b \notin w.alloc
    <3>1. A2 = A /\ av2 = av
      BY <1>6, <2>2
    <3> QED
      BY <1>1, <3>1, Zenon
  <2> QED
    BY <2>1, <2>2
<1> QED
  BY <1>1, <1>6, <1>7, <1>8, Zenon DEF Whole, m, A2, D2, I2, E

-----------------------------------------------------------------------------
(* Writing and freeing the blocks of pages. *)

LiveTypes ==
    [alloc : SUBSET Blocks, avail : SUBSET Blocks, discard : SUBSET Blocks,
     ckptAvail : SUBSET Blocks, bytes : Int]

\* The blocks nothing may write to.
Fixed == (1 .. size) \ (live.avail \cup live.alloc)

LEMMA BlocksOfIs ==
    ASSUME NEW a, NEW c
    PROVE  c \in BlocksOf(a) <=> c # 0 /\ \E p \in Pages : a[p] = c
  BY DEF BlocksOf, Block

LEMMA AddressIs == Blocks \subseteq Address /\ 0 \in Address /\ 0 \notin Blocks
                   /\ \A a \in Address : a # 0 => a \in Blocks
  BY BlockAssumption DEF Address, Blocks

LEMMA RunningIs ==
    /\ Running.alloc = live.alloc /\ Running.discard = live.discard
    /\ Running.root = root.block
    /\ Running.image = BlocksOf(addr) \cup BlocksOf(old)
  BY DEF Running

\* The facts about the live system that the steps start from.
LEMMA LiveFacts ==
    ASSUME BlockInv
    PROVE  /\ list \in Seq(Checkpoints) /\ live \in LiveTypes
           /\ Whole(list, Running, live.avail, live.ckptAvail, size)
           /\ size \in Nat /\ size \in Address /\ live.avail \in SUBSET (1 .. size)
<1>1. list \in Seq(Checkpoints) /\ live \in LiveTypes
      /\ Whole(list, Running, live.avail, live.ckptAvail, size)
  BY DEF BlockInv, StableInv, Consistent, LiveInv, LiveTypes
<1>2. size \in Address /\ live.avail \subseteq 1 .. size
  BY <1>1, WholeType
<1>3. size \in Nat
  BY <1>2 DEF Address
<1> QED
  BY <1>1, <1>2, <1>3

\* A block that may be allocated is nowhere.
LEMMA FreeIsNew ==
    ASSUME BlockInv, NEW b \in Blocks, b \in live.avail \/ b = size + 1
    PROVE  /\ b \notin live.alloc /\ b \notin Fixed
           /\ \A p \in Pages : addr[p] # b /\ old[p] # b
<1> DEFINE m == Len(list) + 1
           A == AllocIn(list, Running)
           D == DiscardIn(list, Running)
           R == RootIn(list, Running)
           I == ImageIn(list, Running)
           E == AtsIn(list)
<1>1. /\ list \in Seq(Checkpoints)
      /\ Whole(list, Running, live.avail, live.ckptAvail, size)
  BY LiveFacts
<1>2. Chain(m, A, D, R, I) /\ Space(m, A, E, live.avail, live.ckptAvail, size)
  BY <1>1, Zenon DEF Whole
<1>3. /\ Running.alloc \in SUBSET Blocks /\ Running.discard \in SUBSET Blocks
      /\ Running.root \in Address /\ Running.image \in SUBSET Blocks
  BY <1>1, WholeType
<1>4. m \in 1 .. m /\ A[m] = Running.alloc /\ I[m] = Running.image
  BY <1>1, <1>3, Epochs
<1> HIDE DEF m, A, D, R, I, E
<1>5. b \in live.avail \/ b \in live.ckptAvail \/ b = size + 1
  BY Zenon
<1>6. \A i \in 1 .. m : b \notin A[i] /\ b \notin E[i]
  BY <1>2, <1>5, FreeNowhere
<1>7. \A i \in 1 .. m : b \notin D[i] /\ b \notin I[i] /\ R[i] # b
  BY <1>2, <1>6, FreshNowhere
<1>8. b \notin Running.alloc /\ b \notin Running.image
  BY <1>4, <1>6, <1>7
<1>9. b \notin BlocksOf(addr) /\ b \notin BlocksOf(old) /\ b \notin live.alloc
  BY <1>8, RunningIs
<1>10. b # 0
  BY AddressIs
<1>11. b \notin Fixed
  <2>1. size \in Nat
    BY LiveFacts
  <2>2. b = size + 1 => b \notin 1 .. size
    BY <2>1
  <2> QED
    BY <2>2 DEF Fixed
<1> QED
  BY <1>9, <1>10, <1>11, BlocksOfIs

\* The blocks of the checkpoints in a list are neither available, nor to become available,
\* nor on the alloc list of the live system.
LEMMA NeededFixed ==
    ASSUME NEW lst \in Seq(Checkpoints), NEW w, NEW av, NEW ck, NEW sz,
           Whole(lst, w, av, ck, sz),
           NEW i \in 1 .. Len(lst)
    PROVE  Needed(lst[i]) \subseteq (1 .. sz) \ (av \cup ck \cup w.alloc)
<1> DEFINE m == Len(lst) + 1
           A == AllocIn(lst, w)
           D == DiscardIn(lst, w)
           R == RootIn(lst, w)
           I == ImageIn(lst, w)
           E == AtsIn(lst)
<1>1. Chain(m, A, D, R, I) /\ Space(m, A, E, av, ck, sz)
  BY Zenon DEF Whole
<1>2. /\ w.alloc \in SUBSET Blocks /\ w.discard \in SUBSET Blocks
      /\ w.root \in Address /\ w.image \in SUBSET Blocks
  BY WholeType
<1>3. /\ m \in Nat \ {0} /\ m \in 1 .. m /\ A[m] = w.alloc
      /\ \A k \in 1 .. Len(lst) : k \in 1 .. m /\ k # m
      /\ \A k \in 1 .. Len(lst) : R[k] = lst[k].root.block /\ I[k] = lst[k].root.image
      /\ I \in [1 .. m -> SUBSET Blocks] /\ R \in [1 .. m -> Address]
  BY <1>2, Epochs
<1>4. \A k \in 1 .. Len(lst) : E[k] = Ats(lst[k])
  BY <1>3 DEF AtsIn
<1> HIDE DEF m, A, D, R, I, E
<1>5. \A k \in 1 .. m : \A b \in A[k] :
        b \in 1 .. sz /\ b \notin av /\ b \notin ck /\ (k # m => b \notin w.alloc)
  <2>1. \A k \in 1 .. m : \A b \in A[k] : b \in 1 .. sz /\ b \notin av /\ b \notin ck
    BY <1>1 DEF Space
  <2>2. \A k \in 1 .. m : \A b \in A[k] : b \in A[m] => k = m
    BY <1>1, <1>3 DEF Chain, AllocOnce
  <2> QED
    BY <1>3, <2>1, <2>2
<1>6. \A k \in 1 .. m : \A b \in E[k] :
        b \in 1 .. sz /\ b \notin av /\ b \notin ck /\ b \notin w.alloc
  <2>1. \A k \in 1 .. m : \A b \in E[k] : b \in 1 .. sz /\ b \notin av /\ b \notin ck
    BY <1>1 DEF Space
  <2>2. \A k \in 1 .. m : \A b \in E[k] : b \notin A[m]
    BY <1>1, <1>3 DEF Space
  <2> QED
    BY <1>3, <2>1, <2>2
<1>7. ASSUME NEW b \in Needed(lst[i])
      PROVE  b \in 1 .. sz /\ b \notin av /\ b \notin ck /\ b \notin w.alloc
  <2>1. i \in 1 .. m /\ i # m
    BY <1>3
  <2>2. CASE b \in lst[i].root.image
    <3>1. b \in I[i] /\ b \in Blocks
      BY <1>3, <2>1, <2>2
    <3>2. PICK j \in 1 .. m : j <= i /\ b \in A[j]
      BY <1>1, <2>1, <3>1 DEF Chain, ImageExact
    <3>3. j # m
      BY <1>3, <2>1, <3>2
    <3> QED
      BY <1>5, <3>2, <3>3
  <2>3. CASE b = lst[i].root.block /\ b # 0
    <3>1. b \in A[i]
      BY <1>1, <1>3, <2>1, <2>3 DEF Chain, RootsKept
    <3> QED
      BY <1>5, <2>1, <3>1
  <2>4. CASE b \in Ats(lst[i])
    BY <1>4, <1>6, <2>1, <2>4
  <2>5. b \in lst[i].root.image \/ (b = lst[i].root.block /\ b # 0) \/ b \in Ats(lst[i])
    BY DEF Needed, Block, Ats
  <2> QED
    BY <2>2, <2>3, <2>4, <2>5
<1> QED
  BY <1>7

LEMMA WholeGuarded ==
    ASSUME BlockInv
    PROVE  Guarded(list)
<1>1. /\ list \in Seq(Checkpoints)
      /\ Whole(list, Running, live.avail, live.ckptAvail, size) /\ Running.alloc = live.alloc
  BY LiveFacts, RunningIs
<1>2. ASSUME NEW i \in 1 .. Len(list)
      PROVE  Needed(list[i]) \subseteq (1 .. size) \ (live.avail \cup live.alloc)
  <2>1. Needed(list[i]) \subseteq (1 .. size) \ (live.avail \cup live.ckptAvail \cup Running.alloc)
    BY <1>1, NeededFixed
  <2> QED
    BY <1>1, <2>1
<1> QED
  BY <1>2 DEF Guarded

LEMMA GuardedFixed ==
    ASSUME NEW lst, Guarded(lst), NEW i \in 1 .. Len(lst)
    PROVE  Needed(lst[i]) \subseteq Fixed
  BY DEF Guarded, Fixed

\* A step that writes to no fixed block, and leaves every fixed block fixed, keeps what
\* stable storage may lead to.
LEMMA StableKept ==
    ASSUME BlockInv, UNCHANGED <<list, turtles>>,
           Fixed \subseteq Fixed', unsynced' \subseteq Blocks,
           \A b \in Fixed : b \in unsynced' => b \in unsynced,
           phase' # "written" => phase # "written",
           phase' \in {"none", "wait", "run", "root", "stable"} =>
             phase \in {"none", "wait", "run", "root", "stable"}
    PROVE  StableInv'
<1>1. ASSUME NEW lst, Guarded(lst) PROVE Guarded(lst)'
  <2>1. \A i \in 1 .. Len(lst) : Needed(lst[i]) \subseteq Fixed'
    BY <1>1, GuardedFixed
  <2> QED
    BY <2>1 DEF Guarded, Fixed
<1>2. ASSUME NEW lst, Guarded(lst), Flushed(lst) PROVE Flushed(lst)'
  <2>1. \A i \in 1 .. Len(lst) : Needed(lst[i]) \subseteq Fixed
    BY <1>2, GuardedFixed
  <2> QED
    BY <1>2, <2>1 DEF Flushed
<1>3. StableInv /\ Guarded(list)
  BY WholeGuarded DEF BlockInv
<1>4. Consistent(list)'
  <2>1. Consistent(list) /\ list' = list
    BY <1>3 DEF StableInv
  <2> QED
    BY <2>1
<1>5. ASSUME NEW t \in turtles' PROVE (Consistent(t.list) /\ Guarded(t.list) /\ Flushed(t.list))'
  <2>1. Consistent(t.list) /\ Guarded(t.list) /\ Flushed(t.list)
    BY <1>3 DEF StableInv
  <2>2. Consistent(t.list)'
    BY <2>1
  <2>3. Guarded(t.list)' /\ Flushed(t.list)'
    BY <1>1, <1>2, <2>1
  <2> QED
    BY <2>2, <2>3
<1>6. (phase # "written" => Flushed(list))'
  <2> SUFFICES ASSUME phase' # "written" PROVE Flushed(list)'
    OBVIOUS
  <2>1. Flushed(list)
    BY <1>3 DEF StableInv
  <2>2. \A i \in 1 .. Len(list) : Needed(list[i]) \subseteq Fixed
    BY <1>3, GuardedFixed
  <2> QED
    BY <2>1, <2>2 DEF Flushed
<1>7. (phase \in {"none", "wait", "run", "root", "stable"} => \A t \in turtles : t.list = list)'
  BY <1>3 DEF StableInv
<1> QED
  BY <1>4, <1>5, <1>6, <1>7 DEF StableInv

LEMMA AllocatedIs ==
    ASSUME live \in LiveTypes, NEW b \in Blocks
    PROVE  /\ Allocated(b) \in LiveTypes
           /\ Allocated(b).alloc = live.alloc \cup {b} /\ Allocated(b).avail = live.avail \ {b}
           /\ Allocated(b).discard = live.discard /\ Allocated(b).ckptAvail = live.ckptAvail
           /\ Allocated(b).bytes = live.bytes
  BY DEF LiveTypes, Allocated

LEMMA OffFreeIs ==
    ASSUME NEW l \in LiveTypes, NEW a \in Blocks
    PROVE  /\ OffFree(l, a) \in LiveTypes
           /\ OffFree(l, a).alloc = l.alloc \ {a}
           /\ OffFree(l, a).avail = IF a \in l.alloc THEN l.avail \cup {a} ELSE l.avail
           /\ OffFree(l, a).discard = IF a \in l.alloc THEN l.discard ELSE l.discard \cup {a}
           /\ OffFree(l, a).ckptAvail = l.ckptAvail /\ OffFree(l, a).bytes = l.bytes
<1>1. a # 0
  BY AddressIs
<1>2. CASE a \in l.alloc
  <2>1. OffFree(l, a) = [l EXCEPT !.alloc = @ \ {a}, !.avail = @ \cup {a}]
    BY <1>1, <1>2 DEF OffFree
  <2>2. OffFree(l, a) \in LiveTypes
    BY <1>2, <2>1 DEF LiveTypes
  <2>3. OffFree(l, a).alloc = l.alloc \ {a} /\ OffFree(l, a).avail = l.avail \cup {a}
    BY <2>1 DEF LiveTypes
  <2>4. /\ OffFree(l, a).discard = l.discard
        /\ OffFree(l, a).ckptAvail = l.ckptAvail /\ OffFree(l, a).bytes = l.bytes
    BY <2>1 DEF LiveTypes
  <2> QED
    BY <1>2, <2>2, <2>3, <2>4
<1>3. CASE a \notin l.alloc
  <2>1. OffFree(l, a) = [l EXCEPT !.discard = @ \cup {a}]
    BY <1>1, <1>3 DEF OffFree
  <2>2. OffFree(l, a) \in LiveTypes
    BY <2>1 DEF LiveTypes
  <2>3. OffFree(l, a).alloc = l.alloc \ {a} /\ OffFree(l, a).avail = l.avail
    BY <1>3, <2>1 DEF LiveTypes
  <2>4. /\ OffFree(l, a).discard = l.discard \cup {a}
        /\ OffFree(l, a).ckptAvail = l.ckptAvail /\ OffFree(l, a).bytes = l.bytes
    BY <2>1 DEF LiveTypes
  <2> QED
    BY <1>3, <2>2, <2>3, <2>4
<1> QED
  BY <1>2, <1>3

LEMMA OffFreeNone == \A l : OffFree(l, 0) = l
  BY DEF OffFree

\* A block is taken and written.
LEMMA Taking ==
    ASSUME BlockInv, NEW b, Write(b), b \in live.avail \/ b = size + 1,
           NEW w2, w2.alloc = live.alloc \cup {b}, w2.discard = live.discard,
           w2.root = root.block, w2.image = Running.image \cup {b}
    PROVE  Whole(list, w2, live.avail \ {b}, live.ckptAvail, size')
<1>1. b \in Blocks /\ size' = Max({size, b})
  BY DEF Write
<1>2. /\ list \in Seq(Checkpoints) /\ size \in Nat
      /\ Whole(list, Running, live.avail, live.ckptAvail, size)
  BY LiveFacts
<1>3. size' = IF b <= size THEN size ELSE b
  <2>1. b \in Int /\ size \in Int
    BY <1>1, <1>2 DEF Blocks
  <2>2. Max({size, b}) = IF size <= b THEN b ELSE size
    BY <2>1, MaxPair
  <2> QED
    BY <1>1, <2>1, <2>2
<1>4. /\ Running.alloc = live.alloc /\ Running.discard = live.discard
      /\ Running.root = root.block
  BY RunningIs
<1>5. /\ w2.alloc = Running.alloc \cup {b} /\ w2.discard = Running.discard
      /\ w2.root = Running.root
  BY <1>4
<1> QED
  BY <1>1, <1>2, <1>3, <1>5, WholeTake

\* It was not a fixed block, and the file does not get shorter.
LEMMA TakingFixed ==
    ASSUME BlockInv, NEW b, Write(b), b \in live.avail \/ b = size + 1
    PROVE  /\ b \in Blocks /\ b \notin Fixed
           /\ \A p \in Pages : addr[p] # b /\ old[p] # b
           /\ 1 .. size \subseteq 1 .. size'
           /\ unsynced' \subseteq Blocks
           /\ \A c \in Fixed : c \in unsynced' => c \in unsynced
<1>1. b \in Blocks /\ size' = Max({size, b}) /\ unsynced' = unsynced \cup {b}
  BY DEF Write
<1>2. b \notin Fixed /\ \A p \in Pages : addr[p] # b /\ old[p] # b
  BY <1>1, FreeIsNew
<1>3. 1 .. size \subseteq 1 .. size'
  <2>1. b \in Int /\ size \in Int
    BY <1>1, LiveFacts DEF Blocks
  <2>2. Max({size, b}) = IF size <= b THEN b ELSE size
    BY <2>1, MaxPair
  <2> QED
    BY <1>1, <2>1, <2>2
<1>4. unsynced \subseteq Blocks
  BY DEF BlockInv, StableInv
<1> QED
  BY <1>1, <1>2, <1>3, <1>4

\* An eviction writes the page.
LEMMA EvictWriteKeeps ==
    ASSUME BlockInv, NEW p \in Pages, EvictWrite(p)
    PROVE  BlockInv'
<1>1. /\ evict[p] = "in" /\ evict' = [evict EXCEPT ![p] = "wrote"]
      /\ old' = [old EXCEPT ![p] = addr[p]]
      /\ UNCHANGED <<phase, root, list, turtles>>
  BY DEF EvictWrite
<1>2. /\ list \in Seq(Checkpoints) /\ live \in LiveTypes
      /\ Whole(list, Running, live.avail, live.ckptAvail, size)
      /\ size \in Nat /\ live.avail \in SUBSET (1 .. size)
  BY LiveFacts
<1>3. /\ addr \in [Pages -> Address] /\ old \in [Pages -> Address]
      /\ evict \in [Pages -> {"no", "in", "wrote"}] /\ Apart(addr) /\ Apart(old)
      /\ \A q, r \in Pages : addr[q] # 0 => addr[q] # old[r]
      /\ \A q \in Pages : evict[q] # "wrote" => old[q] = 0
  BY DEF BlockInv, PagesInv
<1>4. old[p] = 0 /\ phase \notin {"run", "root"}
  BY <1>1, <1>3 DEF BlockInv, PhaseInv
<1>5. evict' \in [Pages -> {"no", "in", "wrote"}] /\ old' \in [Pages -> Address]
      /\ \A q \in Pages : evict'[q] # "wrote" => old'[q] = 0
  BY <1>1, <1>3
<1>6. \A q \in Pages : old'[q] = IF q = p THEN addr[p] ELSE old[q]
  BY <1>1, <1>3
<1>7. ASSUME NEW a \in Address, addr' = [addr EXCEPT ![p] = a],
             a # 0 => \A q \in Pages : addr[q] # a /\ old[q] # a
      PROVE  PagesInv'
  <2>1. addr' \in [Pages -> Address] /\ \A q \in Pages : addr'[q] = IF q = p THEN a ELSE addr[q]
    BY <1>3, <1>7
  <2>2. Apart(addr')
    <3> SUFFICES ASSUME NEW q \in Pages, NEW r \in Pages, addr'[q] # 0, addr'[q] = addr'[r]
                 PROVE  q = r
      BY DEF Apart
    <3> QED
      BY <1>3, <1>7, <2>1 DEF Apart
  <2>3. Apart(old')
    <3> SUFFICES ASSUME NEW q \in Pages, NEW r \in Pages, old'[q] # 0, old'[q] = old'[r]
                 PROVE  q = r
      BY DEF Apart
    <3> QED
      BY <1>3, <1>6 DEF Apart
  <2>4. \A q, r \in Pages : addr'[q] # 0 => addr'[q] # old'[r]
    <3> SUFFICES ASSUME NEW q \in Pages, NEW r \in Pages, addr'[q] # 0, addr'[q] = old'[r]
                 PROVE  FALSE
      OBVIOUS
    <3>1. CASE q = p
      BY <1>6, <1>7, <2>1, <3>1
    <3>2. CASE q # p
      BY <1>3, <1>6, <2>1, <3>2 DEF Apart
    <3> QED
      BY <3>1, <3>2
  <2> QED
    BY <1>5, <2>1, <2>2, <2>3, <2>4 DEF PagesInv, Apart
<1>8. ASSUME live'.ckptAvail = live.ckptAvail PROVE PhaseInv'
  BY <1>1, <1>4, <1>8 DEF BlockInv, PhaseInv
<1>9. /\ phase' # "written" => phase # "written"
      /\ phase' \in {"none", "wait", "run", "root", "stable"} =>
           phase \in {"none", "wait", "run", "root", "stable"}
  BY <1>1
<1>10. CASE Write(BestFit) /\ live' = Allocated(BestFit) /\ addr' = [addr EXCEPT ![p] = BestFit]
  <2>1. PICK b : b = BestFit
    OBVIOUS
  <2>2. Write(b) /\ live' = Allocated(b) /\ addr' = [addr EXCEPT ![p] = b]
    BY <1>10, <2>1
  <2>3. b \in live.avail \/ b = size + 1
    BY <1>2, <2>1, BestFitIs
  <2>4. /\ b \in Blocks /\ b \notin Fixed /\ \A q \in Pages : addr[q] # b /\ old[q] # b
        /\ 1 .. size \subseteq 1 .. size' /\ unsynced' \subseteq Blocks
        /\ \A c \in Fixed : c \in unsynced' => c \in unsynced
    BY <2>2, <2>3, TakingFixed
  <2>5. /\ live' \in LiveTypes
        /\ live'.alloc = live.alloc \cup {b} /\ live'.avail = live.avail \ {b}
        /\ live'.discard = live.discard /\ live'.ckptAvail = live.ckptAvail
    BY <1>2, <2>2, <2>4, AllocatedIs
  <2>6. Running'.image = Running.image \cup {b}
    <3>1. b \in Address /\ b # 0
      BY <2>4, AddressIs
    <3>2. \A q \in Pages : addr'[q] = IF q = p THEN b ELSE addr[q]
      BY <1>3, <2>2, <3>1
    <3>3. \A c : c \in BlocksOf(addr') \cup BlocksOf(old')
                   <=> c \in BlocksOf(addr) \cup BlocksOf(old) \cup {b}
      <4> TAKE c
      <4>1. c \in BlocksOf(addr') <=> c # 0 /\ \E q \in Pages : addr'[q] = c
        BY BlocksOfIs
      <4>2. c \in BlocksOf(addr) <=> c # 0 /\ \E q \in Pages : addr[q] = c
        BY BlocksOfIs
      <4>3. c \in BlocksOf(old') <=> c # 0 /\ \E q \in Pages : old'[q] = c
        BY BlocksOfIs
      <4>4. c \in BlocksOf(old) <=> c # 0 /\ \E q \in Pages : old[q] = c
        BY BlocksOfIs
      <4> QED
        BY <1>4, <1>6, <3>1, <3>2, <4>1, <4>2, <4>3, <4>4
    <3>4. Running'.image = BlocksOf(addr') \cup BlocksOf(old')
      BY DEF Running
    <3> QED
      BY <3>3, <3>4, RunningIs
  <2>7. /\ Running'.alloc = live.alloc \cup {b} /\ Running'.discard = live.discard
        /\ Running'.root = root.block
    BY <1>1, <2>5 DEF Running
  <2>8. Whole(list, Running', live.avail \ {b}, live.ckptAvail, size')
    BY <2>2, <2>3, <2>6, <2>7, Taking
  <2>9. LiveInv'
    BY <1>1, <2>5, <2>8 DEF LiveInv, LiveTypes
  <2>10. Fixed \subseteq Fixed'
    <3>1. Fixed' = (1 .. size') \ (live'.avail \cup live'.alloc)
      BY DEF Fixed
    <3> QED
      BY <2>4, <2>5, <3>1 DEF Fixed
  <2>11. StableInv'
    BY <1>1, <1>9, <2>4, <2>10, StableKept
  <2>12. PagesInv'
    <3>1. b \in Address
      BY <2>4, AddressIs
    <3> QED
      BY <1>7, <2>2, <2>4, <3>1
  <2> QED
    BY <1>8, <2>5, <2>9, <2>11, <2>12 DEF BlockInv
<1>11. CASE addr' = [addr EXCEPT ![p] = 0] /\ UNCHANGED <<live, size, unsynced>>
  <2>1. 0 \in Address
    BY AddressIs
  <2>2. PagesInv'
    BY <1>7, <1>11, <2>1
  <2>3. Running'.image = Running.image
    <3>2. \A q \in Pages : addr'[q] = IF q = p THEN 0 ELSE addr[q]
      BY <1>3, <1>11
    <3>3. \A c : c \in BlocksOf(addr') \cup BlocksOf(old')
                   <=> c \in BlocksOf(addr) \cup BlocksOf(old)
      <4> TAKE c
      <4>1. c \in BlocksOf(addr') <=> c # 0 /\ \E q \in Pages : addr'[q] = c
        BY BlocksOfIs
      <4>2. c \in BlocksOf(addr) <=> c # 0 /\ \E q \in Pages : addr[q] = c
        BY BlocksOfIs
      <4>3. c \in BlocksOf(old') <=> c # 0 /\ \E q \in Pages : old'[q] = c
        BY BlocksOfIs
      <4>4. c \in BlocksOf(old) <=> c # 0 /\ \E q \in Pages : old[q] = c
        BY BlocksOfIs
      <4> QED
        BY <1>4, <1>6, <3>2, <4>1, <4>2, <4>3, <4>4
    <3>4. Running'.image = BlocksOf(addr') \cup BlocksOf(old')
      BY DEF Running
    <3> QED
      BY <3>3, <3>4, RunningIs
  <2>4. /\ Running'.alloc = Running.alloc /\ Running'.discard = Running.discard
        /\ Running'.root = Running.root
    BY <1>1, <1>11 DEF Running
  <2>5. Whole(list, Running', live.avail, live.ckptAvail, size)
    BY <1>2, <2>3, <2>4, WholeSame
  <2>6. LiveInv'
    BY <1>1, <1>2, <1>11, <2>5 DEF LiveInv, LiveTypes
  <2>7. Fixed' = Fixed /\ unsynced' \subseteq Blocks
    BY <1>11 DEF Fixed, BlockInv, StableInv
  <2>8. StableInv'
    BY <1>1, <1>9, <1>11, <2>7, StableKept
  <2> QED
    BY <1>8, <1>11, <2>2, <2>6, <2>8 DEF BlockInv
<1> QED
  BY <1>10, <1>11 DEF EvictWrite

\* A page's block a is freed from the live system l, and the page has it no longer.
FreedFrom(lst, w, l, sz, a, w2) ==
    /\ lst \in Seq(Checkpoints) /\ l \in LiveTypes
    /\ Whole(lst, w, l.avail, l.ckptAvail, sz) /\ w.alloc = l.alloc /\ w.discard = l.discard
    /\ a \in w.image
    /\ w2.alloc = OffFree(l, a).alloc /\ w2.discard = OffFree(l, a).discard
    /\ w2.root = w.root /\ w2.image = w.image \ {a}
LEMMA Freeing ==
    ASSUME NEW lst, NEW w, NEW l, NEW sz, NEW a, NEW w2, FreedFrom(lst, w, l, sz, a, w2)
    PROVE  /\ Whole(lst, w2, OffFree(l, a).avail, OffFree(l, a).ckptAvail, sz)
           /\ OffFree(l, a) \in LiveTypes /\ OffFree(l, a).ckptAvail = l.ckptAvail
           /\ OffFree(l, a).avail \cup OffFree(l, a).alloc \subseteq l.avail \cup l.alloc
<1>0. /\ lst \in Seq(Checkpoints) /\ l \in LiveTypes
      /\ Whole(lst, w, l.avail, l.ckptAvail, sz) /\ w.alloc = l.alloc /\ w.discard = l.discard
      /\ a \in w.image
      /\ w2.alloc = OffFree(l, a).alloc /\ w2.discard = OffFree(l, a).discard
      /\ w2.root = w.root /\ w2.image = w.image \ {a}
  BY DEF FreedFrom
<1>1. a \in Blocks
  BY <1>0, WholeType
<1>2. PICK l2 : l2 = OffFree(l, a)
  OBVIOUS
<1>3. /\ l2 \in LiveTypes
      /\ l2.alloc = l.alloc \ {a}
      /\ l2.avail = IF a \in l.alloc THEN l.avail \cup {a} ELSE l.avail
      /\ l2.discard = IF a \in l.alloc THEN l.discard ELSE l.discard \cup {a}
      /\ l2.ckptAvail = l.ckptAvail
  BY <1>0, <1>1, <1>2, OffFreeIs
<1>4. /\ w2.alloc = w.alloc \ {a}
      /\ w2.discard = IF a \in w.alloc THEN w.discard ELSE w.discard \cup {a}
      /\ l2.avail = IF a \in w.alloc THEN l.avail \cup {a} ELSE l.avail
  BY <1>0, <1>2, <1>3
<1>5. Whole(lst, w2, l2.avail, l.ckptAvail, sz)
  BY <1>0, <1>4, WholeFree
<1> QED
  BY <1>2, <1>3, <1>5

\* The eviction frees the block of the version before.
LEMMA EvictFreeKeeps ==
    ASSUME BlockInv, NEW p \in Pages, EvictFree(p)
    PROVE  BlockInv'
<1>1. /\ evict[p] = "wrote" /\ evict' = [evict EXCEPT ![p] = "no"]
      /\ live' = OffFree(live, old[p]) /\ old' = [old EXCEPT ![p] = 0]
      /\ UNCHANGED <<size, unsynced, addr, phase, root, list, turtles>>
  BY DEF EvictFree
<1>2. /\ list \in Seq(Checkpoints) /\ live \in LiveTypes
      /\ Whole(list, Running, live.avail, live.ckptAvail, size)
  BY LiveFacts
<1>3. /\ addr \in [Pages -> Address] /\ old \in [Pages -> Address]
      /\ evict \in [Pages -> {"no", "in", "wrote"}] /\ Apart(addr) /\ Apart(old)
      /\ \A q, r \in Pages : addr[q] # 0 => addr[q] # old[r]
      /\ \A q \in Pages : evict[q] # "wrote" => old[q] = 0
  BY DEF BlockInv, PagesInv
<1>4. \A q \in Pages : old'[q] = IF q = p THEN 0 ELSE old[q]
  BY <1>1, <1>3
<1>5. PagesInv'
  <2>1. evict' \in [Pages -> {"no", "in", "wrote"}] /\ old' \in [Pages -> Address]
        /\ \A q \in Pages : evict'[q] # "wrote" => old'[q] = 0
    BY <1>1, <1>3, <1>4, AddressIs
  <2>2. Apart(old')
    BY <1>3, <1>4 DEF Apart
  <2>3. \A q, r \in Pages : addr'[q] # 0 => addr'[q] # old'[r]
    BY <1>1, <1>3, <1>4
  <2> QED
    BY <1>1, <1>3, <2>1, <2>2, <2>3 DEF PagesInv, Apart
<1>6. phase \notin {"run", "root"}
  BY <1>1 DEF BlockInv, PhaseInv
<1>7. /\ Running.alloc = live.alloc /\ Running.discard = live.discard
      /\ Running'.alloc = live'.alloc /\ Running'.discard = live'.discard
      /\ Running'.root = Running.root
      /\ Running.image = BlocksOf(addr) \cup BlocksOf(old)
      /\ Running'.image = BlocksOf(addr) \cup BlocksOf(old')
  BY <1>1 DEF Running
<1>8. /\ Whole(list, Running', live'.avail, live'.ckptAvail, size)
      /\ live' \in LiveTypes /\ live'.ckptAvail = live.ckptAvail
      /\ live'.avail \cup live'.alloc \subseteq live.avail \cup live.alloc
  <2>1. CASE old[p] = 0
    <3>1. live' = live
      BY <1>1, <2>1, OffFreeNone
    <3>2. old' = old
      BY <1>1, <1>3, <2>1
    <3>3. Running' = Running
      BY <1>1, <3>1, <3>2 DEF Running
    <3> QED
      BY <1>2, <3>1, <3>3
  <2>2. CASE old[p] # 0
    <3>1. PICK a : a = old[p]
      OBVIOUS
    <3>2. a \in Running.image
      BY <1>7, <2>2, <3>1, BlocksOfIs
    <3>3. Running'.image = Running.image \ {a}
      <4>1. \A c : c \in Running'.image <=> c \in Running.image /\ c # a
        <5> TAKE c
        <5>1. c \in BlocksOf(addr) <=> c # 0 /\ \E q \in Pages : addr[q] = c
          BY BlocksOfIs
        <5>2. c \in BlocksOf(old') <=> c # 0 /\ \E q \in Pages : old'[q] = c
          BY BlocksOfIs
        <5>3. c \in BlocksOf(old) <=> c # 0 /\ \E q \in Pages : old[q] = c
          BY BlocksOfIs
        <5>4. c = a => c \notin BlocksOf(addr) /\ c \notin BlocksOf(old')
          BY <1>3, <1>4, <2>2, <3>1, <5>1, <5>2 DEF Apart
        <5>5. c # a => (c \in BlocksOf(old') <=> c \in BlocksOf(old))
          BY <1>4, <3>1, <5>2, <5>3
        <5> QED
          BY <1>7, <5>4, <5>5
      <4> QED
        BY <4>1
    <3>4. PICK l2, w2 : l2 = live' /\ w2 = Running'
      OBVIOUS
    <3>5. /\ l2 = OffFree(live, a)
          /\ w2.alloc = l2.alloc /\ w2.discard = l2.discard /\ w2.root = Running.root
          /\ w2.image = Running.image \ {a}
      BY <1>1, <1>7, <3>1, <3>3, <3>4
    <3>6. Running.alloc = live.alloc /\ Running.discard = live.discard
      BY <1>7
    <3>7. FreedFrom(list, Running, live, size, a, w2)
      BY <1>2, <3>2, <3>5, <3>6 DEF FreedFrom
    <3>8. /\ Whole(list, w2, l2.avail, l2.ckptAvail, size)
          /\ l2 \in LiveTypes /\ l2.ckptAvail = live.ckptAvail
          /\ l2.avail \cup l2.alloc \subseteq live.avail \cup live.alloc
      BY <3>5, <3>7, Freeing
    <3> QED
      BY <3>4, <3>8
  <2> QED
    BY <2>1, <2>2
<1>9. LiveInv'
  BY <1>1, <1>8 DEF LiveInv, LiveTypes
<1>10. PhaseInv'
  BY <1>1, <1>6, <1>8 DEF BlockInv, PhaseInv
<1>11. Fixed \subseteq Fixed' /\ unsynced' \subseteq Blocks
  <2>1. Fixed' = (1 .. size) \ (live'.avail \cup live'.alloc)
    BY <1>1 DEF Fixed
  <2>2. unsynced \subseteq Blocks
    BY DEF BlockInv, StableInv
  <2> QED
    BY <1>1, <1>8, <2>1, <2>2 DEF Fixed
<1>12. StableInv'
  <2>1. /\ UNCHANGED <<list, turtles>> /\ phase' = phase /\ unsynced' = unsynced
    BY <1>1
  <2> QED
    BY <1>11, <2>1, StableKept
<1> QED
  BY <1>5, <1>9, <1>10, <1>12 DEF BlockInv

-----------------------------------------------------------------------------
(* The checkpoint's walk. *)

\* The walk rewrites a page: the new block a, or none, replaces the old one, from the
\* live system l that has a already.
LEMMA Rewriting ==
    ASSUME BlockInv, NEW p \in Pages, phase = "run", UNCHANGED <<old, evict, root, list>>,
           NEW a \in Address, a # 0 => \A q \in Pages : addr[q] # a /\ old[q] # a,
           addr' = [addr EXCEPT ![p] = a],
           NEW l \in LiveTypes, live' = OffFree(l, addr[p]),
           l.ckptAvail = live.ckptAvail,
           NEW w, w.alloc = l.alloc, w.discard = l.discard, w.root = root.block,
           w.image = Running.image \cup Block(a),
           Whole(list, w, l.avail, l.ckptAvail, size')
    PROVE  /\ LiveInv' /\ PagesInv' /\ live'.ckptAvail = live.ckptAvail
           /\ live'.avail \cup live'.alloc \subseteq l.avail \cup l.alloc
<1>1. /\ addr \in [Pages -> Address] /\ old \in [Pages -> Address]
      /\ evict \in [Pages -> {"no", "in", "wrote"}] /\ Apart(addr) /\ Apart(old)
      /\ \A q \in Pages : evict[q] # "wrote" => old[q] = 0
  BY DEF BlockInv, PagesInv
<1>2. \A q \in Pages : old[q] = 0
  <2>1. \A q \in Pages : evict[q] = "no"
    BY DEF BlockInv, PhaseInv
  <2> QED
    BY <1>1, <2>1
<1>3. addr' \in [Pages -> Address] /\ \A q \in Pages : addr'[q] = IF q = p THEN a ELSE addr[q]
  BY <1>1
<1>4. PagesInv'
  <2>1. Apart(addr')
    <3> SUFFICES ASSUME NEW q \in Pages, NEW r \in Pages, addr'[q] # 0, addr'[q] = addr'[r]
                 PROVE  q = r
      BY DEF Apart
    <3> QED
      BY <1>1, <1>3 DEF Apart
  <2> QED
    BY <1>1, <1>2, <1>3, <2>1 DEF PagesInv, Apart
<1>5. list \in Seq(Checkpoints)
  BY LiveFacts
<1>6. /\ Running.image = BlocksOf(addr) \cup BlocksOf(old)
      /\ Running'.image = BlocksOf(addr') \cup BlocksOf(old)
      /\ Running'.alloc = live'.alloc /\ Running'.discard = live'.discard
      /\ Running'.root = root.block
  BY DEF Running
<1>7. \A c : c \notin BlocksOf(old)
  BY <1>2, BlocksOfIs
<1>8. /\ \A c : c \in w.image <=> c # 0 /\ (c = a \/ \E q \in Pages : addr[q] = c)
      /\ \A c : c \in Running'.image <=> c # 0 /\ \E q \in Pages : addr'[q] = c
  <2>1. \A c : c \in BlocksOf(addr) <=> c # 0 /\ \E q \in Pages : addr[q] = c
    BY BlocksOfIs
  <2>2. \A c : c \in BlocksOf(addr') <=> c # 0 /\ \E q \in Pages : addr'[q] = c
    <3>1. PICK a2 : a2 = addr'
      OBVIOUS
    <3>2. \A c : c \in BlocksOf(a2) <=> c # 0 /\ \E q \in Pages : a2[q] = c
      BY BlocksOfIs
    <3> QED
      BY <3>1, <3>2
  <2>3. \A c : c \in Block(a) <=> c = a /\ c # 0
    BY DEF Block
  <2> QED
    BY <1>6, <1>7, <2>1, <2>2, <2>3
<1>9. /\ Whole(list, Running', live'.avail, live'.ckptAvail, size')
      /\ live' \in LiveTypes /\ live'.ckptAvail = l.ckptAvail
      /\ live'.avail \cup live'.alloc \subseteq l.avail \cup l.alloc
  <2>1. PICK l2, w2 : l2 = live' /\ w2 = Running'
    OBVIOUS
  <2>2. w2.alloc = l2.alloc /\ w2.discard = l2.discard /\ w2.root = w.root
    BY <1>6, <2>1
  <2>3. CASE addr[p] = 0
    <3>1. l2 = l
      BY <2>1, <2>3, OffFreeNone
    <3>2. w2.image = w.image
      <4>1. \A c : c \in w2.image <=> c \in w.image
        BY <1>3, <1>8, <2>1, <2>3
      <4>2. w.image = Running.image \cup Block(a) /\ w2.image = BlocksOf(addr') \cup BlocksOf(old)
        BY <1>6, <2>1
      <4> QED
        BY <4>1, <4>2
    <3>3. Whole(list, w2, l.avail, l.ckptAvail, size')
      BY <1>5, <2>2, <3>1, <3>2, WholeSame
    <3> QED
      BY <2>1, <3>1, <3>3
  <2>4. CASE addr[p] # 0
    <3>1. PICK b : b = addr[p]
      OBVIOUS
    <3>2. b \in w.image
      BY <1>8, <2>4, <3>1
    <3>3. w2.image = w.image \ {b}
      <4>1. \A c : c \in w2.image <=> c \in w.image /\ c # b
        <5> TAKE c
        <5>1. CASE c = b
          <6>1. \A q \in Pages : addr'[q] # b
            BY <1>1, <1>3, <2>4, <3>1 DEF Apart
          <6> QED
            BY <1>8, <2>1, <5>1, <6>1
        <5>2. CASE c # b
          <6>1. (\E q \in Pages : addr'[q] = c) <=> (c = a \/ \E q \in Pages : addr[q] = c)
            BY <1>3, <3>1, <5>2
          <6> QED
            BY <1>8, <2>1, <5>2, <6>1
        <5> QED
          BY <5>1, <5>2
      <4>2. w.image = Running.image \cup Block(a) /\ w2.image = BlocksOf(addr') \cup BlocksOf(old)
        BY <1>6, <2>1
      <4> QED
        BY <4>1, <4>2
    <3>4. l2 = OffFree(l, b)
      BY <2>1, <3>1
    <3>5. PICK sz : sz = size'
      OBVIOUS
    <3>6. /\ l \in LiveTypes
          /\ Whole(list, w, l.avail, l.ckptAvail, sz) /\ w.alloc = l.alloc /\ w.discard = l.discard
          /\ w2.alloc = l2.alloc /\ w2.discard = l2.discard /\ w2.root = w.root
      BY <2>2, <3>5
    <3>7. FreedFrom(list, w, l, sz, b, w2)
      BY <1>5, <3>2, <3>3, <3>4, <3>6 DEF FreedFrom
    <3>8. /\ Whole(list, w2, l2.avail, l2.ckptAvail, sz)
          /\ l2 \in LiveTypes /\ l2.ckptAvail = l.ckptAvail
          /\ l2.avail \cup l2.alloc \subseteq l.avail \cup l.alloc
      BY <3>4, <3>7, Freeing
    <3> QED
      BY <2>1, <3>5, <3>8
  <2> QED
    BY <2>3, <2>4
<1>10. LiveInv'
  BY <1>9 DEF LiveInv, LiveTypes
<1> QED
  BY <1>4, <1>9, <1>10

\* The walk visits a page.
LEMMA WalkPageKeeps ==
    ASSUME BlockInv, NEW p \in Pages, WalkPage(p)
    PROVE  BlockInv'
<1>1. phase = "run" /\ UNCHANGED <<evict, old, phase, root, list, turtles>>
  BY DEF WalkPage
<1>2. /\ list \in Seq(Checkpoints) /\ live \in LiveTypes
      /\ Whole(list, Running, live.avail, live.ckptAvail, size)
      /\ size \in Nat /\ live.avail \in SUBSET (1 .. size)
  BY LiveFacts
<1>3. phase' # "written" /\ phase # "written"
      /\ phase \in {"none", "wait", "run", "root", "stable"}
  BY <1>1
<1>4. ASSUME live'.ckptAvail = live.ckptAvail PROVE PhaseInv'
  BY <1>1, <1>4 DEF BlockInv, PhaseInv
<1>5. unsynced \subseteq Blocks
  BY DEF BlockInv, StableInv
<1>6. CASE UNCHANGED <<live, size, unsynced, addr>>
  <2>1. Running' = Running
    BY <1>1, <1>6 DEF Running
  <2>2. LiveInv' /\ PagesInv'
    BY <1>1, <1>2, <1>6, <2>1 DEF BlockInv, LiveInv, LiveTypes, PagesInv, Apart
  <2>3. Fixed' = Fixed
    BY <1>6 DEF Fixed
  <2>4. StableInv'
    BY <1>1, <1>3, <1>5, <1>6, <2>3, StableKept
  <2> QED
    BY <1>4, <1>6, <2>2, <2>4 DEF BlockInv
<1>7. CASE /\ Write(BestFit)
           /\ addr' = [addr EXCEPT ![p] = BestFit]
           /\ live' = OffFree(Allocated(BestFit), addr[p])
  <2>1. PICK b : b = BestFit
    OBVIOUS
  <2>2. Write(b) /\ live' = OffFree(Allocated(b), addr[p]) /\ addr' = [addr EXCEPT ![p] = b]
    BY <1>7, <2>1
  <2>3. b \in live.avail \/ b = size + 1
    BY <1>2, <2>1, BestFitIs
  <2>4. /\ b \in Blocks /\ b \notin Fixed /\ \A q \in Pages : addr[q] # b /\ old[q] # b
        /\ 1 .. size \subseteq 1 .. size' /\ unsynced' \subseteq Blocks
        /\ \A c \in Fixed : c \in unsynced' => c \in unsynced
    BY <2>2, <2>3, TakingFixed
  <2>5. PICK l : l = Allocated(b)
    OBVIOUS
  <2>6. /\ l \in LiveTypes
        /\ l.alloc = live.alloc \cup {b} /\ l.avail = live.avail \ {b}
        /\ l.discard = live.discard /\ l.ckptAvail = live.ckptAvail
    BY <1>2, <2>4, <2>5, AllocatedIs
  <2>7. PICK w : w = [alloc |-> live.alloc \cup {b}, discard |-> live.discard,
                      root |-> root.block, image |-> Running.image \cup {b}]
    BY Zenon
  <2>8. /\ w.alloc = live.alloc \cup {b} /\ w.discard = live.discard /\ w.root = root.block
        /\ w.image = Running.image \cup {b}
    BY <2>7
  <2>9. Whole(list, w, live.avail \ {b}, live.ckptAvail, size')
    BY <2>2, <2>3, <2>8, Taking
  <2>10. Whole(list, w, l.avail, l.ckptAvail, size')
    BY <2>6, <2>9
  <2>11. b \in Address /\ Block(b) = {b}
    BY <2>4, AddressIs DEF Block
  <2>12. /\ w.alloc = l.alloc /\ w.discard = l.discard /\ w.image = Running.image \cup Block(b)
         /\ live' = OffFree(l, addr[p])
    BY <2>2, <2>5, <2>6, <2>8, <2>11
  <2>13. /\ LiveInv' /\ PagesInv' /\ live'.ckptAvail = live.ckptAvail
         /\ live'.avail \cup live'.alloc \subseteq l.avail \cup l.alloc
    BY <1>1, <2>2, <2>4, <2>6, <2>8, <2>10, <2>11, <2>12, Rewriting
  <2>14. Fixed \subseteq Fixed'
    <3>1. Fixed' = (1 .. size') \ (live'.avail \cup live'.alloc)
      BY DEF Fixed
    <3> QED
      BY <2>4, <2>6, <2>13, <3>1 DEF Fixed
  <2>15. StableInv'
    BY <1>1, <1>3, <2>4, <2>14, StableKept
  <2> QED
    BY <1>4, <2>13, <2>15 DEF BlockInv
<1>8. CASE /\ addr' = [addr EXCEPT ![p] = 0]
           /\ live' = OffFree(live, addr[p])
           /\ UNCHANGED <<size, unsynced>>
  <2>1. 0 \in Address /\ Block(0) = {}
    BY AddressIs DEF Block
  <2>2. PICK w : w = Running
    OBVIOUS
  <2>3. /\ w.alloc = live.alloc /\ w.discard = live.discard /\ w.root = root.block
        /\ w.image = Running.image \cup Block(0)
        /\ Whole(list, w, live.avail, live.ckptAvail, size')
    BY <1>2, <1>8, <2>1, <2>2, RunningIs
  <2>4. /\ LiveInv' /\ PagesInv' /\ live'.ckptAvail = live.ckptAvail
        /\ live'.avail \cup live'.alloc \subseteq live.avail \cup live.alloc
    BY <1>1, <1>2, <1>8, <2>1, <2>3, Rewriting
  <2>5. Fixed \subseteq Fixed'
    <3>1. Fixed' = (1 .. size) \ (live'.avail \cup live'.alloc)
      BY <1>8 DEF Fixed
    <3> QED
      BY <2>4, <3>1 DEF Fixed
  <2>6. StableInv'
    BY <1>1, <1>3, <1>5, <1>8, <2>5, StableKept
  <2> QED
    BY <1>4, <2>4, <2>6 DEF BlockInv
<1> QED
  BY <1>6, <1>7, <1>8 DEF WalkPage

\* The walk writes the root.
LEMMA WalkRootKeeps ==
    ASSUME BlockInv, WalkRoot
    PROVE  BlockInv'
<1>1. /\ phase = "run" /\ phase' = "root" /\ UNCHANGED <<addr, evict, old, list, turtles>>
  BY DEF WalkRoot
<1>2. /\ list \in Seq(Checkpoints) /\ live \in LiveTypes
      /\ Whole(list, Running, live.avail, live.ckptAvail, size)
      /\ size \in Nat /\ live.avail \in SUBSET (1 .. size)
  BY LiveFacts
<1>3. phase' # "written" /\ phase # "written"
      /\ phase \in {"none", "wait", "run", "root", "stable"}
  BY <1>1
<1>4. Image = BlocksOf(addr) /\ root = NoRoot /\ live.ckptAvail = {}
      /\ \A p \in Pages : evict[p] = "no"
  BY <1>1 DEF Image, BlocksOf, BlockInv, PhaseInv
<1>5. unsynced \subseteq Blocks
  BY DEF BlockInv, StableInv
<1>6. PagesInv'
  BY <1>1 DEF BlockInv, PagesInv, Apart
<1>7. /\ Running.alloc = live.alloc /\ Running.discard = live.discard /\ Running.root = 0
      /\ Running.image \in SUBSET Blocks
      /\ BlocksOf(addr) \subseteq Blocks
  BY <1>2, <1>4, RunningIs, WholeType DEF NoRoot
<1>8. CASE root' = NoRoot /\ Image = {} /\ UNCHANGED <<live, size, unsynced>>
  <2>1. Running' = Running
    BY <1>1, <1>4, <1>8 DEF Running
  <2>2. LiveInv'
    BY <1>1, <1>2, <1>8, <2>1 DEF LiveInv, LiveTypes
  <2>3. Fixed' = Fixed
    BY <1>8 DEF Fixed
  <2>4. StableInv'
    BY <1>1, <1>3, <1>5, <1>8, <2>3, StableKept
  <2>5. root' \in [block : Address, image : SUBSET Blocks] /\ root'.image = BlocksOf(addr')
    BY <1>1, <1>4, <1>8, AddressIs DEF NoRoot
  <2>6. PhaseInv'
    BY <1>1, <1>4, <1>8, <2>5 DEF PhaseInv, Phases
  <2> QED
    BY <1>6, <2>2, <2>4, <2>6 DEF BlockInv
<1>9. ASSUME NEW b, b = NthBlock(live.avail, size, 1), Write(b), live' = Allocated(b),
             root' = [block |-> b, image |-> Image]
      PROVE  BlockInv'
  <2>1. b \in live.avail \/ b = size + 1
    BY <1>2, <1>9, NextTaken
  <2>2. /\ b \in Blocks /\ b \notin Fixed
        /\ 1 .. size \subseteq 1 .. size' /\ unsynced' \subseteq Blocks
        /\ \A c \in Fixed : c \in unsynced' => c \in unsynced
    BY <1>9, <2>1, TakingFixed
  <2>3. /\ live' \in LiveTypes
        /\ live'.alloc = live.alloc \cup {b} /\ live'.avail = live.avail \ {b}
        /\ live'.discard = live.discard /\ live'.ckptAvail = live.ckptAvail
    BY <1>2, <1>9, <2>2, AllocatedIs
  <2>4. size' = IF b <= size THEN size ELSE b
    <3>1. b \in Int /\ size \in Int /\ size' = Max({size, b})
      BY <1>2, <1>9, <2>2 DEF Blocks, Write
    <3>2. Max({size, b}) = IF size <= b THEN b ELSE size
      BY <3>1, MaxPair
    <3> QED
      BY <3>1, <3>2
  <2>5. PICK w2 : w2 = Running'
    OBVIOUS
  <2>6. /\ w2.alloc = Running.alloc \cup {b} /\ w2.discard = Running.discard
        /\ w2.root = b /\ w2.image = Running.image
    BY <1>1, <1>7, <1>9, <2>3, <2>5 DEF Running
  <2>7. Whole(list, w2, live.avail \ {b}, live.ckptAvail, size')
    BY <1>2, <1>7, <2>1, <2>2, <2>4, <2>6, WholeTakeRoot
  <2>8. LiveInv'
    BY <1>1, <2>3, <2>5, <2>7 DEF LiveInv, LiveTypes
  <2>9. Fixed \subseteq Fixed'
    <3>1. Fixed' = (1 .. size') \ (live'.avail \cup live'.alloc)
      BY DEF Fixed
    <3> QED
      BY <2>2, <2>3, <3>1 DEF Fixed
  <2>10. StableInv'
    BY <1>1, <1>3, <2>2, <2>9, StableKept
  <2>11. root' \in [block : Address, image : SUBSET Blocks] /\ root'.image = BlocksOf(addr')
    BY <1>1, <1>4, <1>7, <1>9, <2>2, AddressIs
  <2>12. PhaseInv'
    BY <1>1, <1>4, <2>3, <2>11 DEF PhaseInv, Phases
  <2> QED
    BY <1>6, <2>8, <2>10, <2>12 DEF BlockInv
<1>10. CASE Image = {}
  BY <1>8, <1>10 DEF WalkRoot
<1>11. CASE Image # {}
  BY <1>9, <1>11 DEF WalkRoot
<1> QED
  BY <1>10, <1>11

-----------------------------------------------------------------------------
(* The steps that leave the blocks of the live system alone. *)

LEMMA SameLive ==
    ASSUME BlockInv, UNCHANGED <<live, size, addr, old, root, list>>
    PROVE  LiveInv' /\ Fixed' = Fixed /\ (UNCHANGED evict => PagesInv')
<1>1. Running' = Running
  BY DEF Running
<1>2. LiveInv'
  BY <1>1 DEF BlockInv, LiveInv
<1>3. Fixed' = Fixed
  BY DEF Fixed
<1>4. UNCHANGED evict => PagesInv'
  BY DEF BlockInv, PagesInv, Apart
<1> QED
  BY <1>2, <1>3, <1>4

LEMMA ModifyKeeps ==
    ASSUME BlockInv, NEW p \in Pages, Modify(p)
    PROVE  BlockInv'
<1>1. UNCHANGED <<live, size, addr, old, root, list, evict, phase, turtles, unsynced>>
  BY DEF Modify
<1>2. LiveInv' /\ PagesInv' /\ Fixed' = Fixed
  BY <1>1, SameLive
<1>3. PhaseInv'
  BY <1>1 DEF BlockInv, PhaseInv
<1>4. unsynced \subseteq Blocks
  BY DEF BlockInv, StableInv
<1>5. StableInv'
  BY <1>1, <1>2, <1>4, StableKept
<1> QED
  BY <1>2, <1>3, <1>5 DEF BlockInv

LEMMA EvictReviewKeeps ==
    ASSUME BlockInv, NEW p \in Pages, EvictReview(p)
    PROVE  BlockInv'
<1>1. /\ evict[p] = "no" /\ phase \notin {"wait", "run", "root"}
      /\ evict' = [evict EXCEPT ![p] = "in"]
      /\ UNCHANGED <<live, size, addr, old, root, list, phase, turtles, unsynced>>
  BY DEF EvictReview, Syncing
<1>2. LiveInv' /\ Fixed' = Fixed
  BY <1>1, SameLive
<1>3. PagesInv'
  BY <1>1 DEF BlockInv, PagesInv, Apart
<1>4. PhaseInv'
  BY <1>1 DEF BlockInv, PhaseInv
<1>5. unsynced \subseteq Blocks
  BY DEF BlockInv, StableInv
<1>6. StableInv'
  BY <1>1, <1>2, <1>5, StableKept
<1> QED
  BY <1>2, <1>3, <1>4, <1>6 DEF BlockInv

LEMMA SimpleStepsKeep ==
    ASSUME BlockInv, Start \/ Drained \/ Fail \/ Sync \/ TurtleSet \/ TurtleSync
    PROVE  BlockInv'
<1>1. UNCHANGED <<live, size, addr, old, root, list, evict, turtles>>
  BY DEF Start, Drained, Fail, Sync, TurtleSet, TurtleSync
<1>2. LiveInv' /\ PagesInv' /\ Fixed' = Fixed
  BY <1>1, SameLive
<1>3. /\ phase' # "written" /\ (unsynced' = unsynced \/ unsynced' = {})
      /\ \/ phase = "written" /\ phase' = "synced" /\ unsynced' = {}
         \/ phase # "written"
      /\ phase' \in {"none", "wait", "run", "root", "stable"} =>
           phase \in {"none", "wait", "run", "root", "stable"}
  BY DEF Start, Drained, Fail, Sync, TurtleSet, TurtleSync
<1>4. PhaseInv'
  <2>1. CASE Start
    BY <1>1, <2>1 DEF Start, BlockInv, PhaseInv, Phases
  <2>2. CASE Drained
    BY <1>1, <2>2 DEF Drained, BlockInv, PhaseInv, Phases
  <2>3. CASE Fail
    BY <1>1, <2>3 DEF Fail, BlockInv, PhaseInv, Phases
  <2>4. CASE Sync
    BY <1>1, <2>4 DEF Sync, BlockInv, PhaseInv, Phases
  <2>5. CASE TurtleSet
    BY <1>1, <2>5 DEF TurtleSet, BlockInv, PhaseInv, Phases
  <2>6. CASE TurtleSync
    BY <1>1, <2>6 DEF TurtleSync, BlockInv, PhaseInv, Phases
  <2> QED
    BY <2>1, <2>2, <2>3, <2>4, <2>5, <2>6
<1>5. unsynced \subseteq Blocks
  BY DEF BlockInv, StableInv
<1>6. CASE phase # "written"
  <2>1. /\ Fixed \subseteq Fixed' /\ unsynced' \subseteq Blocks
        /\ \A b \in Fixed : b \in unsynced' => b \in unsynced
    BY <1>2, <1>3, <1>5
  <2>2. StableInv'
    BY <1>1, <1>3, <1>6, <2>1, StableKept
  <2> QED
    BY <1>2, <1>4, <2>2 DEF BlockInv
\* The flush.
<1>7. CASE phase = "written" /\ phase' = "synced" /\ unsynced' = {}
  <2>1. /\ Consistent(list) /\ list' = list /\ turtles' = turtles
        /\ \A t \in turtles : Consistent(t.list) /\ Guarded(t.list) /\ Flushed(t.list)
    BY <1>1 DEF BlockInv, StableInv
  <2>2. \A lst : Flushed(lst)'
    <3> TAKE lst
    <3> QED
      BY <1>7 DEF Flushed
  <2>3. ASSUME NEW t \in turtles' PROVE Guarded(t.list)'
    <3>1. Guarded(t.list) /\ live' = live /\ size' = size
      BY <1>1, <2>1
    <3> QED
      BY <3>1 DEF Guarded
  <2>4. ASSUME NEW t \in turtles' PROVE Consistent(t.list)'
    BY <2>1
  <2>5. Flushed(list)'
    BY <1>7 DEF Flushed
  <2>6. Consistent(list)'
    BY <2>1
  <2>7. \A t \in turtles' : (Consistent(t.list) /\ Guarded(t.list) /\ Flushed(t.list))'
    BY <2>2, <2>3, <2>4
  <2>8. StableInv'
    BY <1>7, <2>5, <2>6, <2>7 DEF StableInv
  <2> QED
    BY <1>2, <1>4, <2>8 DEF BlockInv
<1> QED
  BY <1>3, <1>6, <1>7

\* The new turtle file may now be the one a crash leaves.
LEMMA RenameKeeps ==
    ASSUME BlockInv, TurtleRename \/ DirectorySync
    PROVE  BlockInv'
<1>1. /\ UNCHANGED <<live, size, addr, old, root, list, evict, unsynced>>
      /\ phase \in {"whole", "renamed"} /\ phase' \in {"renamed", "stable"}
      /\ phase' = "stable" => \A t \in turtles' : t.list = list
      /\ \A t \in turtles' : t.list = list \/ t \in turtles
  BY DEF TurtleRename, DirectorySync
<1>2. LiveInv' /\ PagesInv' /\ Fixed' = Fixed
  BY <1>1, SameLive
<1>3. PhaseInv'
  <2>1. CASE phase = "whole"
    BY <1>1, <2>1 DEF TurtleRename, DirectorySync, BlockInv, PhaseInv, Phases
  <2>2. CASE phase = "renamed"
    <3>1. DirectorySync
      BY <2>2 DEF TurtleRename
    <3>2. live.ckptAvail = live.ckptAvail /\ root = NoRoot
      BY <2>2 DEF BlockInv, PhaseInv
    <3> QED
      BY <1>1, <2>2, <3>1, <3>2 DEF DirectorySync, BlockInv, PhaseInv, Phases
  <2> QED
    BY <1>1, <2>1, <2>2
<1>4. /\ Consistent(list) /\ Guarded(list) /\ Flushed(list)
      /\ \A t \in turtles : Consistent(t.list) /\ Guarded(t.list) /\ Flushed(t.list)
      /\ unsynced \subseteq Blocks
  BY <1>1, WholeGuarded DEF BlockInv, StableInv
<1>5. ASSUME NEW t \in turtles' PROVE (Consistent(t.list) /\ Guarded(t.list) /\ Flushed(t.list))'
  <2>1. Consistent(t.list) /\ Guarded(t.list) /\ Flushed(t.list)
    BY <1>1, <1>4
  <2>2. Consistent(t.list)'
    BY <2>1
  <2>3. Guarded(t.list)' /\ Flushed(t.list)'
    BY <1>1, <2>1 DEF Guarded, Flushed
  <2> QED
    BY <2>2, <2>3
<1>6. Consistent(list)' /\ Flushed(list)'
  <2>1. Consistent(list)'
    BY <1>1, <1>4
  <2> QED
    BY <1>1, <1>4, <2>1 DEF Flushed
<1>7. (phase \in {"none", "wait", "run", "root", "stable"} => \A t \in turtles : t.list = list)'
  BY <1>1
<1>8. StableInv'
  BY <1>1, <1>4, <1>5, <1>6, <1>7 DEF StableInv
<1> QED
  BY <1>2, <1>3, <1>8 DEF BlockInv

\* What the checkpoint freed can be allocated.
LEMMA ResolveKeeps ==
    ASSUME BlockInv, Resolve
    PROVE  BlockInv'
<1>1. /\ phase = "stable" /\ phase' = "none"
      /\ live' = [live EXCEPT !.avail = @ \cup live.ckptAvail, !.ckptAvail = {}]
      /\ UNCHANGED <<size, unsynced, addr, evict, old, root, list, turtles>>
  BY DEF Resolve
<1>2. /\ list \in Seq(Checkpoints) /\ live \in LiveTypes
      /\ Whole(list, Running, live.avail, live.ckptAvail, size)
  BY LiveFacts
<1>3. /\ live' \in LiveTypes
      /\ live'.avail = live.avail \cup live.ckptAvail /\ live'.ckptAvail = {}
      /\ live'.alloc = live.alloc /\ live'.discard = live.discard
  BY <1>1, <1>2 DEF LiveTypes
<1>4. Running' = Running
  BY <1>1, <1>3 DEF Running
<1>5. Whole(list, Running, live.avail \cup live.ckptAvail, {}, size)
  <2>1. Space(Len(list) + 1, AllocIn(list, Running), AtsIn(list),
              live.avail \cup live.ckptAvail, {}, size)
    BY <1>2, SpaceResolve DEF Whole
  <2> QED
    BY <1>2, <2>1, Zenon DEF Whole
<1>6. LiveInv'
  BY <1>1, <1>3, <1>4, <1>5 DEF LiveInv, LiveTypes
<1>7. PagesInv'
  BY <1>1 DEF BlockInv, PagesInv, Apart
<1>8. PhaseInv'
  <2>1. root = NoRoot /\ root \in [block : Address, image : SUBSET Blocks]
    BY <1>1 DEF BlockInv, PhaseInv
  <2> QED
    BY <1>1, <1>3, <2>1 DEF PhaseInv, Phases
<1>9. Guarded(list)'
  <2>1. ASSUME NEW i \in 1 .. Len(list)
        PROVE  Needed(list[i]) \subseteq (1 .. size) \ (live'.avail \cup live'.alloc)
    <3>1. Needed(list[i]) \subseteq (1 .. size)
                 \ (live.avail \cup live.ckptAvail \cup Running.alloc)
      BY <1>2, NeededFixed
    <3> QED
      BY <1>3, <3>1, RunningIs
  <2> QED
    BY <1>1, <2>1 DEF Guarded
<1>10. /\ Consistent(list) /\ Flushed(list) /\ \A t \in turtles : t.list = list
       /\ unsynced \subseteq Blocks
  BY <1>1 DEF BlockInv, StableInv
<1>11. Consistent(list)'
  BY <1>1, <1>10
<1>12. Flushed(list)'
  BY <1>1, <1>10 DEF Flushed
<1>13. \A t \in turtles' : t.list = list'
  BY <1>1, <1>10
<1>14. \A t \in turtles' : (Consistent(t.list) /\ Guarded(t.list) /\ Flushed(t.list))'
  <2> SUFFICES ASSUME NEW t \in turtles'
               PROVE  (Consistent(t.list) /\ Guarded(t.list) /\ Flushed(t.list))'
    OBVIOUS
  <2>1. t.list = list'
    BY <1>13
  <2>2. Consistent(t.list)'
    BY <1>11, <2>1
  <2>3. Guarded(t.list)'
    BY <1>9, <2>1 DEF Guarded
  <2>4. Flushed(t.list)'
    BY <1>12, <2>1 DEF Flushed
  <2> QED
    BY <2>2, <2>3, <2>4
<1>15. StableInv'
  BY <1>1, <1>10, <1>11, <1>12, <1>13, <1>14 DEF StableInv
<1> QED
  BY <1>6, <1>7, <1>8, <1>15 DEF BlockInv

-----------------------------------------------------------------------------
(* A crash. *)

\* The system goes on from a consistent list of checkpoints.
LEMMA CrashKeeps ==
    ASSUME BlockInv, Crash
    PROVE  BlockInv'
<1>1. PICK t \in turtles :
         /\ turtles' = {t} /\ list' = t.list
         /\ IF t.list = <<>>
              THEN live' = EmptyLive /\ size' = 0 /\ addr' = [p \in Pages |-> 0]
              ELSE Load(t.list[Len(t.list)])
  BY DEF Crash
<1>2. /\ unsynced' = {} /\ evict' = [p \in Pages |-> "no"] /\ old' = [p \in Pages |-> 0]
      /\ phase' = "none" /\ root' = NoRoot
  BY DEF Crash
<1>3. PICK lst : lst = t.list
  OBVIOUS
<1>4. Consistent(lst) /\ lst \in Seq(Checkpoints)
  BY <1>3 DEF BlockInv, StableInv, Consistent
<1>5. old' \in [Pages -> Address] /\ evict' \in [Pages -> {"no", "in", "wrote"}]
      /\ \A p \in Pages : old'[p] = 0 /\ evict'[p] = "no"
  BY <1>2, AddressIs
<1>6. \A c : c \notin BlocksOf(old')
  <2>1. PICK a : a = old'
    OBVIOUS
  <2>2. \A p \in Pages : a[p] = 0
    BY <1>5, <2>1
  <2>3. \A c : c \notin BlocksOf(a)
    BY <2>2, BlocksOfIs
  <2> QED
    BY <2>1, <2>3
\* What is loaded.
<1>7. /\ live' \in LiveTypes /\ addr' \in [Pages -> Address] /\ Apart(addr')
      /\ live'.alloc = {} /\ live'.discard = {} /\ live'.ckptAvail = {}
      /\ BlocksOf(addr') = Resumed(lst).image
      /\ Whole(lst, Resumed(lst), live'.avail, {}, size')
  <2>1. CASE lst = <<>>
    <3>1. live' = EmptyLive /\ size' = 0 /\ addr' = [p \in Pages |-> 0]
      BY <1>1, <1>3, <2>1
    <3>2. Whole(lst, Resumed(lst), {}, {}, 0) /\ Resumed(lst).image = {}
      BY <1>4, <2>1 DEF Consistent, Resumed
    <3>3. addr' \in [Pages -> Address] /\ \A p \in Pages : addr'[p] = 0
      BY <3>1, AddressIs
    <3>4. Apart(addr')
      BY <3>3 DEF Apart
    <3>5. BlocksOf(addr') = {}
      <4>1. PICK a : a = addr'
        OBVIOUS
      <4>2. \A p \in Pages : a[p] = 0
        BY <3>3, <4>1
      <4>3. \A c : c \notin BlocksOf(a)
        BY <4>2, BlocksOfIs
      <4> QED
        BY <4>1, <4>3
    <3>6. /\ live' \in LiveTypes /\ live'.alloc = {} /\ live'.discard = {}
          /\ live'.ckptAvail = {} /\ live'.avail = {}
      BY <3>1 DEF LiveTypes, EmptyLive
    <3> QED
      BY <3>1, <3>2, <3>3, <3>4, <3>5, <3>6
  <2>2. CASE lst # <<>>
    <3>1. PICK c : c = lst[Len(lst)]
      OBVIOUS
    <3>2. c \in Checkpoints
      BY <1>4, <2>2, <3>1
    <3>3. /\ Whole(lst, Resumed(lst), c.avail \ {c.availAt}, {}, c.size)
          /\ c.root.image = BlocksOf(c.addr) /\ Apart(c.addr)
      BY <1>4, <2>2, <3>1 DEF Consistent
    <3>4. Resumed(lst).image = c.root.image
      BY <2>2, <3>1 DEF Resumed
    <3>5. /\ live' = [EmptyLive EXCEPT !.avail = c.avail \ {c.availAt},
                                       !.bytes = c.bytes - Cardinality(Block(c.root.block))]
          /\ size' = c.size /\ addr' = c.addr
      BY <1>1, <1>3, <2>2, <3>1 DEF Load
    <3>6. c.avail \in SUBSET Blocks /\ c.bytes \in Int /\ c.addr \in [Pages -> Address]
      BY <3>2 DEF Checkpoints
    <3>7. IsFiniteSet(Block(c.root.block))
      <4>1. Block(c.root.block) \in SUBSET {c.root.block} /\ IsFiniteSet({c.root.block})
        BY FS_Singleton DEF Block
      <4> QED
        BY <4>1, FS_Subset
    <3>8. Cardinality(Block(c.root.block)) \in Nat
      BY <3>7, FS_CardinalityType
    <3>9. c.bytes - Cardinality(Block(c.root.block)) \in Int
      BY <3>6, <3>8
    <3>10. /\ live'.alloc = {} /\ live'.discard = {} /\ live'.ckptAvail = {}
           /\ live'.avail = c.avail \ {c.availAt}
           /\ live' \in LiveTypes
      BY <3>5, <3>6, <3>9 DEF LiveTypes, EmptyLive
    <3> QED
      BY <3>3, <3>4, <3>5, <3>6, <3>10
  <2> QED
    BY <2>1, <2>2
<1>8. PICK w2 : w2 = Running'
  OBVIOUS
<1>9. w2.alloc = {} /\ w2.discard = {} /\ w2.root = 0 /\ w2.image = Resumed(lst).image
  <2>1. /\ w2.alloc = live'.alloc /\ w2.discard = live'.discard /\ w2.root = root'.block
        /\ w2.image = BlocksOf(addr') \cup BlocksOf(old')
    BY <1>8 DEF Running
  <2> QED
    BY <1>2, <1>6, <1>7, <2>1 DEF NoRoot
<1>10. Resumed(lst).alloc = {} /\ Resumed(lst).discard = {} /\ Resumed(lst).root = 0
  BY DEF Resumed
<1>11. Whole(lst, w2, live'.avail, {}, size')
  <2>1. PICK av, sz : av = live'.avail /\ sz = size'
    OBVIOUS
  <2>2. Whole(lst, Resumed(lst), av, {}, sz)
    BY <1>7, <2>1
  <2>3. Whole(lst, w2, av, {}, sz)
    BY <1>4, <1>9, <1>10, <2>2, WholeSame
  <2> QED
    BY <2>1, <2>3
<1>12. LiveInv'
  BY <1>1, <1>3, <1>7, <1>8, <1>11 DEF LiveInv, LiveTypes
<1>13. PagesInv'
  BY <1>5, <1>7 DEF PagesInv, Apart
<1>14. PhaseInv'
  BY <1>2, <1>5, <1>7, AddressIs DEF PhaseInv, Phases, NoRoot
<1>15. Guarded(lst)'
  <2>1. PICK av, sz : av = live'.avail /\ sz = size'
    OBVIOUS
  <2>2. ASSUME NEW i \in 1 .. Len(lst)
        PROVE  Needed(lst[i]) \subseteq (1 .. sz) \ (av \cup {} \cup w2.alloc)
    BY <1>4, <1>11, <2>1, NeededFixed
  <2>3. \A i \in 1 .. Len(lst) : Needed(lst[i]) \subseteq (1 .. size') \ (live'.avail \cup live'.alloc)
    BY <1>7, <1>9, <2>1, <2>2
  <2> QED
    BY <2>3 DEF Guarded
<1>16. Flushed(lst)'
  BY <1>2 DEF Flushed
<1>17. list' = lst /\ \A s \in turtles' : s.list = lst
  BY <1>1, <1>3
<1>18. Consistent(list)' /\ Flushed(list)'
  <2>1. Consistent(list)'
    BY <1>4, <1>17
  <2> QED
    BY <1>2, <2>1 DEF Flushed
<1>19. \A s \in turtles' : (Consistent(s.list) /\ Guarded(s.list) /\ Flushed(s.list))'
  <2> SUFFICES ASSUME NEW s \in turtles'
               PROVE  (Consistent(s.list) /\ Guarded(s.list) /\ Flushed(s.list))'
    OBVIOUS
  <2>1. s.list = lst
    BY <1>17
  <2>2. Consistent(s.list)'
    BY <1>4, <2>1
  <2>3. Guarded(s.list)'
    BY <1>15, <2>1 DEF Guarded
  <2>4. Flushed(s.list)'
    BY <1>16, <2>1 DEF Flushed
  <2> QED
    BY <2>2, <2>3, <2>4
<1>20. StableInv'
  <2>1. unsynced' \subseteq Blocks
    BY <1>2
  <2>2. \A s \in turtles' : s.list = list'
    BY <1>17
  <2> QED
    BY <1>2, <1>18, <1>19, <2>1, <2>2 DEF StableInv
<1> QED
  BY <1>12, <1>13, <1>14, <1>20 DEF BlockInv

-----------------------------------------------------------------------------
(* Where __ckpt_process writes the extent lists. *)

\* Blocks are taken from av, in a file of sz blocks, for the lists that are rewritten, the
\* file is cut at end, and blocks are taken from what is left, avail, for the new lists.
Laid(av, sz, n1, n2, took, avail, end) ==
    /\ sz \in Nat /\ av \subseteq 1 .. sz /\ n1 \in Nat /\ n2 \in Nat
    /\ end = CutAt(AvailAfter(av, sz, n1), SizeAfter(av, sz, n1))
    /\ avail = AvailAfter(av, sz, n1) \cap (1 .. end)
    /\ took = Took(av, sz, n1) \cup Took(avail, end, n2)

\* The blocks in use, those taken and those still available are the whole new file, and
\* apart from one another.
LEMMA Layout ==
    ASSUME NEW av, NEW sz, NEW n1, NEW n2, NEW took, NEW avail, NEW end,
           Laid(av, sz, n1, n2, took, avail, end),
           NEW sz2, sz2 = SizeAfter(avail, end, n2),
           NEW av2, av2 = AvailAfter(avail, end, n2)
    PROVE  /\ sz2 \in Nat /\ end \in Nat /\ avail \subseteq 1 .. end /\ avail \subseteq av
           /\ (1 .. sz) \ av \subseteq 1 .. sz2
           /\ av2 \subseteq 1 .. sz2 /\ took \subseteq 1 .. sz2
           /\ av2 \subseteq av /\ av2 \cap took = {}
           /\ \A b \in took : b \in av \/ b > sz
           /\ Took(av, sz, n1) \cap Took(avail, end, n2) = {}
           /\ \A b \in 1 .. sz2 : b \in (1 .. sz) \ av \/ b \in av2 \/ b \in took
<1> DEFINE t1 == Took(av, sz, n1)
           t2 == Took(avail, end, n2)
           s1 == SizeAfter(av, sz, n1)
           rest == AvailAfter(av, sz, n1)
<1>1. /\ sz \in Nat /\ av \in SUBSET (1 .. sz) /\ n1 \in Nat /\ n2 \in Nat
      /\ end = CutAt(rest, s1) /\ avail = rest \cap (1 .. end) /\ took = t1 \cup t2
  BY DEF Laid
<1>2. /\ s1 \in Nat /\ sz <= s1 /\ t1 \subseteq 1 .. s1
      /\ \A b \in t1 : b \in av \/ b > sz
      /\ (sz + 1) .. s1 \subseteq t1 /\ rest = av \ t1
  BY <1>1, TookIs
<1>3. end \in 0 .. s1 /\ (end + 1) .. s1 \subseteq rest
  BY <1>1, <1>2, CutAtIs
<1>4. end \in Nat /\ avail \in SUBSET (1 .. end) /\ avail \subseteq av
  BY <1>1, <1>2, <1>3
<1>5. /\ sz2 \in Nat /\ end <= sz2 /\ t2 \subseteq 1 .. sz2
      /\ \A b \in t2 : b \in avail \/ b > end
      /\ (end + 1) .. sz2 \subseteq t2 /\ av2 = avail \ t2
  <2>1. n2 \in Nat /\ end \in Nat /\ avail \in SUBSET (1 .. end)
    BY <1>1, <1>4
  <2>2. /\ SizeAfter(avail, end, n2) \in Nat /\ end <= SizeAfter(avail, end, n2)
        /\ Took(avail, end, n2) \subseteq 1 .. SizeAfter(avail, end, n2)
        /\ \A b \in Took(avail, end, n2) : b \in avail \/ b > end
        /\ (end + 1) .. SizeAfter(avail, end, n2) \subseteq Took(avail, end, n2)
        /\ AvailAfter(avail, end, n2) = avail \ Took(avail, end, n2)
    BY <2>1, TookIs
  <2> QED
    BY <2>2
<1> HIDE DEF t1, t2, s1, rest
<1>6. ASSUME NEW b \in Nat, b > end, b <= s1 PROVE b \in av /\ b \notin t1
  BY <1>2, <1>3, <1>6
<1>7. (1 .. sz) \ av \subseteq 1 .. sz2
  <2> SUFFICES ASSUME NEW b \in 1 .. sz, b \notin av PROVE b \in 1 .. sz2
    OBVIOUS
  <2>1. b \in Nat /\ b <= s1 /\ 1 <= b
    BY <1>1, <1>2
  <2>2. ~(b > end)
    BY <1>6, <2>1
  <2> QED
    BY <1>4, <1>5, <2>1, <2>2
<1>8. ASSUME NEW b \in t1 PROVE b \in 1 .. end /\ b \notin avail
  <2>1. b \in Nat /\ b <= s1 /\ 1 <= b
    BY <1>2
  <2>2. ~(b > end)
    BY <1>6, <2>1
  <2>3. b \notin avail
    BY <1>1, <1>2
  <2> QED
    BY <1>4, <2>1, <2>2, <2>3
<1>9. t1 \cap t2 = {}
  <2> SUFFICES ASSUME NEW b \in t1, b \in t2 PROVE FALSE
    OBVIOUS
  <2>1. b \in 1 .. end /\ b \notin avail
    BY <1>8
  <2>2. b > end
    BY <1>5, <2>1
  <2> QED
    BY <1>4, <2>1, <2>2
<1>10. took \subseteq 1 .. sz2
  <2> SUFFICES ASSUME NEW b \in t1 PROVE b \in 1 .. sz2
    BY <1>1, <1>5
  <2> QED
    BY <1>4, <1>5, <1>8
<1>11. \A b \in took : b \in av \/ b > sz
  <2> SUFFICES ASSUME NEW b \in t2, b \notin av PROVE b > sz
    BY <1>1, <1>2
  <2>1. b \notin avail /\ b > end /\ b \in Nat
    BY <1>4, <1>5
  <2>2. b > s1
    BY <1>2, <1>6, <2>1
  <2> QED
    BY <1>1, <1>2, <2>1, <2>2
<1>12. av2 \cap took = {}
  BY <1>1, <1>5, <1>8
<1>13. ASSUME NEW b \in 1 .. sz2, b \notin (1 .. sz) \ av, b \notin av2
       PROVE  b \in took
  <2>1. CASE b > end
    <3>1. b \in (end + 1) .. sz2
      BY <1>4, <1>5, <2>1
    <3> QED
      BY <1>1, <1>5, <3>1
  <2>2. CASE ~(b > end)
    <3>1. b \in Nat /\ 1 <= b /\ b <= s1 /\ b \in 1 .. end
      BY <1>2, <1>3, <1>4, <1>5, <2>2
    <3>2. CASE b > sz
      <4>1. b \in (sz + 1) .. s1
        BY <1>1, <1>2, <3>1, <3>2
      <4> QED
        BY <1>1, <1>2, <4>1
    <3>3. CASE ~(b > sz)
      <4>1. b \in 1 .. sz
        BY <1>1, <3>1, <3>3
      <4>2. b \in av
        BY <1>13, <4>1
      <4> QED
        BY <1>1, <1>2, <1>5, <1>13, <3>1, <4>2
    <3> QED
      BY <3>2, <3>3
  <2> QED
    BY <2>1, <2>2
<1>14. av2 \subseteq 1 .. sz2 /\ av2 \subseteq av
  BY <1>4, <1>5
<1> QED
  BY <1>4, <1>5, <1>7, <1>9, <1>10, <1>11, <1>12, <1>13, <1>14 DEF t1, t2

\* The blocks of the file when epochs are merged: stay are the extent lists that stay
\* where they are, fresh the blocks of the new ones, took all of those, and what the
\* groups give up (ck2) is to become available.
SpaceMerged(m, n, A, D, R, E, g, at, A2, stay, fresh, av, sz, av2, ck2, sz2, took) ==
    /\ \A k \in 1 .. n : stay[k] \subseteq E[at[k]]
    /\ \A k, l \in 1 .. n : \A b \in fresh[k] : b \in fresh[l] => k = l
    /\ \A k \in 1 .. n : fresh[k] \subseteq took
    /\ \A b \in took : \E k \in 1 .. n : b \in fresh[k]
    /\ \A k \in 1 .. n : A2[k] \subseteq Blocks
    /\ \A k \in 1 .. n : \A b \in Blocks :
         b \in A2[k] <=> InAlloc(m, A, g, k, b) /\ ~InDiscard(m, D, R, g, at, k, b)
    /\ \A b : b \in ck2 <=>
         \/ b \in Blocks /\ \E k \in 1 .. n : InAlloc(m, A, g, k, b) /\ InDiscard(m, D, R, g, at, k, b)
         \/ (\E i \in 1 .. m : b \in E[i]) /\ \A k \in 1 .. n : b \notin stay[k]
    /\ sz2 \in Address
    /\ (1 .. sz) \ av \subseteq 1 .. sz2 /\ av2 \subseteq 1 .. sz2 /\ took \subseteq 1 .. sz2
    /\ av2 \cap ((1 .. sz) \ av) = {} /\ av2 \cap took = {} /\ took \cap ((1 .. sz) \ av) = {}
    /\ \A b \in 1 .. sz2 : b \in (1 .. sz) \ av \/ b \in av2 \/ b \in took
LEMMA SpaceMerge ==
    ASSUME NEW m, NEW A, NEW E, NEW av, NEW sz, Space(m, A, E, av, {}, sz), AllocOnce(m, A),
           \A i \in 1 .. m : A[i] \subseteq Blocks,
           NEW D, NEW R, NEW n, NEW g, NEW at, Grouping(m, n, g, at),
           NEW A2, NEW stay, NEW fresh, NEW av2, NEW ck2, NEW sz2, NEW took,
           SpaceMerged(m, n, A, D, R, E, g, at, A2, stay, fresh, av, sz, av2, ck2, sz2, took),
           NEW E2, \A k \in 1 .. n : E2[k] = stay[k] \cup fresh[k]
    PROVE  Space(n, A2, E2, av2, ck2, sz2)
<1> DEFINE U == (1 .. sz) \ av
           InA(k, b) == InAlloc(m, A, g, k, b)
           InD(k, b) == InDiscard(m, D, R, g, at, k, b)
<1>1. /\ \A i \in 1 .. m : A[i] \subseteq U /\ E[i] \subseteq U
      /\ \A i, j \in 1 .. m : A[i] \cap E[j] = {}
      /\ \A i, j \in 1 .. m : \A b \in E[i] : b \in E[j] => i = j
      /\ \A b \in U : \E i \in 1 .. m : b \in A[i] \/ b \in E[i]
  BY DEF Space
<1>2. /\ \A k \in 1 .. n : stay[k] \subseteq E[at[k]]
      /\ \A k, l \in 1 .. n : \A b \in fresh[k] : b \in fresh[l] => k = l
      /\ \A k \in 1 .. n : fresh[k] \subseteq took
      /\ \A b \in took : \E k \in 1 .. n : b \in fresh[k]
      /\ \A k \in 1 .. n : A2[k] \subseteq Blocks
      /\ \A k \in 1 .. n : \A b \in Blocks : b \in A2[k] <=> InA(k, b) /\ ~InD(k, b)
      /\ \A b : b \in ck2 <=>
           \/ b \in Blocks /\ \E k \in 1 .. n : InA(k, b) /\ InD(k, b)
           \/ (\E i \in 1 .. m : b \in E[i]) /\ \A k \in 1 .. n : b \notin stay[k]
      /\ sz2 \in Address
      /\ U \subseteq 1 .. sz2 /\ av2 \subseteq 1 .. sz2 /\ took \subseteq 1 .. sz2
      /\ av2 \cap U = {} /\ av2 \cap took = {} /\ took \cap U = {}
      /\ \A b \in 1 .. sz2 : b \in U \/ b \in av2 \/ b \in took
  BY Zenon DEF SpaceMerged
<1>3. /\ \A i \in 1 .. m : g[i] \in 1 .. n
      /\ \A k \in 1 .. n : at[k] \in 1 .. m /\ g[at[k]] = k
  BY DEF Grouping
<1>4. \A k \in 1 .. n : \A b : InA(k, b) <=> \E i \in 1 .. m : g[i] = k /\ b \in A[i]
  BY DEF InAlloc
<1>5. \A i, j \in 1 .. m : \A b : b \in A[i] /\ b \in A[j] => i = j
  BY DEF AllocOnce
<1> HIDE DEF U, InA, InD
<1>6. \A k \in 1 .. n : \A b \in A2[k] : b \in Blocks /\ InA(k, b) /\ ~InD(k, b)
                                         /\ \E i \in 1 .. m : g[i] = k /\ b \in A[i]
  BY <1>2, <1>4
<1>7. \A k \in 1 .. n : \A b \in stay[k] : b \in E[at[k]] /\ at[k] \in 1 .. m /\ b \in U
  BY <1>1, <1>2, <1>3
<1>8. ASSUME NEW b \in ck2 PROVE b \in U
  <2>1. CASE b \in Blocks /\ \E k \in 1 .. n : InA(k, b) /\ InD(k, b)
    BY <1>1, <1>4, <2>1
  <2>2. CASE \E i \in 1 .. m : b \in E[i]
    BY <1>1, <2>2
  <2> QED
    BY <1>2, <2>1, <2>2
<1>9. av2 \subseteq 1 .. sz2 /\ ck2 \subseteq (1 .. sz2) \ av2
  BY <1>2, <1>8
<1>10. ASSUME NEW k \in 1 .. n, NEW b \in A2[k]
       PROVE  b \in 1 .. sz2 /\ b \notin av2 /\ b \notin ck2
  <2>1. PICK i \in 1 .. m : g[i] = k /\ b \in A[i] /\ ~InD(k, b)
    BY <1>6
  <2>2. b \in U /\ \A j \in 1 .. m : b \notin E[j]
    BY <1>1, <2>1
  <2>3. ~(\E l \in 1 .. n : InA(l, b) /\ InD(l, b))
    BY <1>4, <1>5, <2>1
  <2> QED
    BY <1>2, <2>2, <2>3
<1>11. ASSUME NEW k \in 1 .. n, NEW b \in E2[k]
       PROVE  b \in 1 .. sz2 /\ b \notin av2 /\ b \notin ck2
  <2>1. CASE b \in stay[k]
    <3>1. b \in E[at[k]] /\ at[k] \in 1 .. m /\ b \in U
      BY <1>7, <2>1
    <3>2. \A j \in 1 .. m : b \notin A[j]
      BY <1>1, <3>1
    <3>3. \A l \in 1 .. n : ~InA(l, b)
      BY <1>4, <3>2
    <3> QED
      BY <1>2, <2>1, <3>1, <3>3
  <2>2. CASE b \in fresh[k]
    <3>1. b \in took
      BY <1>2, <2>2
    <3> QED
      BY <1>2, <1>8, <3>1
  <2> QED
    BY <2>1, <2>2
<1>12. ASSUME NEW k \in 1 .. n, NEW l \in 1 .. n, NEW b \in A2[k], b \in E2[l] PROVE FALSE
  <2>1. PICK i \in 1 .. m : b \in A[i]
    BY <1>6
  <2>2. b \in U /\ b \notin took
    BY <1>1, <1>2, <2>1
  <2>3. b \in stay[l]
    BY <1>2, <1>12, <2>2
  <2> QED
    BY <1>1, <1>7, <2>1, <2>3
<1>13. ASSUME NEW k \in 1 .. n, NEW l \in 1 .. n, NEW b \in E2[k], b \in E2[l] PROVE k = l
  <2>1. (b \in stay[k] \/ b \in fresh[k]) /\ (b \in stay[l] \/ b \in fresh[l])
    BY <1>13
  <2>2. CASE b \in U
    <3>1. b \notin took
      BY <1>2, <2>2
    <3>2. b \in stay[k] /\ b \in stay[l]
      BY <1>2, <2>1, <3>1
    <3>3. at[k] = at[l]
      BY <1>1, <1>7, <3>2
    <3> QED
      BY <1>3, <3>3
  <2>3. CASE b \notin U
    <3>1. b \in fresh[k] /\ b \in fresh[l]
      BY <1>7, <2>1, <2>3
    <3> QED
      BY <1>2, <3>1
  <2> QED
    BY <2>2, <2>3
<1>14. ASSUME NEW b \in 1 .. sz2, b \notin av2, b \notin ck2
       PROVE  \E k \in 1 .. n : b \in A2[k] \/ b \in E2[k]
  <2>1. CASE b \in took
    BY <1>2, <2>1
  <2>2. ASSUME NEW i \in 1 .. m, b \in A[i] PROVE \E k \in 1 .. n : b \in A2[k]
    <3>1. b \in Blocks /\ g[i] \in 1 .. n /\ InA(g[i], b)
      BY <1>3, <1>4, <2>2
    <3>2. ~InD(g[i], b)
      BY <1>2, <1>14, <3>1
    <3> QED
      BY <1>2, <3>1, <3>2
  <2>3. CASE \E i \in 1 .. m : b \in E[i]
    <3>1. \E k \in 1 .. n : b \in stay[k]
      BY <1>2, <1>14, <2>3
    <3> QED
      BY <3>1
  <2>4. b \in took \/ b \in U
    BY <1>2, <1>14
  <2> QED
    BY <1>1, <2>1, <2>2, <2>3, <2>4
<1>15. sz2 \in Address
  BY <1>2
<1> QED
  BY <1>9, <1>10, <1>11, <1>12, <1>13, <1>14, <1>15 DEF Space

\* A new epoch has no block yet.
SpaceExtended(n, A, E, A2, E2) ==
    /\ n \in Nat /\ A2[n + 1] = {} /\ E2[n + 1] = {}
    /\ \A k \in 1 .. n : A2[k] = A[k] /\ E2[k] = E[k]
LEMMA SpaceNew ==
    ASSUME NEW n, NEW A, NEW E, NEW av, NEW ck, NEW sz, Space(n, A, E, av, ck, sz),
           NEW A2, NEW E2, SpaceExtended(n, A, E, A2, E2)
    PROVE  Space(n + 1, A2, E2, av, ck, sz)
<1>0. /\ n \in Nat /\ A2[n + 1] = {} /\ E2[n + 1] = {}
      /\ \A k \in 1 .. n : A2[k] = A[k] /\ E2[k] = E[k]
  BY DEF SpaceExtended
<1>1. /\ \A k \in 1 .. n + 1 : k = n + 1 \/ k \in 1 .. n
      /\ \A k \in 1 .. n : k \in 1 .. n + 1
  BY <1>0
<1>2. /\ sz \in Address /\ av \subseteq 1 .. sz /\ ck \subseteq (1 .. sz) \ av
      /\ \A i \in 1 .. n : A[i] \subseteq (1 .. sz) \ (av \cup ck)
      /\ \A i \in 1 .. n : E[i] \subseteq (1 .. sz) \ (av \cup ck)
      /\ \A i, j \in 1 .. n : A[i] \cap E[j] = {}
      /\ \A i, j \in 1 .. n : \A b \in E[i] : b \in E[j] => i = j
      /\ \A b \in 1 .. sz : b \in av \/ b \in ck \/ \E i \in 1 .. n : b \in A[i] \/ b \in E[i]
  BY DEF Space
<1>3. \A i \in 1 .. n + 1 : /\ A2[i] \subseteq (1 .. sz) \ (av \cup ck)
                            /\ E2[i] \subseteq (1 .. sz) \ (av \cup ck)
  BY <1>0, <1>1, <1>2
<1>4. \A i, j \in 1 .. n + 1 : A2[i] \cap E2[j] = {}
  BY <1>0, <1>1, <1>2
<1>5. \A i, j \in 1 .. n + 1 : \A b \in E2[i] : b \in E2[j] => i = j
  BY <1>0, <1>1, <1>2
<1>6. \A b \in 1 .. sz : b \in av \/ b \in ck \/ \E i \in 1 .. n + 1 : b \in A2[i] \/ b \in E2[i]
  BY <1>0, <1>1, <1>2
<1> QED
  BY <1>2, <1>3, <1>4, <1>5, <1>6 DEF Space

-----------------------------------------------------------------------------
(* The groups that a set of deleted checkpoints makes: each kept checkpoint, and the *)
(* live system, with the deleted ones just before it.                                *)

Groups(del) == Cardinality(Kept(del)) + 1
At(del) == [k \in 1 .. Groups(del) |-> IF k = Groups(del) THEN Live ELSE Nth(Kept(del), k)]
Group(del) == [i \in 1 .. Live |-> Min({k \in 1 .. Groups(del) : i <= At(del)[k]})]

LEMMA AtIs ==
    ASSUME list \in Seq(Checkpoints), NEW del \in SUBSET (1 .. Len(list)),
           NEW n, n = Groups(del)
    PROVE  /\ Live \in Nat \ {0} /\ n \in Nat \ {0} /\ n - 1 = Cardinality(Kept(del))
           /\ At(del) \in [1 .. n -> 1 .. Live] /\ At(del)[n] = Live
           /\ \A k \in 1 .. n : k # n => At(del)[k] = Nth(Kept(del), k) /\ At(del)[k] \in Kept(del)
           /\ \A k, l \in 1 .. n : k < l => At(del)[k] < At(del)[l]
           /\ \A t \in Kept(del) : \E k \in 1 .. n : k # n /\ At(del)[k] = t
<1> DEFINE K == Kept(del)
           c == Cardinality(K)
<1>1. Len(list) \in Nat /\ Live = Len(list) + 1
  BY DEF Live
<1>2. K \in SUBSET (1 .. Len(list))
  BY DEF Kept
<1>3. IsFiniteSet(K) /\ c \in Nat /\ K \in SUBSET Nat
  BY <1>1, <1>2, InFile
<1>4. n = c + 1
  BY DEF Groups
<1> HIDE DEF K, c
<1>5. \A k \in 1 .. n : (k = n \/ k \in 1 .. c) /\ (k \in 1 .. c => k # n)
  BY <1>3, <1>4
<1>6. \A k \in 1 .. c : Nth(K, k) \in K
  BY <1>3, NthIs DEF c
<1>7. \A k \in 1 .. n : At(del)[k] = IF k = n THEN Live ELSE Nth(K, k)
  BY DEF At, K
<1>8. \A t \in K : t \in 1 .. Live /\ t < Live
  BY <1>1, <1>2
<1>9. At(del) \in [1 .. n -> 1 .. Live]
  <2>1. Live \in 1 .. Live
    BY <1>1
  <2>2. \A k \in 1 .. n : (IF k = n THEN Live ELSE Nth(K, k)) \in 1 .. Live
    BY <1>5, <1>6, <1>8, <2>1
  <2>3. At(del) = [k \in 1 .. n |-> IF k = n THEN Live ELSE Nth(K, k)]
    BY DEF At, K
  <2> QED
    BY <2>2, <2>3
<1>10. n \in 1 .. n
  BY <1>3, <1>4
<1>11. ASSUME NEW k \in 1 .. n, NEW l \in 1 .. n, k < l PROVE At(del)[k] < At(del)[l]
  <2>1. k # n /\ k \in 1 .. c
    BY <1>3, <1>4, <1>11
  <2>2. CASE l = n
    BY <1>6, <1>7, <1>8, <2>1, <2>2
  <2>3. CASE l # n
    <3>1. l \in 1 .. c
      BY <1>5, <2>3
    <3>2. Nth(K, k) < Nth(K, l)
      BY <1>3, <1>11, <2>1, <3>1, NthGrows DEF c
    <3> QED
      BY <1>7, <2>1, <2>3, <3>2
  <2> QED
    BY <2>2, <2>3
<1>12. ASSUME NEW t \in K PROVE \E k \in 1 .. n : k # n /\ At(del)[k] = t
  <2>1. PICK k \in 1 .. c : Nth(K, k) = t
    BY <1>3, NthAll DEF c
  <2>2. k \in 1 .. n /\ k # n
    BY <1>3, <1>4
  <2> QED
    BY <1>7, <2>1, <2>2
<1>13. \A k \in 1 .. n : k # n => At(del)[k] = Nth(K, k) /\ At(del)[k] \in K
  BY <1>5, <1>6, <1>7
<1> QED
  BY <1>1, <1>3, <1>4, <1>7, <1>9, <1>10, <1>11, <1>12, <1>13 DEF K, c

LEMMA GroupIs ==
    ASSUME list \in Seq(Checkpoints), NEW del \in SUBSET (1 .. Len(list)),
           NEW n, n = Groups(del), NEW g, g = Group(del), NEW at, at = At(del)
    PROVE  /\ Grouping(Live, n, g, at)
           /\ \A k \in 1 .. n : \A i \in 1 .. Live :
                i \in MergedInto(del, at[k]) <=> g[i] = k /\ i # at[k]
           /\ \A k \in 1 .. n : MergedInto(del, at[k]) \subseteq 1 .. Len(list)
           /\ \A k \in 1 .. n : at[k] \notin del
<1>1. /\ Live \in Nat \ {0} /\ n \in Nat \ {0}
      /\ at \in [1 .. n -> 1 .. Live] /\ at[n] = Live
      /\ \A k \in 1 .. n : k # n => at[k] \in Kept(del)
      /\ \A k, l \in 1 .. n : k < l => at[k] < at[l]
      /\ \A t \in Kept(del) : \E k \in 1 .. n : k # n /\ at[k] = t
  BY AtIs
<1>2. Len(list) \in Nat /\ Live = Len(list) + 1
  BY DEF Live
<1>3. ASSUME NEW i \in 1 .. Live
      PROVE  g[i] \in 1 .. n /\ i <= at[g[i]] /\ \A k \in 1 .. n : i <= at[k] => g[i] <= k
  <2> DEFINE S == {k \in 1 .. n : i <= at[k]}
  <2>1. n \in 1 .. n /\ i <= Live
    BY <1>1
  <2>2. n \in S /\ S \in SUBSET Nat
    BY <1>1, <2>1
  <2>3. Min(S) \in S /\ \A k \in S : Min(S) =< k
    <3> HIDE DEF S
    <3> QED
      BY <2>2, MinNat
  <2>4. g[i] = Min(S)
    BY DEF Group
  <2> QED
    BY <2>3, <2>4
<1>4. \A k, l \in 1 .. n : k <= l => at[k] <= at[l]
  <2> SUFFICES ASSUME NEW k \in 1 .. n, NEW l \in 1 .. n, k <= l PROVE at[k] <= at[l]
    OBVIOUS
  <2>1. k = l \/ k < l
    OBVIOUS
  <2>2. at[k] \in 1 .. Live /\ at[l] \in 1 .. Live
    BY <1>1
  <2> QED
    BY <1>1, <2>1, <2>2
<1>5. g \in [1 .. Live -> 1 .. n]
  <2>1. g = [i \in 1 .. Live |-> g[i]]
    BY DEF Group
  <2> QED
    BY <1>3, <2>1
<1>6. ASSUME NEW i \in 1 .. Live, NEW k \in 1 .. n PROVE i <= at[k] <=> g[i] <= k
  <2>1. g[i] \in 1 .. n /\ i <= at[g[i]] /\ (i <= at[k] => g[i] <= k)
    BY <1>3
  <2>2. g[i] <= k => at[g[i]] <= at[k]
    BY <1>4, <2>1
  <2>3. at[g[i]] \in Int /\ at[k] \in Int
    BY <1>1, <2>1
  <2> QED
    BY <2>1, <2>2, <2>3
<1>7. ASSUME NEW k \in 1 .. n PROVE g[at[k]] = k
  <2>1. at[k] \in 1 .. Live
    BY <1>1
  <2>2. g[at[k]] \in 1 .. n /\ g[at[k]] <= k /\ at[k] <= at[g[at[k]]]
    BY <1>3, <2>1
  <2>3. ~(g[at[k]] < k)
    <3> SUFFICES ASSUME g[at[k]] < k PROVE FALSE
      OBVIOUS
    <3>1. at[g[at[k]]] < at[k] /\ at[g[at[k]]] \in 1 .. Live
      BY <1>1, <2>2
    <3> QED
      BY <2>1, <2>2, <3>1
  <2> QED
    BY <2>2, <2>3
<1>8. Grouping(Live, n, g, at)
  BY <1>1, <1>5, <1>6, <1>7 DEF Grouping
<1>9. ASSUME NEW k \in 1 .. n PROVE at[k] \notin del
  <2>1. CASE k = n
    BY <1>1, <1>2, <2>1
  <2>2. CASE k # n
    BY <1>1, <2>2 DEF Kept
  <2> QED
    BY <2>1, <2>2
<1>10. ASSUME NEW k \in 1 .. n, NEW i \in 1 .. Live, g[i] = k, i # at[k]
       PROVE  i \in MergedInto(del, at[k])
  <2>1. at[k] \in 1 .. Live /\ i <= at[k]
    BY <1>1, <1>3, <1>10
  <2>2. i < at[k]
    BY <1>10, <2>1
  <2>3. ASSUME NEW j \in i .. (at[k] - 1), j \notin del PROVE FALSE
    <3>1. j \in 1 .. Len(list) /\ j \in 1 .. Live /\ j < at[k] /\ i <= j
      BY <1>2, <2>1
    <3>2. j \in Kept(del)
      BY <2>3, <3>1 DEF Kept
    <3>3. PICK l \in 1 .. n : at[l] = j
      BY <1>1, <3>2
    <3>4. k <= l
      BY <1>6, <1>10, <3>1, <3>3
    <3>5. at[k] <= at[l]
      BY <1>4, <3>4
    <3> QED
      BY <2>1, <3>1, <3>3, <3>5
  <2>4. i \in i .. (at[k] - 1)
    BY <2>1, <2>2
  <2>5. i \in del
    BY <2>3, <2>4
  <2> QED
    BY <2>2, <2>3, <2>5 DEF MergedInto
<1>11. ASSUME NEW k \in 1 .. n, NEW i \in MergedInto(del, at[k])
       PROVE  i \in 1 .. Len(list) /\ i # at[k] /\ (i \in 1 .. Live => g[i] = k)
  <2>1. i \in del /\ i < at[k] /\ i .. (at[k] - 1) \subseteq del
    BY DEF MergedInto
  <2>2. i \in 1 .. Len(list) /\ i \in 1 .. Live /\ at[k] \in 1 .. Live
    BY <1>1, <1>2, <2>1
  <2>3. g[i] \in 1 .. n /\ g[i] <= k /\ i <= at[g[i]]
    BY <1>3, <2>1, <2>2
  <2>4. ASSUME g[i] < k PROVE FALSE
    <3>1. at[g[i]] < at[k] /\ at[g[i]] \in 1 .. Live
      BY <1>1, <2>3, <2>4
    <3>2. at[g[i]] \in i .. (at[k] - 1)
      BY <2>2, <2>3, <3>1
    <3> QED
      BY <1>9, <2>1, <2>3, <3>2
  <2>5. g[i] = k
    BY <2>3, <2>4
  <2> QED
    BY <2>1, <2>2, <2>5
<1>12. \A k \in 1 .. n : \A i \in 1 .. Live :
         i \in MergedInto(del, at[k]) <=> g[i] = k /\ i # at[k]
  BY <1>10, <1>11
<1>13. \A k \in 1 .. n : MergedInto(del, at[k]) \subseteq 1 .. Len(list)
  BY <1>11
<1> QED
  BY <1>8, <1>9, <1>12, <1>13

-----------------------------------------------------------------------------
(* The lists after the merge. *)

\* The epochs that __ckpt_process starts from, and their groups.
Merging(del, n, g, at, A, D, R, I, E) ==
    /\ list \in Seq(Checkpoints) /\ live \in LiveTypes /\ del \in SUBSET (1 .. Len(list))
    /\ n = Groups(del) /\ g = Group(del) /\ at = At(del)
    /\ A = AllocIn(list, Running) /\ D = DiscardIn(list, Running)
    /\ R = RootIn(list, Running) /\ I = ImageIn(list, Running) /\ E = AtsIn(list)
    /\ Chain(Live, A, D, R, I) /\ Space(Live, A, E, live.avail, {}, size)

LEMMA MergingIs ==
    ASSUME NEW del, NEW n, NEW g, NEW at, NEW A, NEW D, NEW R, NEW I, NEW E,
           Merging(del, n, g, at, A, D, R, I, E)
    PROVE  /\ Live \in Nat \ {0} /\ Live \in 1 .. Live
           /\ \A i \in 1 .. Live : i = Live \/ i \in 1 .. Len(list)
           /\ \A i \in 1 .. Len(list) : i \in 1 .. Live /\ i # Live /\ list[i] \in Checkpoints
           /\ A[Live] = live.alloc /\ D[Live] = live.discard /\ R[Live] = root.block
           /\ I[Live] = BlocksOf(addr) \cup BlocksOf(old) /\ E[Live] = {}
           /\ \A i \in 1 .. Len(list) :
                /\ A[i] = list[i].alloc /\ D[i] = list[i].discard
                /\ R[i] = list[i].root.block /\ I[i] = list[i].root.image
                /\ E[i] = Ats(list[i])
           /\ Grouping(Live, n, g, at)
           /\ \A k \in 1 .. n : /\ at[k] \in 1 .. Live /\ at[k] \notin del
                                /\ MergedInto(del, at[k]) \subseteq 1 .. Len(list)
           /\ \A k \in 1 .. n : \A i \in 1 .. Live :
                i \in MergedInto(del, at[k]) <=> g[i] = k /\ i # at[k]
<1>1. /\ list \in Seq(Checkpoints) /\ live \in LiveTypes /\ del \in SUBSET (1 .. Len(list))
      /\ n = Groups(del) /\ g = Group(del) /\ at = At(del)
      /\ A = AllocIn(list, Running) /\ D = DiscardIn(list, Running)
      /\ R = RootIn(list, Running) /\ I = ImageIn(list, Running) /\ E = AtsIn(list)
  BY DEF Merging
<1>2. ChainType(Live, A, D, R, I)
  BY Zenon DEF Merging, Chain
<1>3. Live \in Nat \ {0} /\ Live \in 1 .. Live /\ Live = Len(list) + 1
  BY <1>1 DEF Live
<1>4. /\ A[Live] = Running.alloc /\ D[Live] = Running.discard /\ R[Live] = Running.root
      /\ I[Live] = Running.image /\ E[Live] = {}
  BY <1>1, <1>3 DEF AllocIn, DiscardIn, RootIn, ImageIn, AtsIn
<1>5. /\ Running.alloc \in SUBSET Blocks /\ Running.discard \in SUBSET Blocks
      /\ Running.root \in Address /\ Running.image \in SUBSET Blocks
  BY <1>2, <1>3, <1>4 DEF ChainType
<1>6. /\ \A i \in 1 .. Live : i = Live \/ i \in 1 .. Len(list)
      /\ \A i \in 1 .. Len(list) : i \in 1 .. Live /\ i # Live
      /\ \A i \in 1 .. Len(list) :
           /\ A[i] = list[i].alloc /\ D[i] = list[i].discard
           /\ R[i] = list[i].root.block /\ I[i] = list[i].root.image
  BY <1>1, <1>3, <1>5, Epochs
<1>7. \A i \in 1 .. Len(list) : E[i] = Ats(list[i])
  BY <1>1, <1>3, <1>6 DEF AtsIn
<1>8. \A i \in 1 .. Len(list) : list[i] \in Checkpoints
  BY <1>1
<1>9. /\ Grouping(Live, n, g, at)
      /\ \A k \in 1 .. n : \A i \in 1 .. Live :
           i \in MergedInto(del, at[k]) <=> g[i] = k /\ i # at[k]
      /\ \A k \in 1 .. n : MergedInto(del, at[k]) \subseteq 1 .. Len(list)
      /\ \A k \in 1 .. n : at[k] \notin del
  BY <1>1, GroupIs
<1>10. \A k \in 1 .. n : at[k] \in 1 .. Live
  BY <1>9 DEF Grouping
<1> QED
  BY <1>3, <1>4, <1>6, <1>7, <1>8, <1>9, <1>10, RunningIs

\* What the merge puts on the lists, and takes off them.
LEMMA MergedIs ==
    ASSUME NEW del, NEW n, NEW g, NEW at, NEW A, NEW D, NEW R, NEW I, NEW E,
           Merging(del, n, g, at, A, D, R, I, E), NEW k \in 1 .. n
    PROVE  /\ MergedAlloc(del, at[k]) \subseteq Blocks
           /\ MergedDiscard(del, at[k]) \subseteq Blocks
           /\ \A b \in Blocks :
                /\ b \in MergedAlloc(del, at[k]) <=> InAlloc(Live, A, g, k, b)
                /\ b \in MergedDiscard(del, at[k]) <=> InDiscard(Live, D, R, g, at, k, b)
                /\ b \in Overlap(del, at[k])
                     <=> b \in MergedAlloc(del, at[k]) /\ b \in MergedDiscard(del, at[k])
           /\ Overlap(del, at[k]) \subseteq Blocks
<1> DEFINE M == MergedInto(del, at[k])
<1>1. /\ Live \in Nat \ {0} /\ Live \in 1 .. Live
      /\ \A i \in 1 .. Live : i = Live \/ i \in 1 .. Len(list)
      /\ \A i \in 1 .. Len(list) : i \in 1 .. Live /\ i # Live /\ list[i] \in Checkpoints
      /\ A[Live] = live.alloc /\ D[Live] = live.discard
      /\ \A i \in 1 .. Len(list) :
           /\ A[i] = list[i].alloc /\ D[i] = list[i].discard /\ R[i] = list[i].root.block
      /\ Grouping(Live, n, g, at)
      /\ at[k] \in 1 .. Live /\ M \subseteq 1 .. Len(list)
      /\ \A i \in 1 .. Live : i \in M <=> g[i] = k /\ i # at[k]
  BY MergingIs
<1>2. Chain(Live, A, D, R, I)
  BY Zenon DEF Merging
<1>3. \A i \in 1 .. Live : A[i] \subseteq Blocks /\ D[i] \subseteq Blocks /\ R[i] \in Address
  BY <1>2 DEF Chain, ChainType
<1>4. g[at[k]] = k
  BY <1>1 DEF Grouping
<1>5. \A b : b \in MergedAlloc(del, at[k]) <=> b \in A[at[k]] \/ \E i \in M : b \in A[i]
  <2>1. A[at[k]] = IF at[k] = Live THEN live.alloc ELSE list[at[k]].alloc
    BY <1>1
  <2>2. \A b : b \in MergedAlloc(del, at[k])
                 <=> b \in A[at[k]] \/ \E i \in M : b \in list[i].alloc
    BY <2>1 DEF MergedAlloc
  <2> QED
    BY <1>1, <2>2
<1>6. \A b : b \in MergedDiscard(del, at[k])
               <=> b \in D[at[k]] \/ \E i \in M : b \in D[i] \/ (b = R[i] /\ b # 0)
  <2>1. D[at[k]] = IF at[k] = Live THEN live.discard ELSE list[at[k]].discard
    BY <1>1
  <2>2. \A b : b \in MergedDiscard(del, at[k])
                 <=> \/ b \in D[at[k]]
                     \/ \E i \in M : b \in list[i].discard \cup Block(list[i].root.block)
    BY <2>1 DEF MergedDiscard
  <2>3. \A b : \A i \in M : b \in list[i].discard \cup Block(list[i].root.block)
                              <=> b \in D[i] \/ (b = R[i] /\ b # 0)
    BY <1>1 DEF Block
  <2> QED
    BY <2>2, <2>3
<1> HIDE DEF M
<1>7. MergedAlloc(del, at[k]) \subseteq Blocks
  BY <1>1, <1>3, <1>5
<1>8. MergedDiscard(del, at[k]) \subseteq Blocks
  BY <1>1, <1>3, <1>6, AddressIs
<1>9. ASSUME NEW b \in Blocks
      PROVE  b \in MergedAlloc(del, at[k]) <=> InAlloc(Live, A, g, k, b)
  <2>1. InAlloc(Live, A, g, k, b) <=> \E i \in 1 .. Live : g[i] = k /\ b \in A[i]
    BY DEF InAlloc
  <2>2. (\E i \in 1 .. Live : g[i] = k /\ b \in A[i])
          <=> b \in A[at[k]] \/ \E i \in M : b \in A[i]
    BY <1>1, <1>4
  <2> QED
    BY <1>5, <2>1, <2>2
<1>10. ASSUME NEW b \in Blocks
       PROVE  b \in MergedDiscard(del, at[k]) <=> InDiscard(Live, D, R, g, at, k, b)
  <2>1. InDiscard(Live, D, R, g, at, k, b)
          <=> \E i \in 1 .. Live : g[i] = k /\ (b \in D[i] \/ (b = R[i] /\ i # at[k]))
    BY DEF InDiscard
  <2>2. b # 0
    BY AddressIs
  <2>3. (\E i \in 1 .. Live : g[i] = k /\ (b \in D[i] \/ (b = R[i] /\ i # at[k])))
          <=> b \in D[at[k]] \/ \E i \in M : b \in D[i] \/ (b = R[i] /\ b # 0)
    BY <1>1, <1>4, <2>2
  <2> QED
    BY <1>6, <2>1, <2>3
<1>11. CASE M # {}
  <2>1. Overlap(del, at[k]) = MergedAlloc(del, at[k]) \cap MergedDiscard(del, at[k])
    BY <1>11 DEF Overlap, M
  <2> QED
    BY <1>7, <1>8, <1>9, <1>10, <2>1
<1>12. CASE M = {}
  <2>1. Overlap(del, at[k]) = {}
    BY <1>12 DEF Overlap, M
  <2>2. ASSUME NEW b \in Blocks, b \in MergedAlloc(del, at[k]), b \in MergedDiscard(del, at[k])
        PROVE  FALSE
    <3>1. b \in A[at[k]] /\ b \in D[at[k]]
      BY <1>5, <1>6, <1>12, <2>2
    <3>2. PICK j \in 1 .. Live : j < at[k] /\ b \in A[j]
      BY <1>1, <1>2, <3>1 DEF Chain, DiscardLater
    <3>3. j = at[k]
      BY <1>1, <1>2, <3>1, <3>2 DEF Chain, AllocOnce
    <3> QED
      BY <1>1, <3>2, <3>3
  <2> QED
    BY <1>7, <1>8, <1>9, <1>10, <2>1, <2>2
<1> QED
  BY <1>11, <1>12

LEMMA ListsAre ==
    ASSUME NEW del, NEW n, NEW g, NEW at, NEW A, NEW D, NEW R, NEW I, NEW E,
           Merging(del, n, g, at, A, D, R, I, E), NEW k \in 1 .. n
    PROVE  /\ Alloc(del, at[k]) \subseteq Blocks /\ Discard(del, at[k]) \subseteq Blocks
           /\ \A b \in Blocks :
                /\ b \in Alloc(del, at[k]) <=>
                     InAlloc(Live, A, g, k, b) /\ ~InDiscard(Live, D, R, g, at, k, b)
                /\ b \in Discard(del, at[k]) <=>
                     InDiscard(Live, D, R, g, at, k, b) /\ ~InAlloc(Live, A, g, k, b)
                /\ b \in Overlap(del, at[k]) <=>
                     InAlloc(Live, A, g, k, b) /\ InDiscard(Live, D, R, g, at, k, b)
           /\ Overlap(del, at[k]) \subseteq Blocks
<1>1. /\ MergedAlloc(del, at[k]) \subseteq Blocks
      /\ MergedDiscard(del, at[k]) \subseteq Blocks
      /\ \A b \in Blocks :
           /\ b \in MergedAlloc(del, at[k]) <=> InAlloc(Live, A, g, k, b)
           /\ b \in MergedDiscard(del, at[k]) <=> InDiscard(Live, D, R, g, at, k, b)
           /\ b \in Overlap(del, at[k])
                <=> b \in MergedAlloc(del, at[k]) /\ b \in MergedDiscard(del, at[k])
      /\ Overlap(del, at[k]) \subseteq Blocks
  BY MergedIs
<1>2. /\ Alloc(del, at[k]) = MergedAlloc(del, at[k]) \ Overlap(del, at[k])
      /\ Discard(del, at[k]) = MergedDiscard(del, at[k]) \ Overlap(del, at[k])
  BY DEF Alloc, Discard
<1> QED
  BY <1>1, <1>2

-----------------------------------------------------------------------------
(* The new checkpoint and the blocks of its lists. *)

\* Each rewritten list is in a block of its own.
LEMMA RewrittenIs ==
    ASSUME list \in Seq(Checkpoints), NEW del \in SUBSET (1 .. Len(list)),
           size \in Nat, live.avail \in SUBSET (1 .. size),
           NEW n1, n1 = Cardinality(Rewritten(del))
    PROVE  /\ n1 \in Nat
           /\ \A j \in Rewritten(del) :
                j \in Nat /\ RewrittenAt(del, j) \in Took(live.avail, size, n1)
                          /\ RewrittenAt(del, j) # 0
           /\ \A j : j \notin Rewritten(del) => RewrittenAt(del, j) = 0
           /\ \A i, j \in Rewritten(del) : RewrittenAt(del, i) = RewrittenAt(del, j) => i = j
           /\ \A b \in Took(live.avail, size, n1) :
                \E j \in Rewritten(del) : RewrittenAt(del, j) = b
<1> DEFINE W == Rewritten(del)
<1>1. Len(list) \in Nat
  OBVIOUS
<1>2. Updated(del) \subseteq 1 .. Len(list)
  BY DEF Updated, Kept
<1>3. W \in SUBSET (1 .. 2 * Len(list) + 1)
  <2> SUFFICES ASSUME NEW j \in W PROVE j \in 1 .. 2 * Len(list) + 1
    OBVIOUS
  <2>1. PICK t \in Updated(del) : j = 2 * t \/ j = 2 * t + 1
    BY DEF Rewritten
  <2>2. t \in 1 .. Len(list)
    BY <1>2
  <2> QED
    BY <1>1, <2>1, <2>2
<1>4. IsFiniteSet(W) /\ n1 \in Nat /\ W \in SUBSET Nat
  <2>1. 2 * Len(list) + 1 \in Nat
    BY <1>1
  <2> HIDE DEF W
  <2>2. IsFiniteSet(W) /\ Cardinality(W) \in Nat /\ W \in SUBSET Nat
    BY <1>3, <2>1, InFile
  <2> QED
    BY <2>2 DEF W
<1>5. n1 = Cardinality(W)
  OBVIOUS
<1>6. \A j \in W : RewrittenAt(del, j) = NthBlock(live.avail, size, Rank(W, j))
  BY DEF RewrittenAt, Rank
<1>7. \A j : j \notin W => RewrittenAt(del, j) = 0
  BY DEF RewrittenAt
<1> HIDE DEF W
<1>8. \A j \in W : Rank(W, j) \in 1 .. n1
  BY <1>4, <1>5, RankIs
<1>9. ASSUME NEW j \in W
      PROVE  j \in Nat /\ RewrittenAt(del, j) \in Took(live.avail, size, n1)
                       /\ RewrittenAt(del, j) # 0
  <2>1. PICK r \in 1 .. n1 : r = Rank(W, j)
    BY <1>8
  <2>2. RewrittenAt(del, j) = NthBlock(live.avail, size, r)
    BY <1>6, <2>1
  <2>3. NthBlock(live.avail, size, r) \in 1 .. SizeAfter(live.avail, size, n1)
    BY <1>4, TakenIs
  <2> QED
    BY <1>4, <2>2, <2>3 DEF Took
<1>10. ASSUME NEW i \in W, NEW j \in W, RewrittenAt(del, i) = RewrittenAt(del, j) PROVE i = j
  <2>1. PICK r \in 1 .. n1, s \in 1 .. n1 : r = Rank(W, i) /\ s = Rank(W, j)
    BY <1>8
  <2>2. NthBlock(live.avail, size, r) = NthBlock(live.avail, size, s)
    BY <1>6, <1>10, <2>1
  <2>3. r = s
    BY <1>4, <2>2, TakenOnce
  <2>4. i \in Nat /\ j \in Nat /\ r \in Nat
    BY <1>4
  <2>5. ~(i < j)
    <3> SUFFICES ASSUME i < j PROVE FALSE
      OBVIOUS
    <3>1. Rank(W, i) < Rank(W, j)
      BY <1>4, RankGrows
    <3> QED
      BY <2>1, <2>3, <2>4, <3>1
  <2>6. ~(j < i)
    <3> SUFFICES ASSUME j < i PROVE FALSE
      OBVIOUS
    <3>1. Rank(W, j) < Rank(W, i)
      BY <1>4, RankGrows
    <3> QED
      BY <2>1, <2>3, <2>4, <3>1
  <2> QED
    BY <2>4, <2>5, <2>6
<1>11. ASSUME NEW b \in Took(live.avail, size, n1) PROVE \E j \in W : RewrittenAt(del, j) = b
  <2>1. PICK r \in 1 .. n1 : b = NthBlock(live.avail, size, r)
    BY DEF Took
  <2>2. PICK j \in W : Rank(W, j) = r
    BY <1>4, <1>5, RankAll
  <2> QED
    BY <1>6, <2>1, <2>2
<1> QED
  BY <1>4, <1>7, <1>9, <1>10, <1>11 DEF W

\* So are the lists of the new checkpoint; the avail list is the last one.
NewLists(avail, end, alloc, discard, allocAt, m, discardAt, availAt) ==
    /\ end \in Nat /\ avail \in SUBSET (1 .. end)
    /\ allocAt = IF alloc = {} THEN 0 ELSE NthBlock(avail, end, 1)
    /\ m = Cardinality(Block(allocAt)) + (IF discard = {} THEN 0 ELSE 1)
    /\ discardAt = IF discard = {} THEN 0 ELSE NthBlock(avail, end, m)
    /\ availAt = NthBlock(avail, end, m + 1)
LEMMA NewListsAt ==
    ASSUME NEW avail, NEW end, NEW alloc, NEW discard, NEW allocAt, NEW m, NEW discardAt,
           NEW availAt, NewLists(avail, end, alloc, discard, allocAt, m, discardAt, availAt)
    PROVE  /\ m \in Nat /\ allocAt \in Nat /\ discardAt \in Nat /\ availAt \in Nat /\ availAt # 0
           /\ {allocAt, discardAt, availAt} \ {0} = Took(avail, end, m + 1)
           /\ allocAt # 0 => allocAt # discardAt /\ allocAt # availAt
           /\ discardAt # availAt
           /\ Took(avail, end, m + 1) = Took(avail, end, m) \cup {availAt}
<1> DEFINE N(i) == NthBlock(avail, end, i)
<1>1. end \in Nat /\ avail \in SUBSET (1 .. end)
  BY DEF NewLists
<1>2. \A i \in Nat : i # 0 => N(i) \in Nat /\ N(i) # 0
  <2> SUFFICES ASSUME NEW i \in Nat, i # 0 PROVE N(i) \in Nat /\ N(i) # 0
    OBVIOUS
  <2>1. i \in 1 .. i
    OBVIOUS
  <2>2. N(i) \in 1 .. SizeAfter(avail, end, i)
    BY <1>1, <2>1, TakenIs
  <2>3. SizeAfter(avail, end, i) \in Nat
    BY <1>1, TookIs
  <2> QED
    BY <2>2, <2>3
<1>3. N(1) # N(2) /\ N(1) # N(3) /\ N(2) # N(3)
  <2>1. \A i, j \in Nat : 0 < i /\ i < j => N(i) \in Nat /\ N(j) \in Nat /\ N(i) < N(j)
    BY <1>1, TakenGrows
  <2>2. N(1) < N(2) /\ N(2) < N(3) /\ N(1) \in Nat /\ N(2) \in Nat /\ N(3) \in Nat
    BY <2>1
  <2> HIDE DEF N
  <2> QED
    BY <2>2
<1>4. /\ Took(avail, end, 0) = {} /\ Took(avail, end, 1) = {N(1)}
      /\ Took(avail, end, 2) = {N(1), N(2)} /\ Took(avail, end, 3) = {N(1), N(2), N(3)}
  <2>1. 1 .. 0 = {} /\ 1 .. 1 = {1} /\ 1 .. 2 = {1, 2} /\ 1 .. 3 = {1, 2, 3}
    OBVIOUS
  <2> QED
    BY <2>1 DEF Took
<1>5. /\ allocAt = IF alloc = {} THEN 0 ELSE N(1)
      /\ m = Cardinality(Block(allocAt)) + (IF discard = {} THEN 0 ELSE 1)
      /\ discardAt = IF discard = {} THEN 0 ELSE N(m)
      /\ availAt = N(m + 1)
  BY DEF NewLists
<1>6. Cardinality(Block(allocAt)) = IF alloc = {} THEN 0 ELSE 1
  <2>1. CASE alloc = {}
    <3>1. Block(allocAt) = {}
      BY <1>5, <2>1 DEF Block
    <3> QED
      BY <2>1, <3>1, FS_EmptySet
  <2>2. CASE alloc # {}
    <3>1. Block(allocAt) = {N(1)}
      BY <1>2, <1>5, <2>2 DEF Block
    <3>2. Cardinality({N(1)}) = 1
      BY FS_Singleton
    <3> QED
      BY <2>2, <3>1, <3>2
  <2> QED
    BY <2>1, <2>2
<1> HIDE DEF N
<1>7. CASE alloc = {} /\ discard = {}
  <2>1. m = 0 /\ allocAt = 0 /\ discardAt = 0 /\ availAt = N(1)
    BY <1>5, <1>6, <1>7
  <2> QED
    BY <1>2, <1>4, <2>1
<1>8. CASE alloc = {} /\ discard # {}
  <2>1. m = 1 /\ allocAt = 0 /\ discardAt = N(1) /\ availAt = N(2)
    BY <1>5, <1>6, <1>8
  <2> QED
    BY <1>2, <1>3, <1>4, <2>1
<1>9. CASE alloc # {} /\ discard = {}
  <2>1. m = 1 /\ allocAt = N(1) /\ discardAt = 0 /\ availAt = N(2)
    BY <1>5, <1>6, <1>9
  <2> QED
    BY <1>2, <1>3, <1>4, <2>1
<1>10. CASE alloc # {} /\ discard # {}
  <2>1. m = 2 /\ allocAt = N(1) /\ discardAt = N(2) /\ availAt = N(3)
    BY <1>5, <1>6, <1>10
  <2> QED
    BY <1>2, <1>3, <1>4, <2>1
<1> QED
  BY <1>7, <1>8, <1>9, <1>10

LEMMA AppendIs ==
    ASSUME NEW S, NEW c \in Nat, NEW f \in [1 .. c -> S], NEW x \in S
    PROVE  /\ f \o <<x>> \in Seq(S) /\ Len(f \o <<x>>) = c + 1
           /\ \A k \in 1 .. c + 1 : (f \o <<x>>)[k] = IF k = c + 1 THEN x ELSE f[k]
<1>1. f \in Seq(S) /\ Len(f) = c
  OBVIOUS
<1> QED
  BY <1>1

\* The new epochs of a list, and a live system that has no block yet.
LEMMA WholeNew ==
    ASSUME NEW lst \in Seq(Checkpoints), NEW n \in Nat \ {0}, n = Len(lst),
           NEW A, NEW D, NEW R, NEW I, NEW E, Chain(n, A, D, R, I),
           \A k \in 1 .. n : /\ lst[k].alloc = A[k] /\ lst[k].discard = D[k]
                             /\ lst[k].root.block = R[k] /\ lst[k].root.image = I[k]
                             /\ Ats(lst[k]) = E[k] /\ AtsDistinct(lst[k]),
           NEW av, NEW ck, NEW sz, Space(n, A, E, av, ck, sz),
           NEW w, w.alloc = {}, w.discard = {}, w.root = 0, w.image = lst[n].root.image
    PROVE  Whole(lst, w, av, ck, sz)
<1> DEFINE m == Len(lst) + 1
           A2 == AllocIn(lst, w)
           D2 == DiscardIn(lst, w)
           R2 == RootIn(lst, w)
           I2 == ImageIn(lst, w)
           E2 == AtsIn(lst)
<1>1. n \in 1 .. n /\ m = n + 1
  OBVIOUS
<1>2. w.image = I[n] /\ I[n] \in SUBSET Blocks
  BY <1>1 DEF Chain, ChainType
<1>3. /\ w.alloc \in SUBSET Blocks /\ w.discard \in SUBSET Blocks /\ w.root \in Address
      /\ w.image \in SUBSET Blocks
  BY <1>2, AddressIs
<1>4. /\ A2 \in [1 .. m -> SUBSET Blocks] /\ A2[m] = {}
      /\ D2 \in [1 .. m -> SUBSET Blocks] /\ D2[m] = {}
      /\ R2 \in [1 .. m -> Address] /\ R2[m] = 0
      /\ I2 \in [1 .. m -> SUBSET Blocks] /\ I2[m] = I[n]
      /\ \A k \in 1 .. n : A2[k] = A[k] /\ D2[k] = D[k] /\ R2[k] = R[k] /\ I2[k] = I[k]
  BY <1>2, <1>3, Epochs
<1>5. E2[m] = {} /\ \A k \in 1 .. n : E2[k] = E[k]
  BY <1>1 DEF AtsIn
<1> HIDE DEF m, A2, D2, R2, I2, E2
<1>a. /\ A2 \in [1 .. n + 1 -> SUBSET Blocks] /\ A2[n + 1] = {}
      /\ D2 \in [1 .. n + 1 -> SUBSET Blocks] /\ D2[n + 1] = {}
      /\ R2 \in [1 .. n + 1 -> Address] /\ R2[n + 1] = 0
      /\ I2 \in [1 .. n + 1 -> SUBSET Blocks] /\ I2[n + 1] = I[n]
      /\ E2[n + 1] = {}
  BY <1>1, <1>4, <1>5
<1>6. Chain(n + 1, A2, D2, R2, I2)
  <2>1. Extended(n, A, D, R, I, A2, D2, R2, I2)
    BY <1>4, <1>a DEF Extended
  <2> QED
    BY <2>1, ChainNew
<1>7. Space(n + 1, A2, E2, av, ck, sz)
  <2>1. SpaceExtended(n, A, E, A2, E2)
    BY <1>4, <1>5, <1>a DEF SpaceExtended
  <2> QED
    BY <2>1, SpaceNew
<1> QED
  BY <1>1, <1>6, <1>7, Zenon DEF Whole, m, A2, D2, R2, I2, E2

-----------------------------------------------------------------------------
(* __ckpt_process. *)

\* What it writes: n1 lists again, then the m lists and the avail list of the new
\* checkpoint, whose blocks come from avail, in a file cut at end.
Written(del, n1, avail, end, m, allocAt, discardAt, availAt, took, new) ==
    /\ n1 = Cardinality(Rewritten(del))
    /\ Laid(live.avail, size, n1, m + 1, took, avail, end)
    /\ NewLists(avail, end, Alloc(del, Live), Discard(del, Live), allocAt, m, discardAt, availAt)
    /\ new.root = root /\ new.alloc = Alloc(del, Live) /\ new.discard = Discard(del, Live)
    /\ new.avail = AvailAfter(avail, end, m) \cup CkptAvail(del)
    /\ new.allocAt = allocAt /\ new.discardAt = discardAt /\ new.availAt = availAt
    /\ new.size = SizeAfter(avail, end, m + 1) /\ new.size <= MaxBlock
    /\ new.bytes \in Int /\ new.addr = addr
    /\ new = [root |-> new.root, alloc |-> new.alloc, discard |-> new.discard,
              avail |-> new.avail, allocAt |-> new.allocAt, discardAt |-> new.discardAt,
              availAt |-> new.availAt, size |-> new.size, bytes |-> new.bytes,
              addr |-> new.addr]

LEMMA CountIs ==
    ASSUME NEW S \in SUBSET Blocks
    PROVE  IsFiniteSet(S) /\ Cardinality(S) \in Nat
  BY BlockAssumption, InFile DEF Blocks

LEMMA WriteListsIs ==
    ASSUME size \in Nat, live.avail \in SUBSET (1 .. size), live \in LiveTypes,
           root.block \in Address, NEW del \in SUBSET (1 .. Len(list)),
           list \in Seq(Checkpoints), WriteLists(del)
    PROVE  \E n1, avail, end, m, allocAt, discardAt, availAt, took, new :
             /\ Written(del, n1, avail, end, m, allocAt, discardAt, availAt, took, new)
             /\ list' = [i \in 1 .. Cardinality(Kept(del)) |-> Rewrite(del, Nth(Kept(del), i))]
                          \o <<new>>
             /\ live'.alloc = {} /\ live'.discard = {} /\ live'.ckptAvail = CkptAvail(del)
             /\ live'.avail = AvailAfter(avail, end, m + 1) /\ size' = new.size
             /\ live'.bytes \in Int
             /\ new.bytes = live.bytes + Cardinality(live.alloc) - Cardinality(live.discard)
             /\ live'.bytes = RollingSize(new.bytes, end)
             /\ live' = [alloc |-> {}, avail |-> live'.avail, discard |-> {},
                         ckptAvail |-> CkptAvail(del), bytes |-> live'.bytes]
             /\ unsynced' = (unsynced \cup {RewrittenAt(del, k) : k \in Rewritten(del)}
                               \cup Block(allocAt) \cup Block(discardAt) \cup {availAt})
<1> DEFINE n1 == Cardinality(Rewritten(del))
           rest == AvailAfter(live.avail, size, n1)
           end == CutAt(rest, SizeAfter(live.avail, size, n1))
           avail == rest \cap (1 .. end)
           alloc == Alloc(del, Live)
           discard == Discard(del, Live)
           allocAt == IF alloc = {} THEN 0 ELSE NthBlock(avail, end, 1)
           m == Cardinality(Block(allocAt)) + (IF discard = {} THEN 0 ELSE 1)
           discardAt == IF discard = {} THEN 0 ELSE NthBlock(avail, end, m)
           availAt == NthBlock(avail, end, m + 1)
           bytes == live.bytes + Cardinality(live.alloc) - Cardinality(live.discard)
           new == [root |-> root, alloc |-> alloc, discard |-> discard,
                   avail |-> AvailAfter(avail, end, m) \cup CkptAvail(del),
                   allocAt |-> allocAt, discardAt |-> discardAt, availAt |-> availAt,
                   size |-> SizeAfter(avail, end, m + 1), bytes |-> bytes, addr |-> addr]
           took == Took(live.avail, size, n1) \cup Took(avail, end, m + 1)
<1>12. /\ new.size <= MaxBlock
       /\ list' = [i \in 1 .. Cardinality(Kept(del)) |-> Rewrite(del, Nth(Kept(del), i))]
                    \o <<new>>
       /\ live' = [alloc |-> {}, avail |-> AvailAfter(avail, end, m + 1), discard |-> {},
                   ckptAvail |-> CkptAvail(del), bytes |-> RollingSize(bytes, end)]
       /\ size' = new.size
       /\ unsynced' = (unsynced \cup {RewrittenAt(del, k) : k \in Rewritten(del)}
                         \cup Block(allocAt) \cup Block(discardAt) \cup {availAt})
  BY DEF WriteLists
<1>1. n1 = Cardinality(Rewritten(del))
  OBVIOUS
<1> HIDE DEF n1
<1>2. rest = AvailAfter(live.avail, size, n1)
  OBVIOUS
<1> HIDE DEF rest
<1>3. end = CutAt(rest, SizeAfter(live.avail, size, n1))
  OBVIOUS
<1> HIDE DEF end
<1>4. avail = rest \cap (1 .. end)
  OBVIOUS
<1> HIDE DEF avail
<1>5. alloc = Alloc(del, Live) /\ discard = Discard(del, Live)
  OBVIOUS
<1> HIDE DEF alloc, discard
<1>6. allocAt = IF alloc = {} THEN 0 ELSE NthBlock(avail, end, 1)
  OBVIOUS
<1> HIDE DEF allocAt
<1>7. m = Cardinality(Block(allocAt)) + (IF discard = {} THEN 0 ELSE 1)
  OBVIOUS
<1> HIDE DEF m
<1>8. discardAt = IF discard = {} THEN 0 ELSE NthBlock(avail, end, m)
  OBVIOUS
<1> HIDE DEF discardAt
<1>9. availAt = NthBlock(avail, end, m + 1)
  OBVIOUS
<1> HIDE DEF availAt
<1>10. bytes = live.bytes + Cardinality(live.alloc) - Cardinality(live.discard)
  OBVIOUS
<1> HIDE DEF bytes
<1>11. new = [root |-> root, alloc |-> alloc, discard |-> discard,
              avail |-> AvailAfter(avail, end, m) \cup CkptAvail(del),
              allocAt |-> allocAt, discardAt |-> discardAt, availAt |-> availAt,
              size |-> SizeAfter(avail, end, m + 1), bytes |-> bytes, addr |-> addr]
  OBVIOUS
<1> HIDE DEF new
<1>19. took = Took(live.avail, size, n1) \cup Took(avail, end, m + 1)
  OBVIOUS
<1> HIDE DEF took
<1>13. n1 \in Nat
  BY <1>1, RewrittenIs
<1>14. bytes \in Int
  <2>1. live.alloc \in SUBSET Blocks /\ live.discard \in SUBSET Blocks /\ live.bytes \in Int
    BY DEF LiveTypes
  <2>2. Cardinality(live.alloc) \in Nat /\ Cardinality(live.discard) \in Nat
    BY <2>1, CountIs
  <2> QED
    BY <1>10, <2>1, <2>2
<1>15. SizeAfter(live.avail, size, n1) \in Nat
  BY <1>13, TookIs
<1>16. end \in Nat /\ avail \in SUBSET (1 .. end)
  <2>1. end \in 0 .. SizeAfter(live.avail, size, n1)
    BY <1>3, <1>15, CutAtIs
  <2> QED
    BY <1>4, <1>15, <2>1
<1>17. NewLists(avail, end, alloc, discard, allocAt, m, discardAt, availAt)
  BY <1>6, <1>7, <1>8, <1>9, <1>16 DEF NewLists
<1>18. m \in Nat
  BY <1>17, NewListsAt
<1>20. Laid(live.avail, size, n1, m + 1, took, avail, end)
  BY <1>2, <1>3, <1>4, <1>13, <1>18, <1>19 DEF Laid
<1>21. RollingSize(bytes, end) \in Int
  <2>1. Block(root.block) \in SUBSET Blocks
    BY AddressIs DEF Block
  <2>2. Cardinality(Block(root.block)) \in Nat
    BY <2>1, CountIs
  <2>3. bytes - Cardinality(Block(root.block)) \in Int /\ end \in Int
    BY <1>14, <1>16, <2>2
  <2> QED
    BY <2>3, MinPair DEF RollingSize
<1>22. Written(del, n1, avail, end, m, allocAt, discardAt, availAt, took, new)
  <2>1. /\ new.root = root /\ new.alloc = alloc /\ new.discard = discard
        /\ new.avail = AvailAfter(avail, end, m) \cup CkptAvail(del)
        /\ new.allocAt = allocAt /\ new.discardAt = discardAt /\ new.availAt = availAt
        /\ new.size = SizeAfter(avail, end, m + 1) /\ new.bytes = bytes /\ new.addr = addr
    BY <1>11
  <2>2. new = [root |-> new.root, alloc |-> new.alloc, discard |-> new.discard,
               avail |-> new.avail, allocAt |-> new.allocAt, discardAt |-> new.discardAt,
               availAt |-> new.availAt, size |-> new.size, bytes |-> new.bytes,
               addr |-> new.addr]
    BY <1>11, <2>1
  <2> QED
    BY <1>1, <1>5, <1>12, <1>14, <1>17, <1>20, <2>1, <2>2, Zenon DEF Written
<1>23. /\ live'.alloc = {} /\ live'.discard = {} /\ live'.ckptAvail = CkptAvail(del)
       /\ live'.avail = AvailAfter(avail, end, m + 1) /\ live'.bytes \in Int
       /\ live' = [alloc |-> {}, avail |-> live'.avail, discard |-> {},
                   ckptAvail |-> CkptAvail(del), bytes |-> live'.bytes]
  BY <1>12, <1>21
<1>24. new.bytes = bytes
  BY <1>11
<1>25. /\ new.bytes = live.bytes + Cardinality(live.alloc) - Cardinality(live.discard)
       /\ live'.bytes = RollingSize(new.bytes, end)
  BY <1>10, <1>12, <1>24
<1> QED
  BY <1>12, <1>22, <1>23, <1>25, Zenon

\* Where what is written goes, among the blocks in use before.
InUse == (1 .. size) \ live.avail
LEMMA LaidIs ==
    ASSUME NEW del, NEW n, NEW g, NEW at, NEW A, NEW D, NEW R, NEW I, NEW E,
           Merging(del, n, g, at, A, D, R, I, E),
           NEW n1, NEW avail, NEW end, NEW m, NEW allocAt, NEW discardAt, NEW availAt, NEW took,
           NEW new, Written(del, n1, avail, end, m, allocAt, discardAt, availAt, took, new)
    PROVE  /\ size \in Nat /\ live.avail \in SUBSET (1 .. size)
           /\ new.size \in Address /\ InUse \subseteq 1 .. new.size /\ InUse \subseteq Blocks
           /\ AvailAfter(avail, end, m + 1) \subseteq 1 .. new.size /\ took \subseteq 1 .. new.size
           /\ took \subseteq Blocks /\ AvailAfter(avail, end, m + 1) \subseteq Blocks
           /\ AvailAfter(avail, end, m + 1) \cap InUse = {} /\ AvailAfter(avail, end, m + 1) \cap took = {} /\ took \cap InUse = {}
           /\ \A b \in 1 .. new.size : b \in InUse \/ b \in AvailAfter(avail, end, m + 1) \/ b \in took
           /\ took = Took(live.avail, size, n1) \cup Took(avail, end, m + 1)
           /\ Took(live.avail, size, n1) \cap Took(avail, end, m + 1) = {}
           /\ \A i \in 1 .. Live : A[i] \subseteq InUse /\ E[i] \subseteq InUse
           /\ AvailAfter(avail, end, m) \ {availAt} = AvailAfter(avail, end, m + 1)
           /\ AvailAfter(avail, end, m) \subseteq AvailAfter(avail, end, m + 1) \cup took
<1>0. PICK U, av2 : U = InUse /\ av2 = AvailAfter(avail, end, m + 1)
  OBVIOUS
<1>a. U = (1 .. size) \ live.avail
  BY <1>0 DEF InUse
<1>1. /\ Space(Live, A, E, live.avail, {}, size)
      /\ Laid(live.avail, size, n1, m + 1, took, avail, end)
      /\ NewLists(avail, end, Alloc(del, Live), Discard(del, Live), allocAt, m, discardAt, availAt)
      /\ new.size = SizeAfter(avail, end, m + 1) /\ new.size <= MaxBlock
  BY Zenon DEF Merging, Written
<1>2. /\ size \in Address /\ live.avail \in SUBSET (1 .. size)
      /\ \A i \in 1 .. Live : A[i] \subseteq U /\ E[i] \subseteq U
  BY <1>1, <1>a DEF Space
<1>3. size \in Nat /\ size <= MaxBlock /\ MaxBlock \in Nat
  BY <1>2, BlockAssumption DEF Address
<1>4. /\ new.size \in Nat /\ end \in Nat /\ avail \in SUBSET (1 .. end)
      /\ U \subseteq 1 .. new.size /\ av2 \subseteq 1 .. new.size /\ took \subseteq 1 .. new.size
      /\ av2 \subseteq live.avail /\ av2 \cap took = {}
      /\ \A b \in took : b \in live.avail \/ b > size
      /\ Took(live.avail, size, n1) \cap Took(avail, end, m + 1) = {}
      /\ \A b \in 1 .. new.size : b \in U \/ b \in av2 \/ b \in took
  <2>1. PICK n2 : n2 = m + 1
    OBVIOUS
  <2>2. Laid(live.avail, size, n1, n2, took, avail, end) /\ new.size = SizeAfter(avail, end, n2)
        /\ av2 = AvailAfter(avail, end, n2)
    BY <1>0, <1>1, <2>1
  <2>3. PICK sz, av : sz = size /\ av = live.avail
    OBVIOUS
  <2>4. Laid(av, sz, n1, n2, took, avail, end)
    BY <2>2, <2>3
  <2>5. PICK sz2 : sz2 = new.size
    OBVIOUS
  <2>6. sz2 = SizeAfter(avail, end, n2)
    BY <2>2, <2>5
  <2>7. /\ sz2 \in Nat /\ end \in Nat /\ avail \subseteq 1 .. end /\ avail \subseteq av
        /\ (1 .. sz) \ av \subseteq 1 .. sz2
        /\ av2 \subseteq 1 .. sz2 /\ took \subseteq 1 .. sz2
        /\ av2 \subseteq av /\ av2 \cap took = {}
        /\ \A b \in took : b \in av \/ b > sz
        /\ Took(av, sz, n1) \cap Took(avail, end, n2) = {}
        /\ \A b \in 1 .. sz2 : b \in (1 .. sz) \ av \/ b \in av2 \/ b \in took
    BY <2>2, <2>4, <2>6, Layout
  <2> QED
    BY <1>a, <2>1, <2>3, <2>5, <2>7
<1>5. took = Took(live.avail, size, n1) \cup Took(avail, end, m + 1)
  BY <1>1 DEF Laid
<1>6. took \cap U = {} /\ av2 \cap U = {}
  BY <1>3, <1>4, <1>a
<1>7. new.size \in Address
  BY <1>1, <1>3, <1>4 DEF Address
<1>8. 1 .. new.size \subseteq Blocks
  BY <1>1, <1>3, <1>4 DEF Blocks
<1>9. m \in Nat /\ Took(avail, end, m + 1) = Took(avail, end, m) \cup {availAt}
  BY <1>1, NewListsAt
<1>10. /\ AvailAfter(avail, end, m) = avail \ Took(avail, end, m)
       /\ av2 = avail \ Took(avail, end, m + 1)
  <2>1. m + 1 \in Nat
    BY <1>9
  <2>2. AvailAfter(avail, end, m) = avail \ Took(avail, end, m)
    BY <1>4, <1>9, TookIs
  <2>3. AvailAfter(avail, end, m + 1) = avail \ Took(avail, end, m + 1)
    BY <1>4, <2>1, TookIs
  <2> QED
    BY <1>0, <2>2, <2>3
<1>11. /\ AvailAfter(avail, end, m) \ {availAt} = av2
       /\ AvailAfter(avail, end, m) \subseteq av2 \cup took
  BY <1>5, <1>9, <1>10
<1>12. U \subseteq Blocks /\ took \subseteq Blocks /\ av2 \subseteq Blocks
  BY <1>4, <1>8
<1> QED
  BY <1>0, <1>2, <1>3, <1>4, <1>5, <1>6, <1>7, <1>11, <1>12

\* The extent lists of epoch t that stay where they are, and the blocks of its new ones.
Stay(del, t) ==
    IF t = Live THEN {}
    ELSE IF t \in Updated(del) THEN {list[t].availAt} \ {0} ELSE Ats(list[t])
Fresh(del, t, ats) ==
    IF t = Live THEN ats ELSE {RewrittenAt(del, 2 * t), RewrittenAt(del, 2 * t + 1)} \ {0}

\* Only the two lists of an updated checkpoint are rewritten, and to two blocks.
LEMMA RewrittenOf ==
    ASSUME list \in Seq(Checkpoints), NEW del \in SUBSET (1 .. Len(list)),
           size \in Nat, live.avail \in SUBSET (1 .. size),
           NEW n1, n1 = Cardinality(Rewritten(del)), NEW t \in 1 .. Len(list)
    PROVE  /\ \/ RewrittenAt(del, 2 * t) = 0
              \/ t \in Updated(del) /\ RewrittenAt(del, 2 * t) \in Took(live.avail, size, n1)
           /\ \/ RewrittenAt(del, 2 * t + 1) = 0
              \/ t \in Updated(del) /\ RewrittenAt(del, 2 * t + 1) \in Took(live.avail, size, n1)
           /\ RewrittenAt(del, 2 * t) # 0
                => RewrittenAt(del, 2 * t) # RewrittenAt(del, 2 * t + 1)
<1>1. /\ \A j \in Rewritten(del) : RewrittenAt(del, j) \in Took(live.avail, size, n1)
      /\ \A j : j \notin Rewritten(del) => RewrittenAt(del, j) = 0
      /\ \A i, j \in Rewritten(del) : RewrittenAt(del, i) = RewrittenAt(del, j) => i = j
  BY RewrittenIs
<1>2. Len(list) \in Nat /\ Updated(del) \subseteq 1 .. Len(list)
  BY DEF Updated, Kept
<1>3. t \in Nat
  BY <1>2
<1>4. ASSUME NEW j \in Rewritten(del), j = 2 * t \/ j = 2 * t + 1 PROVE t \in Updated(del)
  <2>1. PICK u \in Updated(del) : j = 2 * u \/ j = 2 * u + 1
    BY DEF Rewritten
  <2>2. u \in Nat
    BY <1>2, <2>1
  <2>3. t = u
    BY <1>3, <1>4, <2>1, <2>2
  <2> QED
    BY <2>1, <2>3
<1>5. 2 * t # 2 * t + 1
  BY <1>3
<1>6. PICK i, j : i = 2 * t /\ j = 2 * t + 1
  OBVIOUS
<1>7. /\ \/ RewrittenAt(del, i) = 0
         \/ t \in Updated(del) /\ RewrittenAt(del, i) \in Took(live.avail, size, n1)
      /\ \/ RewrittenAt(del, j) = 0
         \/ t \in Updated(del) /\ RewrittenAt(del, j) \in Took(live.avail, size, n1)
  BY <1>1, <1>4, <1>6
<1>8. RewrittenAt(del, i) # 0 => RewrittenAt(del, i) # RewrittenAt(del, j)
  BY <1>1, <1>5, <1>6
<1> QED
  BY <1>6, <1>7, <1>8

\* A checkpoint of the new list, in place of epoch t.
Replaces(del, t, c, ats) ==
    /\ c \in Checkpoints /\ AtsDistinct(c)
    /\ c.alloc = Alloc(del, t) /\ c.discard = Discard(del, t)
    /\ c.root = IF t = Live THEN root ELSE list[t].root
    /\ t # Live => c.bytes = list[t].bytes
    /\ Ats(c) = Stay(del, t) \cup Fresh(del, t, ats)

\* A checkpoint that is kept.
LEMMA RewriteIs ==
    ASSUME NEW del, NEW n, NEW g, NEW at, NEW A, NEW D, NEW R, NEW I, NEW E,
           Merging(del, n, g, at, A, D, R, I, E),
           NEW n1, NEW avail, NEW end, NEW m, NEW allocAt, NEW discardAt, NEW availAt, NEW took,
           NEW new, Written(del, n1, avail, end, m, allocAt, discardAt, availAt, took, new),
           \A i \in 1 .. Len(list) : AtsDistinct(list[i]),
           NEW k \in 1 .. n, NEW t, t = at[k], t # Live, NEW ats
    PROVE  Replaces(del, t, Rewrite(del, t), ats)
<1>1. /\ list \in Seq(Checkpoints) /\ del \in SUBSET (1 .. Len(list)) /\ n1 = Cardinality(Rewritten(del))
  BY Zenon DEF Merging, Written
<1>2. /\ t \in 1 .. Len(list) /\ t \in 1 .. Live /\ t \notin del /\ list[t] \in Checkpoints
      /\ E[t] = Ats(list[t])
  BY MergingIs
<1>3. PICK U : U = InUse
  OBVIOUS
<1>4. /\ size \in Nat /\ live.avail \in SUBSET (1 .. size)
      /\ took \subseteq Blocks /\ took \cap U = {}
      /\ Took(live.avail, size, n1) \subseteq took /\ E[t] \subseteq U
  BY <1>2, <1>3, LaidIs
<1>5. PICK x, y : x = RewrittenAt(del, 2 * t) /\ y = RewrittenAt(del, 2 * t + 1)
  OBVIOUS
<1>6. /\ x = 0 \/ (t \in Updated(del) /\ x \in took)
      /\ y = 0 \/ (t \in Updated(del) /\ y \in took)
      /\ x # 0 => x # y
  BY <1>1, <1>2, <1>4, <1>5, RewrittenOf
<1>7. x \in Address /\ y \in Address
  BY <1>4, <1>6, AddressIs
<1>8. Alloc(del, t) \subseteq Blocks /\ Discard(del, t) \subseteq Blocks
  BY ListsAre
<1>9. AtsDistinct(list[t])
  BY <1>2
<1>10. CASE t \in Updated(del)
  <2>1. PICK c : c = [list[t] EXCEPT !.alloc = Alloc(del, t), !.discard = Discard(del, t),
                                     !.allocAt = x, !.discardAt = y]
    OBVIOUS
  <2>2. c = Rewrite(del, t)
    BY <1>5, <1>10, <2>1 DEF Rewrite
  <2>3. /\ c.alloc = Alloc(del, t) /\ c.discard = Discard(del, t) /\ c.allocAt = x
        /\ c.discardAt = y /\ c.availAt = list[t].availAt /\ c.root = list[t].root
        /\ c.bytes = list[t].bytes
        /\ c \in Checkpoints
    BY <1>2, <1>7, <1>8, <2>1 DEF Checkpoints
  <2>4. c.availAt # 0 => c.availAt \in U
    BY <1>2, <1>4, <2>3 DEF Ats
  <2>5. AtsDistinct(c)
    BY <1>4, <1>6, <2>3, <2>4 DEF AtsDistinct
  <2>6. Ats(c) = Stay(del, t) \cup Fresh(del, t, ats)
    BY <1>5, <1>10, <2>3 DEF Ats, Stay, Fresh
  <2> QED
    BY <2>2, <2>3, <2>5, <2>6, Zenon DEF Replaces
<1>11. CASE t \notin Updated(del)
  <2>1. Rewrite(del, t) = list[t]
    BY <1>11 DEF Rewrite
  <2>2. MergedInto(del, t) = {}
    BY <1>2, <1>11 DEF Updated, Kept
  <2>3. Alloc(del, t) = list[t].alloc /\ Discard(del, t) = list[t].discard
    <3>1. Overlap(del, t) = {}
      BY <2>2 DEF Overlap
    <3>2. MergedAlloc(del, t) = list[t].alloc /\ MergedDiscard(del, t) = list[t].discard
      BY <2>2 DEF MergedAlloc, MergedDiscard
    <3> QED
      BY <3>1, <3>2 DEF Alloc, Discard
  <2>4. x = 0 /\ y = 0
    BY <1>6, <1>11
  <2>5. Ats(list[t]) = Stay(del, t) \cup Fresh(del, t, ats)
    BY <1>5, <1>11, <2>4 DEF Stay, Fresh
  <2>6. list[t].root = IF t = Live THEN root ELSE list[t].root
    OBVIOUS
  <2> QED
    BY <1>2, <1>9, <2>1, <2>3, <2>5, <2>6 DEF Replaces
<1> QED
  BY <1>10, <1>11

\* The new checkpoint.
LEMMA NewIs ==
    ASSUME NEW del, NEW n, NEW g, NEW at, NEW A, NEW D, NEW R, NEW I, NEW E,
           Merging(del, n, g, at, A, D, R, I, E),
           NEW n1, NEW avail, NEW end, NEW m, NEW allocAt, NEW discardAt, NEW availAt, NEW took,
           NEW new, Written(del, n1, avail, end, m, allocAt, discardAt, availAt, took, new),
           root \in [block : Address, image : SUBSET Blocks], addr \in [Pages -> Address],
           CkptAvail(del) \subseteq Blocks
    PROVE  /\ Replaces(del, Live, new, Took(avail, end, m + 1))
           /\ new.availAt \in Took(avail, end, m + 1)
<1>1. PICK av2 : av2 = AvailAfter(avail, end, m + 1)
  OBVIOUS
<1>2. /\ new.size \in Address /\ took \subseteq Blocks /\ av2 \subseteq Blocks
      /\ Took(avail, end, m + 1) \subseteq took
      /\ AvailAfter(avail, end, m) \subseteq av2 \cup took
  BY <1>1, LaidIs
<1>3. NewLists(avail, end, Alloc(del, Live), Discard(del, Live), allocAt, m, discardAt, availAt)
  BY Zenon DEF Written
<1>4. /\ {allocAt, discardAt, availAt} \ {0} = Took(avail, end, m + 1) /\ availAt # 0
      /\ allocAt # 0 => allocAt # discardAt /\ allocAt # availAt
      /\ discardAt # availAt
  BY <1>3, NewListsAt
<1>5. allocAt \in Address /\ discardAt \in Address /\ availAt \in Address
  BY <1>2, <1>4, AddressIs
<1>6. /\ new.root = root /\ new.alloc = Alloc(del, Live) /\ new.discard = Discard(del, Live)
      /\ new.avail = AvailAfter(avail, end, m) \cup CkptAvail(del)
      /\ new.allocAt = allocAt /\ new.discardAt = discardAt /\ new.availAt = availAt
      /\ new.bytes \in Int /\ new.addr = addr
      /\ new = [root |-> new.root, alloc |-> new.alloc, discard |-> new.discard,
                avail |-> new.avail, allocAt |-> new.allocAt, discardAt |-> new.discardAt,
                availAt |-> new.availAt, size |-> new.size, bytes |-> new.bytes,
                addr |-> new.addr]
  BY Zenon DEF Written
<1>7. Alloc(del, Live) \subseteq Blocks /\ Discard(del, Live) \subseteq Blocks
  <2>1. /\ list \in Seq(Checkpoints) /\ del \in SUBSET (1 .. Len(list)) /\ n = Groups(del)
        /\ at = At(del)
    BY Zenon DEF Merging
  <2>2. n \in 1 .. n /\ at[n] = Live
    BY <2>1, AtIs
  <2>3. Alloc(del, at[n]) \subseteq Blocks /\ Discard(del, at[n]) \subseteq Blocks
    BY <2>2, ListsAre
  <2> QED
    BY <2>2, <2>3
<1>8. new.avail \subseteq Blocks
  BY <1>2, <1>6
<1>9. new \in Checkpoints
  <2>1. /\ new.root \in [block : Address, image : SUBSET Blocks]
        /\ new.alloc \in SUBSET Blocks /\ new.discard \in SUBSET Blocks
        /\ new.avail \in SUBSET Blocks
        /\ new.allocAt \in Address /\ new.discardAt \in Address /\ new.availAt \in Address
        /\ new.size \in Address /\ new.bytes \in Int /\ new.addr \in [Pages -> Address]
    BY <1>2, <1>5, <1>6, <1>7, <1>8
  <2> QED
    BY <1>6, <2>1 DEF Checkpoints
<1>10. AtsDistinct(new)
  BY <1>4, <1>6 DEF AtsDistinct
<1>11. Ats(new) = Stay(del, Live) \cup Fresh(del, Live, Took(avail, end, m + 1))
  BY <1>4, <1>6 DEF Ats, Stay, Fresh
<1>12. new.root = IF Live = Live THEN root ELSE list[Live].root
  BY <1>6
<1> QED
  BY <1>4, <1>6, <1>9, <1>10, <1>11, <1>12 DEF Replaces

\* What the checkpoint makes available: what the merges give up, and the extent lists
\* that do not stay.
LEMMA CkptAvailIs ==
    ASSUME NEW del, NEW n, NEW g, NEW at, NEW A, NEW D, NEW R, NEW I, NEW E,
           Merging(del, n, g, at, A, D, R, I, E),
           \A i \in 1 .. Len(list) : AtsDistinct(list[i])
    PROVE  /\ \A b : b \in CkptAvail(del) <=>
                \/ b \in Blocks
                   /\ \E k \in 1 .. n : InAlloc(Live, A, g, k, b) /\ InDiscard(Live, D, R, g, at, k, b)
                \/ (\E i \in 1 .. Live : b \in E[i]) /\ \A k \in 1 .. n : b \notin Stay(del, at[k])
           /\ \A k \in 1 .. n : Stay(del, at[k]) \subseteq E[at[k]]
<1>1. /\ list \in Seq(Checkpoints) /\ del \in SUBSET (1 .. Len(list)) /\ n = Groups(del)
      /\ at = At(del) /\ Space(Live, A, E, live.avail, {}, size)
  BY Zenon DEF Merging
<1>2. /\ Live \in Nat \ {0} /\ n \in Nat \ {0}
      /\ at \in [1 .. n -> 1 .. Live] /\ at[n] = Live
      /\ \A k \in 1 .. n : k # n => at[k] \in Kept(del)
      /\ \A t \in Kept(del) : \E k \in 1 .. n : k # n /\ at[k] = t
  BY <1>1, AtIs
<1>3. /\ \A i \in 1 .. Live : i = Live \/ i \in 1 .. Len(list)
      /\ \A i \in 1 .. Len(list) : i \in 1 .. Live /\ i # Live
      /\ E[Live] = {} /\ \A i \in 1 .. Len(list) : E[i] = Ats(list[i])
  BY MergingIs
<1>4. \A i, j \in 1 .. Live : \A b \in E[i] : b \in E[j] => i = j
  BY <1>1 DEF Space
<1>5. Kept(del) = (1 .. Len(list)) \ del /\ Updated(del) \subseteq Kept(del)
  BY DEF Kept, Updated
<1>6. \A k \in 1 .. n : Overlap(del, at[k]) \subseteq Blocks
        /\ \A b \in Blocks : b \in Overlap(del, at[k]) <=>
             InAlloc(Live, A, g, k, b) /\ InDiscard(Live, D, R, g, at, k, b)
  BY ListsAre
<1>7. \A i \in 1 .. Len(list) :
         Block(list[i].allocAt) \cup Block(list[i].discardAt) \cup Block(list[i].availAt) = E[i]
  BY <1>3 DEF Ats, Block
<1>8. \A t \in 1 .. Live : Stay(del, t) \subseteq E[t]
  BY <1>3 DEF Stay, Ats
<1>9. \A b : (\E t \in Kept(del) \cup {Live} : b \in Overlap(del, t))
               <=> \E k \in 1 .. n : b \in Overlap(del, at[k])
  <2>1. \A t : t \in Kept(del) \cup {Live} <=> \E k \in 1 .. n : at[k] = t
    <3>1. n \in 1 .. n
      BY <1>2
    <3> QED
      BY <1>2, <3>1
  <2> QED
    BY <2>1
<1>10. \A b : b \in CkptAvail(del) <=>
         \/ \E t \in Kept(del) \cup {Live} : b \in Overlap(del, t)
         \/ \E i \in del : b \in E[i]
         \/ \E t \in Updated(del) : b \in Block(list[t].allocAt) \cup Block(list[t].discardAt)
  <2> SUFFICES ASSUME NEW b
               PROVE  b \in CkptAvail(del) <=>
                        \/ \E t \in Kept(del) \cup {Live} : b \in Overlap(del, t)
                        \/ \E i \in del : b \in E[i]
                        \/ \E t \in Updated(del) :
                             b \in Block(list[t].allocAt) \cup Block(list[t].discardAt)
    OBVIOUS
  <2>1. b \in CkptAvail(del) <=>
          \/ \E t \in Kept(del) \cup {Live} : b \in Overlap(del, t)
          \/ \E i \in del : b \in Block(list[i].allocAt) \cup Block(list[i].discardAt)
                                    \cup Block(list[i].availAt)
          \/ \E t \in Updated(del) : b \in Block(list[t].allocAt) \cup Block(list[t].discardAt)
    <3> DEFINE X == UNION {Overlap(del, t) : t \in Kept(del) \cup {Live}}
               Y == UNION {Block(list[i].allocAt) \cup Block(list[i].discardAt)
                             \cup Block(list[i].availAt) : i \in del}
               Z == UNION {Block(list[t].allocAt) \cup Block(list[t].discardAt) : t \in Updated(del)}
    <3>1. b \in X <=> \E t \in Kept(del) \cup {Live} : b \in Overlap(del, t)
      OBVIOUS
    <3>2. b \in Y <=> \E i \in del : b \in Block(list[i].allocAt) \cup Block(list[i].discardAt)
                                             \cup Block(list[i].availAt)
      OBVIOUS
    <3>3. b \in Z <=> \E t \in Updated(del) :
                         b \in Block(list[t].allocAt) \cup Block(list[t].discardAt)
      OBVIOUS
    <3>4. CkptAvail(del) = X \cup Y \cup Z
      BY Zenon DEF CkptAvail
    <3> HIDE DEF X, Y, Z
    <3> QED
      BY <3>1, <3>2, <3>3, <3>4
  <2> QED
    BY <1>1, <1>7, <2>1
\* A block of an extent list stays, or is made available.
<1>11. ASSUME NEW b, NEW i \in 1 .. Live, b \in E[i]
       PROVE  \/ \E j \in del : b \in E[j]
              \/ \E t \in Updated(del) : b \in Block(list[t].allocAt) \cup Block(list[t].discardAt)
              \/ \E k \in 1 .. n : b \in Stay(del, at[k])
  <2>1. i \in 1 .. Len(list) /\ i # Live
    BY <1>3, <1>11
  <2>2. CASE i \notin del
    <3>1. PICK k \in 1 .. n : at[k] = i
      BY <1>2, <1>5, <2>1, <2>2
    <3>2. CASE i \in Updated(del)
      <4>1. Stay(del, i) = {list[i].availAt} \ {0}
        BY <2>1, <3>2 DEF Stay
      <4> QED
        BY <1>3, <1>11, <2>1, <3>1, <3>2, <4>1 DEF Ats, Block
    <3>3. CASE i \notin Updated(del)
      <4>1. Stay(del, i) = Ats(list[i])
        BY <2>1, <3>3 DEF Stay
      <4> QED
        BY <1>3, <1>11, <2>1, <3>1, <4>1
    <3> QED
      BY <3>2, <3>3
  <2> QED
    BY <1>11, <2>2
<1>12. ASSUME NEW b, NEW i \in del, b \in E[i], NEW k \in 1 .. n, b \in Stay(del, at[k]) PROVE FALSE
  <2>1. at[k] \in 1 .. Live /\ i \in 1 .. Live
    BY <1>1, <1>2, <1>3
  <2>2. b \in E[at[k]]
    BY <1>8, <1>12, <2>1
  <2>3. at[k] = i
    BY <1>4, <1>12, <2>1, <2>2
  <2>4. i \in 1 .. Len(list) /\ i # Live
    BY <1>1, <1>3
  <2> QED
    BY <1>2, <1>5, <2>3, <2>4
<1>13. ASSUME NEW b, NEW t \in Updated(del),
              b \in Block(list[t].allocAt) \cup Block(list[t].discardAt)
       PROVE  t \in 1 .. Live /\ b \in E[t] /\ \A k \in 1 .. n : b \notin Stay(del, at[k])
  <2>1. t \in 1 .. Len(list) /\ t \in 1 .. Live /\ t # Live
    BY <1>3, <1>5
  <2>2. b \in E[t]
    BY <1>7, <1>13, <2>1
  <2>3. ASSUME NEW k \in 1 .. n, b \in Stay(del, at[k]) PROVE FALSE
    <3>1. at[k] \in 1 .. Live
      BY <1>2
    <3>2. at[k] = t
      BY <1>4, <1>8, <2>1, <2>2, <2>3, <3>1
    <3>3. b = list[t].availAt /\ b # 0
      BY <2>1, <2>3, <3>2 DEF Stay
    <3>4. AtsDistinct(list[t])
      BY <2>1
    <3> QED
      BY <1>13, <3>3, <3>4 DEF AtsDistinct, Block
  <2> QED
    BY <2>1, <2>2, <2>3
<1>14. ASSUME NEW b
       PROVE  b \in CkptAvail(del) <=>
                \/ b \in Blocks
                   /\ \E k \in 1 .. n : InAlloc(Live, A, g, k, b) /\ InDiscard(Live, D, R, g, at, k, b)
                \/ (\E i \in 1 .. Live : b \in E[i]) /\ \A k \in 1 .. n : b \notin Stay(del, at[k])
  <2>1. (\E t \in Kept(del) \cup {Live} : b \in Overlap(del, t)) <=>
          b \in Blocks
            /\ \E k \in 1 .. n : InAlloc(Live, A, g, k, b) /\ InDiscard(Live, D, R, g, at, k, b)
    BY <1>6, <1>9
  <2>2. ((\E i \in 1 .. Live : b \in E[i]) /\ \A k \in 1 .. n : b \notin Stay(del, at[k])) <=>
          \/ \E i \in del : b \in E[i]
          \/ \E t \in Updated(del) : b \in Block(list[t].allocAt) \cup Block(list[t].discardAt)
    <3>1. \A i \in del : i \in 1 .. Live
      BY <1>1, <1>3
    <3> QED
      BY <1>11, <1>12, <1>13, <3>1
  <2> QED
    BY <1>10, <2>1, <2>2
<1>15. \A k \in 1 .. n : Stay(del, at[k]) \subseteq E[at[k]]
  BY <1>2, <1>8
<1> QED
  BY <1>14, <1>15

\* The new list of checkpoints.
Listed(del, new, lst) ==
    lst = [i \in 1 .. Cardinality(Kept(del)) |-> Rewrite(del, Nth(Kept(del), i))] \o <<new>>
LEMMA NewListIs ==
    ASSUME NEW del, NEW n, NEW g, NEW at, NEW A, NEW D, NEW R, NEW I, NEW E,
           Merging(del, n, g, at, A, D, R, I, E),
           NEW n1, NEW avail, NEW end, NEW m, NEW allocAt, NEW discardAt, NEW availAt, NEW took,
           NEW new, Written(del, n1, avail, end, m, allocAt, discardAt, availAt, took, new),
           \A i \in 1 .. Len(list) : AtsDistinct(list[i]),
           root \in [block : Address, image : SUBSET Blocks], addr \in [Pages -> Address],
           NEW lst, Listed(del, new, lst)
    PROVE  /\ lst \in Seq(Checkpoints) /\ Len(lst) = n /\ lst[n] = new
           /\ \A k \in 1 .. n : Replaces(del, at[k], lst[k], Took(avail, end, m + 1))
           /\ CkptAvail(del) \subseteq InUse
<1> DEFINE c == Cardinality(Kept(del))
           f == [i \in 1 .. c |-> Rewrite(del, Nth(Kept(del), i))]
<1>1. /\ list \in Seq(Checkpoints) /\ del \in SUBSET (1 .. Len(list)) /\ n = Groups(del)
      /\ at = At(del)
  BY Zenon DEF Merging
<1>2. /\ Live \in Nat \ {0} /\ n \in Nat \ {0} /\ n - 1 = c
      /\ at \in [1 .. n -> 1 .. Live] /\ at[n] = Live
      /\ \A k \in 1 .. n : k # n => at[k] = Nth(Kept(del), k)
      /\ \A k, l \in 1 .. n : k < l => at[k] < at[l]
  BY <1>1, AtIs
<1>3. CkptAvail(del) \subseteq InUse /\ InUse \subseteq Blocks
  <2>1. \A i \in 1 .. Live : A[i] \subseteq InUse /\ E[i] \subseteq InUse
    BY LaidIs
  <2>2. InUse \subseteq Blocks
    BY LaidIs
  <2>3. ASSUME NEW b \in CkptAvail(del) PROVE b \in InUse
    <3>1. \/ \E k \in 1 .. n : InAlloc(Live, A, g, k, b)
          \/ \E i \in 1 .. Live : b \in E[i]
      BY CkptAvailIs
    <3> QED
      BY <2>1, <3>1 DEF InAlloc
  <2> QED
    BY <2>2, <2>3
<1>4. c \in Nat /\ n = c + 1 /\ \A k \in 1 .. c : k \in 1 .. n /\ k # n /\ at[k] # Live
  <2>1. c = n - 1
    BY <1>2
  <2>2. c \in Nat /\ n = c + 1 /\ n \in 1 .. n
    BY <1>2, <2>1
  <2>3. ASSUME NEW k \in 1 .. c PROVE k \in 1 .. n /\ k # n /\ at[k] # Live
    <3>1. k \in 1 .. n /\ k < n
      BY <2>2
    <3>2. at[k] < Live /\ at[k] \in 1 .. Live
      BY <1>2, <2>2, <3>1
    <3> QED
      BY <3>1, <3>2
  <2> QED
    BY <2>2, <2>3
<1> HIDE DEF c
<1>5. ASSUME NEW k \in 1 .. n, at[k] # Live
      PROVE  Replaces(del, at[k], Rewrite(del, at[k]), Took(avail, end, m + 1))
  <2>1. PICK t, ats : t = at[k] /\ ats = Took(avail, end, m + 1)
    OBVIOUS
  <2>2. Replaces(del, t, Rewrite(del, t), ats)
    BY <1>5, <2>1, RewriteIs
  <2> QED
    BY <2>1, <2>2
<1>6. \A k \in 1 .. c : f[k] = Rewrite(del, at[k])
  BY <1>2, <1>4
<1>7. f \in [1 .. c -> Checkpoints]
  <2>1. \A k \in 1 .. c : Rewrite(del, at[k]) \in Checkpoints
    BY <1>4, <1>5 DEF Replaces
  <2>2. \A k \in 1 .. c : Rewrite(del, Nth(Kept(del), k)) \in Checkpoints
    BY <1>2, <1>4, <2>1
  <2> QED
    BY <2>2
<1>8. Replaces(del, Live, new, Took(avail, end, m + 1))
  <2>1. CkptAvail(del) \subseteq Blocks
    BY <1>3
  <2> QED
    BY <2>1, NewIs
<1>9. new \in Checkpoints
  BY <1>8 DEF Replaces
<1>10. lst = f \o <<new>>
  BY DEF c, Listed
<1> HIDE DEF f
<1>11. /\ lst \in Seq(Checkpoints) /\ Len(lst) = c + 1
       /\ \A k \in 1 .. c + 1 : lst[k] = IF k = c + 1 THEN new ELSE f[k]
  <2>1. c \in Nat
    BY <1>4
  <2>2. /\ f \o <<new>> \in Seq(Checkpoints) /\ Len(f \o <<new>>) = c + 1
        /\ \A k \in 1 .. c + 1 : (f \o <<new>>)[k] = IF k = c + 1 THEN new ELSE f[k]
    BY <1>7, <1>9, <2>1, AppendIs
  <2> QED
    BY <1>10, <2>2, Zenon
<1>12. n \in 1 .. c + 1 /\ lst[n] = new
  <2>1. c + 1 \in 1 .. c + 1
    BY <1>4
  <2>2. lst[c + 1] = new
    BY <1>11, <2>1
  <2> QED
    BY <1>4, <2>1, <2>2
<1>13. ASSUME NEW k \in 1 .. n PROVE Replaces(del, at[k], lst[k], Took(avail, end, m + 1))
  <2>1. CASE k = n
    BY <1>2, <1>8, <1>12, <2>1
  <2>2. CASE k # n
    <3>1. k \in 1 .. c /\ k # c + 1 /\ k \in 1 .. c + 1
      BY <1>4, <2>2
    <3>2. lst[k] = Rewrite(del, at[k])
      BY <1>6, <1>11, <3>1
    <3>3. at[k] # Live
      BY <1>4, <3>1
    <3> QED
      BY <1>5, <3>2, <3>3
  <2> QED
    BY <2>1, <2>2
<1> QED
  BY <1>3, <1>4, <1>11, <1>12, <1>13

\* Every block that is taken is the block of one new list.
FreshOnce(del, n, at, ats, took) ==
    /\ \A k, l \in 1 .. n : \A b \in Fresh(del, at[k], ats) : b \in Fresh(del, at[l], ats) => k = l
    /\ \A k \in 1 .. n : Fresh(del, at[k], ats) \subseteq took
    /\ \A b \in took : \E k \in 1 .. n : b \in Fresh(del, at[k], ats)
LEMMA FreshIs ==
    ASSUME NEW del, NEW n, NEW g, NEW at, NEW A, NEW D, NEW R, NEW I, NEW E,
           Merging(del, n, g, at, A, D, R, I, E),
           NEW n1, NEW avail, NEW end, NEW m, NEW allocAt, NEW discardAt, NEW availAt, NEW took,
           NEW new, Written(del, n1, avail, end, m, allocAt, discardAt, availAt, took, new)
    PROVE  FreshOnce(del, n, at, Took(avail, end, m + 1), took)
<1>0. PICK ats : ats = Took(avail, end, m + 1)
  OBVIOUS
<1>1. /\ list \in Seq(Checkpoints) /\ del \in SUBSET (1 .. Len(list)) /\ n = Groups(del)
      /\ at = At(del) /\ n1 = Cardinality(Rewritten(del))
  BY Zenon DEF Merging, Written
<1>2. /\ n \in Nat \ {0} /\ at[n] = Live /\ n \in 1 .. n
      /\ \A k \in 1 .. n : k # n => at[k] \in Kept(del)
      /\ \A t \in Kept(del) : \E k \in 1 .. n : k # n /\ at[k] = t
  <2>1. /\ n \in Nat \ {0} /\ at[n] = Live
        /\ \A k \in 1 .. n : k # n => at[k] \in Kept(del)
        /\ \A t \in Kept(del) : \E k \in 1 .. n : k # n /\ at[k] = t
    BY <1>1, AtIs
  <2>2. n \in 1 .. n
    BY <2>1
  <2> QED
    BY <2>1, <2>2
<1>3. /\ size \in Nat /\ live.avail \in SUBSET (1 .. size)
      /\ took = Took(live.avail, size, n1) \cup Took(avail, end, m + 1)
      /\ Took(live.avail, size, n1) \cap Took(avail, end, m + 1) = {}
      /\ took \subseteq Blocks
  BY LaidIs
<1>4. PICK t1 : t1 = Took(live.avail, size, n1)
  OBVIOUS
<1>5. /\ \A j \in Rewritten(del) : RewrittenAt(del, j) \in t1 /\ RewrittenAt(del, j) # 0
      /\ \A j : j \notin Rewritten(del) => RewrittenAt(del, j) = 0
      /\ \A i, j \in Rewritten(del) : RewrittenAt(del, i) = RewrittenAt(del, j) => i = j
      /\ \A b \in t1 : \E j \in Rewritten(del) : RewrittenAt(del, j) = b
  BY <1>1, <1>3, <1>4, RewrittenIs
<1>6. /\ took = t1 \cup ats /\ t1 \cap ats = {}
  BY <1>0, <1>3, <1>4
<1>7. /\ Kept(del) \subseteq 1 .. Len(list) /\ Updated(del) \subseteq Kept(del) /\ Len(list) \in Nat
      /\ Live = Len(list) + 1
  BY <1>1 DEF Kept, Updated, Live
<1>8. \A k \in 1 .. n : k # n => at[k] \in 1 .. Len(list) /\ at[k] # Live /\ at[k] \in Nat
  BY <1>2, <1>7
<1>9. Fresh(del, at[n], ats) = ats
  BY <1>2 DEF Fresh
<1>10. \A k \in 1 .. n : k # n =>
         \A b : b \in Fresh(del, at[k], ats)
                  <=> b # 0 /\ (b = RewrittenAt(del, 2 * at[k]) \/ b = RewrittenAt(del, 2 * at[k] + 1))
  BY <1>8 DEF Fresh
<1>11. \A j : RewrittenAt(del, j) # 0 => RewrittenAt(del, j) \in t1
  BY <1>5
<1>12. \A k \in 1 .. n : k # n => Fresh(del, at[k], ats) \subseteq t1
  BY <1>10, <1>11
<1>13. \A k \in 1 .. n : Fresh(del, at[k], ats) \subseteq took
  BY <1>6, <1>9, <1>12
<1>14. ASSUME NEW k \in 1 .. n, NEW l \in 1 .. n, NEW b, b \in Fresh(del, at[k], ats),
              b \in Fresh(del, at[l], ats)
       PROVE  k = l
  <2>1. CASE k = n
    <3>1. b \in ats
      BY <1>9, <1>14, <2>1
    <3>2. b \notin t1
      BY <1>6, <3>1
    <3> QED
      BY <1>12, <1>14, <2>1, <3>2
  <2>2. CASE l = n
    <3>1. b \in ats
      BY <1>9, <1>14, <2>2
    <3>2. b \notin t1
      BY <1>6, <3>1
    <3> QED
      BY <1>12, <1>14, <2>2, <3>2
  <2>3. CASE k # n /\ l # n
    <3>1. PICK t \in Nat, u \in Nat : t = at[k] /\ u = at[l]
      BY <1>8, <2>3
    <3>2. PICK i : (i = 2 * t \/ i = 2 * t + 1) /\ b = RewrittenAt(del, i) /\ b # 0
      BY <1>10, <1>14, <2>3, <3>1
    <3>3. PICK j : (j = 2 * u \/ j = 2 * u + 1) /\ b = RewrittenAt(del, j)
      BY <1>10, <1>14, <2>3, <3>1
    <3>4. i \in Rewritten(del) /\ j \in Rewritten(del)
      BY <1>5, <3>2, <3>3
    <3>5. i = j
      BY <1>5, <3>2, <3>3, <3>4
    <3>6. t = u
      BY <3>2, <3>3, <3>5
    <3>7. Grouping(Live, n, g, at)
      BY MergingIs
    <3>8. g[at[k]] = k /\ g[at[l]] = l
      BY <3>7 DEF Grouping
    <3> QED
      BY <3>1, <3>6, <3>8
  <2> QED
    BY <2>1, <2>2, <2>3
<1>15. ASSUME NEW b \in took PROVE \E k \in 1 .. n : b \in Fresh(del, at[k], ats)
  <2>1. CASE b \in ats
    BY <1>2, <1>9, <2>1
  <2>2. CASE b \in t1
    <3>1. PICK j \in Rewritten(del) : RewrittenAt(del, j) = b
      BY <1>5, <2>2
    <3>2. PICK t \in Updated(del) : j = 2 * t \/ j = 2 * t + 1
      BY DEF Rewritten
    <3>3. PICK k \in 1 .. n : k # n /\ at[k] = t
      BY <1>2, <1>7, <3>2
    <3>4. b # 0
      BY <1>5, <3>1
    <3>5. b = RewrittenAt(del, 2 * t) \/ b = RewrittenAt(del, 2 * t + 1)
      BY <3>1, <3>2
    <3> QED
      BY <1>10, <3>3, <3>4, <3>5
  <2> QED
    BY <1>6, <2>1, <2>2
<1> QED
  BY <1>0, <1>13, <1>14, <1>15 DEF FreshOnce

\* A live system that has written and freed nothing since the checkpoint.
Idle(w) == w.alloc = {} /\ w.discard = {} /\ w.root = 0 /\ w.image = root.image

\* What a checkpoint finds and leaves: the epochs, what is written, and the new list.
Processed(del, n, g, at, A, D, R, I, E, n1, avail, end, m, allocAt, discardAt, availAt, took,
          new, lst) ==
    /\ Merging(del, n, g, at, A, D, R, I, E)
    /\ Written(del, n1, avail, end, m, allocAt, discardAt, availAt, took, new)
    /\ \A i \in 1 .. Len(list) : AtsDistinct(list[i])
    /\ root \in [block : Address, image : SUBSET Blocks] /\ addr \in [Pages -> Address]
    /\ root.image = I[Live] /\ Listed(del, new, lst)

\* What the checkpoint leaves is whole, with a live system that has written nothing yet.
LEMMA ProcessWhole ==
    ASSUME NEW del, NEW n, NEW g, NEW at, NEW A, NEW D, NEW R, NEW I, NEW E,
           NEW n1, NEW avail, NEW end, NEW m, NEW allocAt, NEW discardAt, NEW availAt, NEW took,
           NEW new, NEW lst,
           Processed(del, n, g, at, A, D, R, I, E, n1, avail, end, m, allocAt, discardAt,
                     availAt, took, new, lst),
           NEW w, Idle(w)
    PROVE  /\ Whole(lst, w, AvailAfter(avail, end, m + 1), CkptAvail(del), new.size)
           /\ Whole(lst, w, AvailAfter(avail, end, m + 1) \cup CkptAvail(del), {}, new.size)
<1>0. PICK av2, ck2, sz2 :
        av2 = AvailAfter(avail, end, m + 1) /\ ck2 = CkptAvail(del) /\ sz2 = new.size
  OBVIOUS
<1>p. /\ Merging(del, n, g, at, A, D, R, I, E)
      /\ Written(del, n1, avail, end, m, allocAt, discardAt, availAt, took, new)
      /\ \A i \in 1 .. Len(list) : AtsDistinct(list[i])
      /\ root \in [block : Address, image : SUBSET Blocks] /\ addr \in [Pages -> Address]
      /\ root.image = I[Live] /\ Listed(del, new, lst)
  BY Zenon DEF Processed
<1>w. w.alloc = {} /\ w.discard = {} /\ w.root = 0 /\ w.image = root.image
  BY DEF Idle
<1> DEFINE A2 == [k \in 1 .. n |-> lst[k].alloc]
           D2 == [k \in 1 .. n |-> lst[k].discard]
           R2 == [k \in 1 .. n |-> lst[k].root.block]
           I2 == [k \in 1 .. n |-> lst[k].root.image]
           E2 == [k \in 1 .. n |-> Ats(lst[k])]
           stay == [k \in 1 .. n |-> Stay(del, at[k])]
           fresh == [k \in 1 .. n |-> Fresh(del, at[k], Took(avail, end, m + 1))]
<1>1. /\ lst \in Seq(Checkpoints) /\ Len(lst) = n /\ lst[n] = new
      /\ \A k \in 1 .. n : Replaces(del, at[k], lst[k], Took(avail, end, m + 1))
  BY <1>p, NewListIs
<1>2. /\ Chain(Live, A, D, R, I) /\ Space(Live, A, E, live.avail, {}, size)
      /\ n = Groups(del) /\ at = At(del) /\ list \in Seq(Checkpoints)
      /\ del \in SUBSET (1 .. Len(list))
  BY <1>p, Zenon DEF Merging
<1>3. n \in Nat \ {0} /\ n \in 1 .. n /\ at[n] = Live
  BY <1>2, AtIs
<1>4. /\ \A i \in 1 .. Live : i = Live \/ i \in 1 .. Len(list)
      /\ R[Live] = root.block /\ Grouping(Live, n, g, at)
      /\ \A k \in 1 .. n : at[k] \in 1 .. Live
      /\ \A i \in 1 .. Len(list) : R[i] = list[i].root.block /\ I[i] = list[i].root.image
  BY <1>p, MergingIs
<1>5. \A k \in 1 .. n :
         /\ lst[k] \in Checkpoints /\ AtsDistinct(lst[k])
         /\ lst[k].alloc = Alloc(del, at[k]) /\ lst[k].discard = Discard(del, at[k])
         /\ lst[k].root = IF at[k] = Live THEN root ELSE list[at[k]].root
         /\ Ats(lst[k]) = Stay(del, at[k]) \cup Fresh(del, at[k], Took(avail, end, m + 1))
  BY <1>1 DEF Replaces
<1>6. \A k \in 1 .. n : /\ lst[k].alloc \in SUBSET Blocks /\ lst[k].discard \in SUBSET Blocks
                        /\ lst[k].root.block \in Address /\ lst[k].root.image \in SUBSET Blocks
  BY <1>5 DEF Checkpoints
<1>7. /\ A2 \in [1 .. n -> SUBSET Blocks] /\ D2 \in [1 .. n -> SUBSET Blocks]
      /\ R2 \in [1 .. n -> Address] /\ I2 \in [1 .. n -> SUBSET Blocks]
  BY <1>6
<1>8. /\ \A k \in 1 .. n : A2[k] = Alloc(del, at[k]) /\ D2[k] = Discard(del, at[k])
      /\ \A k \in 1 .. n : R2[k] = lst[k].root.block /\ I2[k] = lst[k].root.image
      /\ \A k \in 1 .. n : A2[k] = lst[k].alloc /\ D2[k] = lst[k].discard
      /\ \A k \in 1 .. n : E2[k] = Ats(lst[k])
      /\ \A k \in 1 .. n : stay[k] = Stay(del, at[k])
      /\ \A k \in 1 .. n : fresh[k] = Fresh(del, at[k], Took(avail, end, m + 1))
  BY <1>5
<1> HIDE DEF A2, D2, R2, I2, E2, stay, fresh
<1>9. \A k \in 1 .. n : R2[k] = R[at[k]] /\ I2[k] = I[at[k]]
  <2> SUFFICES ASSUME NEW k \in 1 .. n PROVE R2[k] = R[at[k]] /\ I2[k] = I[at[k]]
    OBVIOUS
  <2>1. PICK t \in 1 .. Live : t = at[k]
    BY <1>4
  <2>2. /\ lst[k].root = IF t = Live THEN root ELSE list[t].root
        /\ R2[k] = lst[k].root.block /\ I2[k] = lst[k].root.image
    BY <1>5, <1>8, <2>1
  <2>3. CASE t = Live
    BY <1>4, <1>p, <2>1, <2>2, <2>3
  <2>4. CASE t # Live
    <3>1. t \in 1 .. Len(list)
      BY <1>4, <2>4
    <3>2. R[t] = list[t].root.block /\ I[t] = list[t].root.image
      BY <1>4, <3>1
    <3> QED
      BY <2>1, <2>2, <2>4, <3>2
  <2> QED
    BY <2>3, <2>4
<1>10. \A k \in 1 .. n : \A b \in Blocks :
         /\ b \in A2[k] <=> InAlloc(Live, A, g, k, b) /\ ~InDiscard(Live, D, R, g, at, k, b)
         /\ b \in D2[k] <=> InDiscard(Live, D, R, g, at, k, b) /\ ~InAlloc(Live, A, g, k, b)
  BY <1>8, <1>p, ListsAre
<1>11. Chain(n, A2, D2, R2, I2)
  <2>1. Merged(Live, n, A, D, R, g, at, A2, D2)
    BY <1>10 DEF Merged
  <2>2. \A k \in 1 .. n : R2[k] = R[at[k]]
    BY <1>9
  <2>3. \A k \in 1 .. n : I2[k] = I[at[k]]
    BY <1>9
  <2> QED
    <3>1. Regrouped(Live, n, A, D, R, I, g, at, A2, D2, R2, I2)
      BY <1>4, <1>7, <2>1, <2>2, <2>3, Zenon DEF Regrouped
    <3> QED
      BY <1>2, <3>1, ChainMerge
<1>12. Space(n, A2, E2, av2, ck2, sz2)
  <2>1. /\ \A k, l \in 1 .. n : \A b \in fresh[k] : b \in fresh[l] => k = l
        /\ \A k \in 1 .. n : fresh[k] \subseteq took
        /\ \A b \in took : \E k \in 1 .. n : b \in fresh[k]
    <3>0. FreshOnce(del, n, at, Took(avail, end, m + 1), took)
      BY <1>p, FreshIs
    <3>1. \A k, l \in 1 .. n : \A b \in Fresh(del, at[k], Took(avail, end, m + 1)) :
             b \in Fresh(del, at[l], Took(avail, end, m + 1)) => k = l
      BY <3>0, Zenon DEF FreshOnce
    <3>2. \A k \in 1 .. n : Fresh(del, at[k], Took(avail, end, m + 1)) \subseteq took
      BY <3>0, Zenon DEF FreshOnce
    <3>3. \A b \in took : \E k \in 1 .. n : b \in Fresh(del, at[k], Took(avail, end, m + 1))
      BY <3>0, Zenon DEF FreshOnce
    <3>4. \A k \in 1 .. n : fresh[k] = Fresh(del, at[k], Took(avail, end, m + 1))
      BY <1>8
    <3>5. \A k, l \in 1 .. n : \A b \in fresh[k] : b \in fresh[l] => k = l
      <4> SUFFICES ASSUME NEW k \in 1 .. n, NEW l \in 1 .. n, NEW b \in fresh[k], b \in fresh[l]
                   PROVE  k = l
        OBVIOUS
      <4>1. /\ b \in Fresh(del, at[k], Took(avail, end, m + 1))
            /\ b \in Fresh(del, at[l], Took(avail, end, m + 1))
        BY <3>4
      <4> QED
        BY <3>1, <4>1
    <3>6. \A k \in 1 .. n : fresh[k] \subseteq took
      BY <3>2, <3>4
    <3>7. \A b \in took : \E k \in 1 .. n : b \in fresh[k]
      BY <3>3, <3>4
    <3> QED
      BY <3>5, <3>6, <3>7
  <2>2. /\ \A b : b \in CkptAvail(del) <=>
             \/ b \in Blocks /\ \E k \in 1 .. n : InAlloc(Live, A, g, k, b) /\ InDiscard(Live, D, R, g, at, k, b)
             \/ (\E i \in 1 .. Live : b \in E[i]) /\ \A k \in 1 .. n : b \notin Stay(del, at[k])
        /\ \A k \in 1 .. n : Stay(del, at[k]) \subseteq E[at[k]]
    BY <1>p, CkptAvailIs
  <2>3. ASSUME NEW b
        PROVE  b \in ck2 <=>
             \/ b \in Blocks /\ \E k \in 1 .. n : InAlloc(Live, A, g, k, b) /\ InDiscard(Live, D, R, g, at, k, b)
             \/ (\E i \in 1 .. Live : b \in E[i]) /\ \A k \in 1 .. n : b \notin stay[k]
    <3>1. (\A k \in 1 .. n : b \notin stay[k]) <=> \A k \in 1 .. n : b \notin Stay(del, at[k])
      BY <1>8
    <3> QED
      BY <1>0, <2>2, <3>1
  <2>a. \A k \in 1 .. n : stay[k] \subseteq E[at[k]]
    BY <1>8, <2>2
  <2>4. /\ sz2 \in Address /\ InUse \subseteq 1 .. sz2
        /\ av2 \subseteq 1 .. sz2 /\ took \subseteq 1 .. sz2
        /\ av2 \cap InUse = {} /\ av2 \cap took = {} /\ took \cap InUse = {}
        /\ \A b \in 1 .. sz2 : b \in InUse \/ b \in av2 \/ b \in took
    BY <1>0, <1>p, LaidIs
  <2>5. \A k \in 1 .. n : A2[k] \subseteq Blocks
    BY <1>7
  <2>6. \A k \in 1 .. n : \A b \in Blocks :
          b \in A2[k] <=> InAlloc(Live, A, g, k, b) /\ ~InDiscard(Live, D, R, g, at, k, b)
    BY <1>10
  <2>7. SpaceMerged(Live, n, A, D, R, E, g, at, A2, stay, fresh, live.avail, size,
                    av2, ck2, sz2, took)
    BY <2>1, <2>3, <2>a, <2>4, <2>5, <2>6, Zenon DEF SpaceMerged, InUse
  <2>8. \A k \in 1 .. n : E2[k] = stay[k] \cup fresh[k]
    BY <1>5, <1>8
  <2>9. AllocOnce(Live, A) /\ \A i \in 1 .. Live : A[i] \subseteq Blocks
    BY <1>2 DEF Chain, ChainType
  <2> QED
    BY <1>2, <1>4, <2>7, <2>8, <2>9, SpaceMerge
<1>13. Space(n, A2, E2, av2 \cup ck2, {}, sz2)
  BY <1>12, SpaceResolve
<1>14. /\ \A k \in 1 .. n : /\ lst[k].alloc = A2[k] /\ lst[k].discard = D2[k]
                            /\ lst[k].root.block = R2[k] /\ lst[k].root.image = I2[k]
                            /\ Ats(lst[k]) = E2[k] /\ AtsDistinct(lst[k])
       /\ w.image = lst[n].root.image
  <2>1. lst[n].root = root
    BY <1>3, <1>5
  <2> QED
    BY <1>5, <1>8, <1>w, <2>1
<1>15. n = Len(lst)
  BY <1>1
<1>16. Whole(lst, w, av2, ck2, sz2)
  BY <1>1, <1>3, <1>11, <1>12, <1>14, <1>15, <1>w, WholeNew
<1>17. Whole(lst, w, av2 \cup ck2, {}, sz2)
  BY <1>1, <1>3, <1>11, <1>13, <1>14, <1>15, <1>w, WholeNew
<1> QED
  BY <1>0, <1>16, <1>17

LEMMA ProcessKeeps ==
    ASSUME BlockInv, NEW del \in SUBSET (1 .. Len(list)), Process(del)
    PROVE  BlockInv'
<1>1. /\ phase = "root" /\ WriteLists(del) /\ phase' = "written" /\ root' = NoRoot
      /\ UNCHANGED <<addr, evict, old, turtles>>
  BY DEF Process
<1>2. /\ list \in Seq(Checkpoints) /\ live \in LiveTypes
      /\ Whole(list, Running, live.avail, live.ckptAvail, size)
      /\ size \in Nat /\ size \in Address /\ live.avail \in SUBSET (1 .. size)
  BY LiveFacts
<1>3. /\ live.ckptAvail = {} /\ root.image = BlocksOf(addr) /\ root.block \in Address
      /\ root \in [block : Address, image : SUBSET Blocks]
      /\ \A p \in Pages : evict[p] = "no"
  BY <1>1 DEF BlockInv, PhaseInv
<1>4. /\ addr \in [Pages -> Address] /\ Apart(addr) /\ \A p \in Pages : old[p] = 0
  BY <1>3 DEF BlockInv, PagesInv
<1>5. BlocksOf(old) = {}
  <2>1. PICK a : a = old
    OBVIOUS
  <2>2. \A c : c \notin BlocksOf(a)
    BY <1>4, <2>1, BlocksOfIs
  <2> QED
    BY <2>1, <2>2
\* The epochs.
<1>6. PICK n, g, at, A, D, R, I, E :
        /\ n = Groups(del) /\ g = Group(del) /\ at = At(del)
        /\ A = AllocIn(list, Running) /\ D = DiscardIn(list, Running)
        /\ R = RootIn(list, Running) /\ I = ImageIn(list, Running) /\ E = AtsIn(list)
  OBVIOUS
<1>7. Merging(del, n, g, at, A, D, R, I, E)
  <2>1. Whole(list, Running, live.avail, {}, size)
    BY <1>2, <1>3
  <2>2. Chain(Live, A, D, R, I) /\ Space(Live, A, E, live.avail, {}, size)
    BY <1>6, <2>1, Zenon DEF Whole, Live
  <2> QED
    BY <1>2, <1>6, <2>2, Zenon DEF Merging
<1>8. root.image = I[Live]
  BY <1>3, <1>5, <1>7, MergingIs
<1>9. \A i \in 1 .. Len(list) : AtsDistinct(list[i])
  BY <1>2 DEF Whole
\* What is written.
<1>10. PICK n1, avail, end, m, allocAt, discardAt, availAt, took, new :
         /\ Written(del, n1, avail, end, m, allocAt, discardAt, availAt, took, new)
         /\ list' = [i \in 1 .. Cardinality(Kept(del)) |-> Rewrite(del, Nth(Kept(del), i))]
                      \o <<new>>
         /\ live'.alloc = {} /\ live'.discard = {} /\ live'.ckptAvail = CkptAvail(del)
         /\ live'.avail = AvailAfter(avail, end, m + 1) /\ size' = new.size
         /\ live'.bytes \in Int
         /\ new.bytes = live.bytes + Cardinality(live.alloc) - Cardinality(live.discard)
         /\ live'.bytes = RollingSize(new.bytes, end)
         /\ live' = [alloc |-> {}, avail |-> live'.avail, discard |-> {},
                     ckptAvail |-> CkptAvail(del), bytes |-> live'.bytes]
         /\ unsynced' = (unsynced \cup {RewrittenAt(del, k) : k \in Rewritten(del)}
                           \cup Block(allocAt) \cup Block(discardAt) \cup {availAt})
  BY <1>1, <1>2, <1>3, WriteListsIs
<1>11. PICK lst, av2, ck2, sz2 :
         lst = list' /\ av2 = live'.avail /\ ck2 = live'.ckptAvail /\ sz2 = size'
  OBVIOUS
<1>12. Listed(del, new, lst)
  BY <1>10, <1>11 DEF Listed
<1>13. av2 = AvailAfter(avail, end, m + 1) /\ ck2 = CkptAvail(del) /\ sz2 = new.size
  BY <1>10, <1>11
<1>14. Written(del, n1, avail, end, m, allocAt, discardAt, availAt, took, new)
  BY <1>10
<1>15. /\ lst \in Seq(Checkpoints) /\ Len(lst) = n /\ lst[n] = new
       /\ CkptAvail(del) \subseteq InUse
  BY <1>3, <1>4, <1>7, <1>9, <1>12, <1>14, NewListIs
<1>16. n \in Nat \ {0} /\ at[n] = Live
  BY <1>2, <1>6, AtIs
<1>17. /\ sz2 \in Address /\ InUse \subseteq 1 .. sz2 /\ av2 \subseteq 1 .. sz2
       /\ took \subseteq Blocks /\ av2 \subseteq Blocks /\ InUse \subseteq Blocks
       /\ av2 \cap InUse = {} /\ took \cap InUse = {}
       /\ took = Took(live.avail, size, n1) \cup Took(avail, end, m + 1)
       /\ AvailAfter(avail, end, m) \ {availAt} = av2
  <2>1. /\ new.size \in Address /\ InUse \subseteq 1 .. new.size
        /\ AvailAfter(avail, end, m + 1) \subseteq 1 .. new.size
        /\ took \subseteq Blocks /\ AvailAfter(avail, end, m + 1) \subseteq Blocks
        /\ InUse \subseteq Blocks
        /\ AvailAfter(avail, end, m + 1) \cap InUse = {} /\ took \cap InUse = {}
        /\ took = Took(live.avail, size, n1) \cup Took(avail, end, m + 1)
        /\ AvailAfter(avail, end, m) \ {availAt} = AvailAfter(avail, end, m + 1)
    BY <1>7, <1>14, LaidIs
  <2> QED
    BY <1>13, <2>1
<1>p. Processed(del, n, g, at, A, D, R, I, E, n1, avail, end, m, allocAt, discardAt, availAt,
                took, new, lst)
  BY <1>3, <1>4, <1>7, <1>8, <1>9, <1>12, <1>14, Zenon DEF Processed
<1>18. ASSUME NEW w, Idle(w)
       PROVE  Whole(lst, w, av2, ck2, sz2) /\ Whole(lst, w, av2 \cup ck2, {}, sz2)
  <2>1. /\ Whole(lst, w, AvailAfter(avail, end, m + 1), CkptAvail(del), new.size)
        /\ Whole(lst, w, AvailAfter(avail, end, m + 1) \cup CkptAvail(del), {}, new.size)
    BY <1>18, <1>p, ProcessWhole
  <2> QED
    BY <1>13, <2>1
<1>19. LiveInv'
  <2>1. PICK w2 : w2 = Running'
    OBVIOUS
  <2>2. /\ w2.alloc = live'.alloc /\ w2.discard = live'.discard /\ w2.root = root'.block
        /\ w2.image = BlocksOf(addr') \cup BlocksOf(old')
    BY <2>1 DEF Running
  <2>3. BlocksOf(addr') = BlocksOf(addr) /\ BlocksOf(old') = BlocksOf(old)
    BY <1>1
  <2>4. w2.alloc = {} /\ w2.discard = {} /\ w2.root = 0 /\ w2.image = root.image
    BY <1>1, <1>3, <1>5, <1>10, <2>2, <2>3 DEF NoRoot
  <2>5. Whole(lst, w2, av2, ck2, sz2)
    BY <1>18, <2>4 DEF Idle
  <2>6. ck2 \subseteq Blocks
    BY <1>13, <1>15, <1>17
  <2>7. live' \in LiveTypes
    BY <1>10, <1>11, <1>17, <2>6 DEF LiveTypes
  <2> QED
    BY <1>11, <2>1, <2>5, <2>7 DEF LiveInv, LiveTypes
<1>20. PagesInv'
  BY <1>1 DEF BlockInv, PagesInv, Apart
<1>21. PhaseInv'
  BY <1>1, AddressIs DEF PhaseInv, Phases, NoRoot
<1>22. Consistent(lst)
  <2>1. lst # <<>> /\ lst[Len(lst)] = new
    BY <1>15, <1>16
  <2>2. /\ new.root = root /\ new.addr = addr /\ new.availAt = availAt
        /\ new.avail = AvailAfter(avail, end, m) \cup CkptAvail(del)
    BY <1>14, Zenon DEF Written
  <2>3. availAt \notin ck2
    <3>1. CkptAvail(del) \subseteq Blocks
      BY <1>15, <1>17
    <3>2. new.availAt \in Took(avail, end, m + 1)
      BY <1>3, <1>4, <1>7, <1>14, <3>1, NewIs
    <3>3. availAt \in took
      BY <1>17, <2>2, <3>2
    <3> QED
      BY <1>13, <1>15, <1>17, <3>3
  <2>4. new.avail \ {new.availAt} = av2 \cup ck2
    BY <1>13, <1>17, <2>2, <2>3
  <2>5. PICK w : w = Resumed(lst)
    OBVIOUS
  <2>6. w.alloc = {} /\ w.discard = {} /\ w.root = 0 /\ w.image = root.image
    BY <2>1, <2>2, <2>5 DEF Resumed
  <2>7. Whole(lst, w, av2 \cup ck2, {}, sz2)
    BY <1>18, <2>6 DEF Idle
  <2>8. Whole(lst, Resumed(lst), new.avail \ {new.availAt}, {}, new.size)
    BY <1>13, <2>4, <2>5, <2>7
  <2>9. new.root.image = BlocksOf(new.addr) /\ Apart(new.addr)
    BY <1>3, <1>4, <2>2
  <2> QED
    BY <1>15, <2>1, <2>8, <2>9 DEF Consistent
\* The blocks that are written are none of those a crash may lead to.
<1>23. Fixed \subseteq InUse
  BY DEF Fixed, InUse
<1>24. unsynced' \subseteq unsynced \cup took
  <2>1. /\ Took(live.avail, size, n1) \subseteq took /\ Took(avail, end, m + 1) \subseteq took
    BY <1>17
  <2>2. {RewrittenAt(del, k) : k \in Rewritten(del)} \subseteq took
    <3>1. n1 = Cardinality(Rewritten(del))
      BY <1>14 DEF Written
    <3>2. \A j \in Rewritten(del) : RewrittenAt(del, j) \in Took(live.avail, size, n1)
      BY <1>2, <3>1, RewrittenIs
    <3> QED
      BY <2>1, <3>2
  <2>3. Block(allocAt) \cup Block(discardAt) \cup {availAt} \subseteq took
    <3>1. NewLists(avail, end, Alloc(del, Live), Discard(del, Live), allocAt, m, discardAt, availAt)
      BY <1>14 DEF Written
    <3>2. {allocAt, discardAt, availAt} \ {0} = Took(avail, end, m + 1) /\ availAt # 0
      BY <3>1, NewListsAt
    <3> QED
      BY <2>1, <3>2 DEF Block
  <2> QED
    BY <1>10, <2>2, <2>3
<1>25. unsynced \subseteq Blocks
       /\ \A t \in turtles : Consistent(t.list) /\ Guarded(t.list) /\ Flushed(t.list)
  BY DEF BlockInv, StableInv
<1>26. ASSUME NEW t \in turtles' PROVE (Consistent(t.list) /\ Guarded(t.list) /\ Flushed(t.list))'
  <2>1. PICK l : l = t.list
    OBVIOUS
  <2>2. Consistent(l) /\ Guarded(l) /\ Flushed(l)
    BY <1>1, <1>25, <2>1
  <2>3. \A i \in 1 .. Len(l) : Needed(l[i]) \subseteq InUse
    BY <1>23, <2>2, GuardedFixed
  <2>4. \A i \in 1 .. Len(l) : Needed(l[i]) \subseteq (1 .. size') \ (live'.avail \cup live'.alloc)
    BY <1>10, <1>11, <1>17, <2>3
  <2>5. \A i \in 1 .. Len(l) : Needed(l[i]) \cap unsynced' = {}
    BY <1>17, <1>24, <2>2, <2>3 DEF Flushed
  <2>6. Consistent(l)'
    BY <2>2
  <2>7. Guarded(l)'
    BY <2>4 DEF Guarded
  <2>8. Flushed(l)'
    BY <2>5 DEF Flushed
  <2> QED
    BY <2>1, <2>6, <2>7, <2>8
<1>27. StableInv'
  <2>1. Consistent(list)'
    BY <1>11, <1>22
  <2>2. unsynced' \subseteq Blocks
    BY <1>17, <1>24, <1>25
  <2> QED
    BY <1>1, <1>26, <2>1, <2>2 DEF StableInv
<1> QED
  BY <1>19, <1>20, <1>21, <1>27 DEF BlockInv

-----------------------------------------------------------------------------
(* The invariant, and what it says. *)

\* A new file is whole.
LEMMA WholeEmpty == Whole(<<>>, Resumed(<<>>), {}, {}, 0)
<1>1. PICK lst, w : lst = <<>> /\ w = Resumed(<<>>)
  OBVIOUS
<1>2. /\ lst \in Seq(Checkpoints) /\ Len(lst) = 0
      /\ w.alloc = {} /\ w.discard = {} /\ w.root = 0 /\ w.image = {}
  BY <1>1 DEF Resumed
<1>3. PICK m, A, D, R, I, E :
        /\ m = Len(lst) + 1 /\ A = AllocIn(lst, w) /\ D = DiscardIn(lst, w)
        /\ R = RootIn(lst, w) /\ I = ImageIn(lst, w) /\ E = AtsIn(lst)
  OBVIOUS
<1>4. m = 1 /\ m \in Nat \ {0} /\ \A i \in 1 .. m : i = m
  BY <1>2, <1>3
<1>5. {} \in SUBSET Blocks /\ 0 \in Address
  BY AddressIs
<1>6. /\ A \in [1 .. m -> SUBSET Blocks] /\ A[m] = {}
      /\ D \in [1 .. m -> SUBSET Blocks] /\ D[m] = {}
      /\ R \in [1 .. m -> Address] /\ R[m] = 0
      /\ I \in [1 .. m -> SUBSET Blocks] /\ I[m] = {}
  <2>1. A = [i \in 1 .. m |-> {}]
    BY <1>2, <1>3, <1>4 DEF AllocIn
  <2>2. D = [i \in 1 .. m |-> {}]
    BY <1>2, <1>3, <1>4 DEF DiscardIn
  <2>3. R = [i \in 1 .. m |-> 0]
    BY <1>2, <1>3, <1>4 DEF RootIn
  <2>4. I = [i \in 1 .. m |-> {}]
    BY <1>2, <1>3, <1>4 DEF ImageIn
  <2> QED
    BY <1>4, <1>5, <2>1, <2>2, <2>3, <2>4
<1>7. /\ \A i \in 1 .. m : A[i] = {} /\ D[i] = {} /\ R[i] = 0 /\ I[i] = {}
  BY <1>4, <1>6
<1>8. \A i \in 1 .. m : E[i] = {}
  BY <1>2, <1>3, <1>4 DEF AtsIn
<1>9. Chain(m, A, D, R, I)
  <2>1. ChainType(m, A, D, R, I)
    BY <1>4, <1>6 DEF ChainType
  <2>2. AllocOnce(m, A) /\ DiscardOnce(m, D) /\ DiscardLater(m, A, D)
    BY <1>7 DEF AllocOnce, DiscardOnce, DiscardLater
  <2>3. RootsKept(m, A, D, R, I) /\ ImageExact(m, A, D, R, I)
    BY <1>7 DEF RootsKept, ImageExact
  <2> QED
    BY <2>1, <2>2, <2>3 DEF Chain
<1>10. Space(m, A, E, {}, {}, 0)
  <2>1. 1 .. 0 = {}
    OBVIOUS
  <2> QED
    BY <1>5, <1>7, <1>8, <2>1 DEF Space
<1>11. \A i \in 1 .. Len(lst) : AtsDistinct(lst[i])
  BY <1>2
<1> QED
  BY <1>1, <1>3, <1>9, <1>10, <1>11, Zenon DEF Whole

LEMMA BlockInit == Init => BlockInv
<1> SUFFICES ASSUME Init PROVE BlockInv
  OBVIOUS
<1>1. /\ live = EmptyLive /\ size = 0 /\ unsynced = {} /\ addr = [p \in Pages |-> 0]
      /\ evict = [p \in Pages |-> "no"] /\ old = [p \in Pages |-> 0] /\ phase = "none"
      /\ root = NoRoot /\ list = <<>> /\ turtles = {[whole |-> TRUE, list |-> <<>>]}
  BY DEF Init
<1>2. /\ addr \in [Pages -> Address] /\ old \in [Pages -> Address]
      /\ \A p \in Pages : addr[p] = 0 /\ old[p] = 0 /\ evict[p] = "no"
  BY <1>1, AddressIs
<1>3. /\ live \in LiveTypes /\ live.alloc = {} /\ live.discard = {} /\ live.avail = {}
      /\ live.ckptAvail = {}
  BY <1>1 DEF EmptyLive, LiveTypes
<1>4. BlocksOf(addr) = {} /\ BlocksOf(old) = {}
  BY <1>2 DEF BlocksOf, Block
<1>5. PICK w : w = Running
  OBVIOUS
<1>6. Resumed(<<>>).alloc = {} /\ Resumed(<<>>).discard = {} /\ Resumed(<<>>).root = 0
      /\ Resumed(<<>>).image = {}
  BY DEF Resumed
<1>7. w.alloc = {} /\ w.discard = {} /\ w.root = 0 /\ w.image = {}
  BY <1>1, <1>3, <1>4, <1>5, RunningIs DEF NoRoot
<1>8. Whole(<<>>, w, {}, {}, 0)
  <2>1. <<>> \in Seq(Checkpoints)
    OBVIOUS
  <2> QED
    BY <1>6, <1>7, <2>1, WholeEmpty, WholeSame
<1>9. LiveInv
  BY <1>1, <1>3, <1>5, <1>8 DEF LiveInv, LiveTypes
<1>10. PagesInv
  BY <1>1, <1>2 DEF PagesInv, Apart
<1>11. PhaseInv
  BY <1>1, <1>2, <1>3, AddressIs DEF PhaseInv, Phases, NoRoot
<1>12. Consistent(<<>>)
  BY WholeEmpty DEF Consistent
<1>13. Guarded(<<>>) /\ Flushed(<<>>)
  BY DEF Guarded, Flushed
<1>14. \A t \in turtles : t.list = <<>>
  BY <1>1
<1>15. StableInv
  BY <1>1, <1>12, <1>13, <1>14 DEF StableInv
<1> QED
  BY <1>9, <1>10, <1>11, <1>15 DEF BlockInv

LEMMA BlockStep == BlockInv /\ [Next]_vars => BlockInv'
<1> SUFFICES ASSUME BlockInv, [Next]_vars PROVE BlockInv'
  OBVIOUS
<1>1. CASE UNCHANGED vars
  <2>1. UNCHANGED <<live, size, addr, old, root, list, evict, phase, turtles, unsynced>>
    BY <1>1 DEF vars
  <2>2. LiveInv' /\ PagesInv' /\ Fixed' = Fixed
    BY <2>1, SameLive
  <2>3. PhaseInv'
    BY <2>1 DEF BlockInv, PhaseInv
  <2>4. unsynced \subseteq Blocks
    BY DEF BlockInv, StableInv
  <2>5. StableInv'
    BY <2>1, <2>2, <2>4, StableKept
  <2> QED
    BY <2>2, <2>3, <2>5 DEF BlockInv
<1>2. CASE Next
  <2>1. ASSUME NEW p \in Pages,
               Modify(p) \/ EvictReview(p) \/ EvictWrite(p) \/ EvictFree(p) \/ WalkPage(p)
        PROVE  BlockInv'
    BY <2>1, ModifyKeeps, EvictReviewKeeps, EvictWriteKeeps, EvictFreeKeeps, WalkPageKeeps
  <2>2. CASE \E del \in SUBSET (1 .. Len(list)) : Process(del)
    BY <2>2, ProcessKeeps
  <2>3. CASE Start \/ Drained \/ Fail \/ Sync \/ TurtleSet \/ TurtleSync
    BY <2>3, SimpleStepsKeep
  <2>4. CASE WalkRoot \/ Resolve \/ Crash \/ TurtleRename \/ DirectorySync
    BY <2>4, WalkRootKeeps, ResolveKeeps, CrashKeeps, RenameKeeps
  <2> QED
    BY <1>2, <2>1, <2>2, <2>3, <2>4 DEF Next
<1> QED
  BY <1>1, <1>2

LEMMA BlockAlways == Spec => []BlockInv
  BY BlockInit, BlockStep, PTL DEF Spec

\* Whatever the moment of a crash, every block of every checkpoint that the turtle file
\* may lead to is inside the file and on disk: Resolve makes available what a checkpoint
\* freed only once the list without it is in stable storage, and the file is flushed
\* before a list that names its blocks is (__wt_block_checkpoint_resolve).
THEOREM CheckpointsRecoverable == Spec => []Recoverable
<1>1. BlockInv => Recoverable
  <2> SUFFICES ASSUME BlockInv, NEW t \in turtles, NEW i \in DOMAIN t.list
               PROVE  Needed(t.list[i]) \subseteq (1 .. size) \ unsynced
    BY DEF Recoverable
  <2>1. PICK l : l = t.list
    OBVIOUS
  <2>2. Consistent(l) /\ Guarded(l) /\ Flushed(l)
    BY <2>1 DEF BlockInv, StableInv
  <2>3. i \in 1 .. Len(l)
    BY <2>1, <2>2 DEF Consistent
  <2>4. /\ Needed(l[i]) \subseteq (1 .. size) \ (live.avail \cup live.alloc)
        /\ Needed(l[i]) \cap unsynced = {}
    BY <2>2, <2>3 DEF Guarded, Flushed
  <2> QED
    BY <2>1, <2>4
<1> QED
  BY <1>1, BlockAlways, PTL

\* The root, and the pages of the running checkpoint, are blocks of the live system.
LEMMA RootGuarded ==
    ASSUME BlockInv
    PROVE  (root.image \cup Block(root.block)) \subseteq (1 .. size) \ live.avail
<1>1. /\ list \in Seq(Checkpoints) /\ Whole(list, Running, live.avail, live.ckptAvail, size)
      /\ root \in [block : Address, image : SUBSET Blocks]
  BY LiveFacts DEF BlockInv, PhaseInv
<1>2. CASE phase # "root"
  BY <1>2 DEF BlockInv, PhaseInv, NoRoot, Block
<1>3. CASE phase = "root"
  <2>1. root.image = BlocksOf(addr)
    BY <1>3 DEF BlockInv, PhaseInv
  <2>2. PICK m, A, D, R, I, E :
          /\ m = Len(list) + 1 /\ A = AllocIn(list, Running) /\ D = DiscardIn(list, Running)
          /\ R = RootIn(list, Running) /\ I = ImageIn(list, Running) /\ E = AtsIn(list)
    OBVIOUS
  <2>3. Chain(m, A, D, R, I) /\ Space(m, A, E, live.avail, live.ckptAvail, size)
    BY <1>1, <2>2, Zenon DEF Whole
  <2>4. m \in 1 .. m /\ R[m] = root.block /\ I[m] = BlocksOf(addr) \cup BlocksOf(old)
    <3>1. /\ Running.alloc \in SUBSET Blocks /\ Running.discard \in SUBSET Blocks
          /\ Running.root \in Address /\ Running.image \in SUBSET Blocks
      BY <1>1, WholeType
    <3>2. m \in 1 .. m /\ R[m] = Running.root /\ I[m] = Running.image
      BY <1>1, <2>2, <3>1, Epochs
    <3> QED
      BY <3>2, RunningIs
  <2>5. \A i \in 1 .. m : A[i] \subseteq (1 .. size) \ live.avail
    BY <2>3 DEF Space
  <2>6. I[m] \subseteq (1 .. size) \ live.avail
    <3>1. I[m] \subseteq Blocks
      BY <2>3, <2>4 DEF Chain, ChainType
    <3>2. \A b \in I[m] : \E j \in 1 .. m : b \in A[j]
      BY <2>3, <2>4, <3>1 DEF Chain, ImageExact
    <3> QED
      BY <2>5, <3>2
  <2>7. Block(root.block) \subseteq (1 .. size) \ live.avail
    <3>1. root.block # 0 => root.block \in A[m]
      BY <2>3, <2>4 DEF Chain, RootsKept
    <3> QED
      BY <2>4, <2>5, <3>1 DEF Block
  <2> QED
    BY <2>1, <2>4, <2>6, <2>7
<1> QED
  BY <1>2, <1>3

\* No block of a checkpoint, the one being made included, can be allocated or cut off,
\* however the checkpoint, the evictions, the deletions of checkpoints and crashes
\* interleave (btree_inline.h:1981).
THEOREM CheckpointsNotReused == Spec => []NotReusable
<1>1. BlockInv => NotReusable
  <2> SUFFICES ASSUME BlockInv PROVE NotReusable
    OBVIOUS
  <2>1. list \in Seq(Checkpoints) /\ Guarded(list)
    BY LiveFacts, WholeGuarded
  <2>2. \A i \in DOMAIN list : Needed(list[i]) \subseteq (1 .. size) \ live.avail
    <3>1. DOMAIN list = 1 .. Len(list)
      BY <2>1
    <3> QED
      BY <2>1, <3>1 DEF Guarded
  <2> QED
    BY <2>2, RootGuarded DEF NotReusable
<1> QED
  BY <1>1, BlockAlways, PTL
-----------------------------------------------------------------------------
(* The places of a block. *)

LEMMA FunctionSeq ==
    ASSUME NEW S, NEW n \in Nat, NEW f \in [1 .. n -> S]
    PROVE  f \in Seq(S) /\ Len(f) = n
  OBVIOUS

LEMMA LenConcat ==
    ASSUME NEW S, NEW s \in Seq(S), NEW t \in Seq(S)
    PROVE  Len(s \o t) = Len(s) + Len(t)
  OBVIOUS

LEMMA LaterConcat ==
    ASSUME NEW S, NEW s \in Seq(S), NEW t \in Seq(S)
    PROVE  \A i \in 1 .. Len(t) : (s \o t)[Len(s) + i] = t[i]
  OBVIOUS

\* The sequence t is s, of length a, and then the function f on 1 .. n.
Joins(S, s, a, f, n, t) ==
    s \in Seq(S) /\ Len(s) = a /\ n \in Nat /\ f \in [1 .. n -> S] /\ t = s \o f
Joined(s, a, f, n, t) ==
    /\ \A i \in 1 .. a : t[i] = s[i]
    /\ \A i \in 1 .. n : t[a + i] = f[i]

LEMMA Joining ==
    ASSUME NEW S, NEW s, NEW a, NEW f, NEW n, NEW t, Joins(S, s, a, f, n, t)
    PROVE  t \in Seq(S) /\ Len(t) = a + n /\ Joined(s, a, f, n, t)
<1>1. /\ s \in Seq(S) /\ Len(s) = a /\ n \in Nat /\ f \in [1 .. n -> S] /\ t = s \o f
      /\ a \in Nat
  BY DEF Joins
<1>2. f \in Seq(S) /\ Len(f) = n
  BY <1>1, FunctionSeq
<1>3. t \in Seq(S)
  BY <1>1, <1>2
<1>4. Len(t) = a + n
  <2>1. Len(s \o f) = Len(s) + Len(f)
    BY <1>1, <1>2, LenConcat
  <2> QED
    BY <1>1, <1>2, <2>1
<1>5. \A i \in 1 .. a : t[i] = s[i]
  BY <1>1, <1>2
<1>6. \A i \in 1 .. n : t[a + i] = f[i]
  BY <1>1, <1>2
<1> QED
  BY <1>3, <1>4, <1>5, <1>6 DEF Joined

LEMMA PartsIs ==
    ASSUME BlockInv, NEW n, n = Len(list)
    PROVE  /\ n \in Nat /\ DOMAIN Parts = 1 .. (3 + 4 * n)
           /\ Parts[1] = live.avail /\ Parts[2] = live.ckptAvail /\ Parts[3] = live.alloc
           /\ \A i \in 1 .. n : /\ Parts[3 + i] = list[i].alloc
                                /\ Parts[3 + n + i] = Block(list[i].allocAt)
                                /\ Parts[3 + n + n + i] = Block(list[i].discardAt)
                                /\ Parts[3 + n + n + n + i] = Block(list[i].availAt)
<1> DEFINE s0 == <<live.avail, live.ckptAvail, live.alloc>>
           f1 == [i \in DOMAIN list |-> list[i].alloc]
           f2 == [i \in DOMAIN list |-> Block(list[i].allocAt)]
           f3 == [i \in DOMAIN list |-> Block(list[i].discardAt)]
           f4 == [i \in DOMAIN list |-> Block(list[i].availAt)]
           S == SUBSET Blocks
<1>1. list \in Seq(Checkpoints) /\ live \in LiveTypes
  BY LiveFacts
<1>2. n \in Nat /\ DOMAIN list = 1 .. n
  BY <1>1
<1>3. \A i \in 1 .. n : /\ list[i].alloc \in S /\ list[i].allocAt \in Address
                        /\ list[i].discardAt \in Address /\ list[i].availAt \in Address
  <2>1. \A i \in 1 .. n : list[i] \in Checkpoints
    BY <1>1, <1>2
  <2> QED
    BY <2>1 DEF Checkpoints
<1>4. \A a \in Address : Block(a) \in S
  BY AddressIs DEF Block
<1>5. s0 \in Seq(S) /\ Len(s0) = 3 /\ s0[1] = live.avail /\ s0[2] = live.ckptAvail
      /\ s0[3] = live.alloc
  BY <1>1 DEF LiveTypes
<1>6. f1 \in [1 .. n -> S] /\ f2 \in [1 .. n -> S] /\ f3 \in [1 .. n -> S] /\ f4 \in [1 .. n -> S]
  BY <1>2, <1>3, <1>4
<1>7. \A i \in 1 .. n : /\ f1[i] = list[i].alloc /\ f2[i] = Block(list[i].allocAt)
                        /\ f3[i] = Block(list[i].discardAt) /\ f4[i] = Block(list[i].availAt)
  BY <1>2
<1>8. Parts = (((s0 \o f1) \o f2) \o f3) \o f4
  BY DEF Parts
<1> HIDE DEF s0, f1, f2, f3, f4, S
<1>9. PICK s1, s2, s3, s4 : s1 = s0 \o f1 /\ s2 = s1 \o f2 /\ s3 = s2 \o f3 /\ s4 = s3 \o f4
  OBVIOUS
<1>10. PICK a1 \in Nat, a2 \in Nat, a3 \in Nat : a1 = 3 + n /\ a2 = 3 + n + n /\ a3 = 3 + n + n + n
  BY <1>2
<1>11. /\ s1 \in Seq(S) /\ Len(s1) = a1
       /\ Joined(s0, 3, f1, n, s1)
  <2>1. Joins(S, s0, 3, f1, n, s1)
    BY <1>2, <1>6, <1>9, <1>5 DEF Joins
  <2>2. s1 \in Seq(S) /\ Len(s1) = 3 + n /\ Joined(s0, 3, f1, n, s1)
    BY <2>1, Joining
  <2> QED
    BY <1>10, <2>2
<1>13. /\ s2 \in Seq(S) /\ Len(s2) = a2
       /\ Joined(s1, a1, f2, n, s2)
  <2>1. Joins(S, s1, a1, f2, n, s2)
    BY <1>2, <1>6, <1>9, <1>11 DEF Joins
  <2>2. s2 \in Seq(S) /\ Len(s2) = a1 + n /\ Joined(s1, a1, f2, n, s2)
    BY <2>1, Joining
  <2> QED
    BY <1>10, <2>2
<1>15. /\ s3 \in Seq(S) /\ Len(s3) = a3
       /\ Joined(s2, a2, f3, n, s3)
  <2>1. Joins(S, s2, a2, f3, n, s3)
    BY <1>2, <1>6, <1>9, <1>13 DEF Joins
  <2>2. s3 \in Seq(S) /\ Len(s3) = a2 + n /\ Joined(s2, a2, f3, n, s3)
    BY <2>1, Joining
  <2> QED
    BY <1>10, <2>2
<1>17. /\ s4 \in Seq(S) /\ Len(s4) = a3 + n
       /\ Joined(s3, a3, f4, n, s4)
  <2>1. Joins(S, s3, a3, f4, n, s4)
    BY <1>2, <1>6, <1>9, <1>15 DEF Joins
  <2>2. s4 \in Seq(S) /\ Len(s4) = a3 + n /\ Joined(s3, a3, f4, n, s4)
    BY <2>1, Joining
  <2> QED
    BY <1>10, <2>2
<1>18. Parts = s4
  BY <1>8, <1>9
<1>19. DOMAIN s4 = 1 .. (3 + 4 * n)
  <2>1. a3 + n = 3 + 4 * n
    BY <1>2, <1>10
  <2> QED
    BY <1>17, <2>1
<1>20. ASSUME NEW i \in 1 .. 3 PROVE s4[i] = s0[i]
  <2>1. i \in 1 .. a1 /\ i \in 1 .. a2 /\ i \in 1 .. a3
    BY <1>2, <1>10
  <2>2. s1[i] = s0[i]
    BY <1>11 DEF Joined
  <2>3. s2[i] = s1[i]
    BY <1>13, <2>1 DEF Joined
  <2>4. s3[i] = s2[i]
    BY <1>15, <2>1 DEF Joined
  <2>5. s4[i] = s3[i]
    BY <1>17, <2>1 DEF Joined
  <2> QED
    BY <2>2, <2>3, <2>4, <2>5
<1>21. ASSUME NEW i \in 1 .. n
       PROVE  /\ s4[3 + i] = f1[i] /\ s4[a1 + i] = f2[i] /\ s4[a2 + i] = f3[i]
              /\ s4[a3 + i] = f4[i]
  <2>1. /\ 3 + i \in 1 .. a1 /\ 3 + i \in 1 .. a2 /\ 3 + i \in 1 .. a3
        /\ a1 + i \in 1 .. a2 /\ a1 + i \in 1 .. a3 /\ a2 + i \in 1 .. a3
    BY <1>2, <1>10
  <2>2. s1[3 + i] = f1[i]
    BY <1>11 DEF Joined
  <2>3. s2[3 + i] = s1[3 + i] /\ s2[a1 + i] = f2[i]
    BY <1>13, <2>1 DEF Joined
  <2>4. s3[3 + i] = s2[3 + i] /\ s3[a1 + i] = s2[a1 + i] /\ s3[a2 + i] = f3[i]
    BY <1>15, <2>1 DEF Joined
  <2>5. s4[3 + i] = s3[3 + i] /\ s4[a1 + i] = s3[a1 + i] /\ s4[a2 + i] = s3[a2 + i]
        /\ s4[a3 + i] = f4[i]
    BY <1>17, <2>1 DEF Joined
  <2> QED
    BY <2>2, <2>3, <2>4, <2>5
<1>22. s4[1] = live.avail /\ s4[2] = live.ckptAvail /\ s4[3] = live.alloc
  <2>1. 1 \in 1 .. 3 /\ 2 \in 1 .. 3 /\ 3 \in 1 .. 3
    OBVIOUS
  <2> QED
    BY <1>5, <1>20, <2>1
<1>23. \A i \in 1 .. n : /\ s4[3 + i] = list[i].alloc
                         /\ s4[a1 + i] = Block(list[i].allocAt)
                         /\ s4[a2 + i] = Block(list[i].discardAt)
                         /\ s4[a3 + i] = Block(list[i].availAt)
  BY <1>7, <1>21
<1> QED
  BY <1>2, <1>10, <1>18, <1>19, <1>22, <1>23
\* Place k of the list of the system, with what its epochs allocated, has block b.
InPlace(b, k, n, A) ==
    \/ k = 1 /\ b \in live.avail
    \/ k = 2 /\ b \in live.ckptAvail
    \/ k = 3 /\ b \in A[n + 1]
    \/ \E i \in 1 .. n : \/ k = 3 + i /\ b \in A[i]
                         \/ k = 3 + n + i /\ b = list[i].allocAt
                         \/ k = 3 + n + n + i /\ b = list[i].discardAt
                         \/ k = 3 + n + n + n + i /\ b = list[i].availAt

LEMMA PlacesAre ==
    ASSUME BlockInv, NEW b \in Nat \ {0}, NEW k \in DOMAIN Parts
    PROVE  b \in Parts[k] <=> InPlace(b, k, Len(list), AllocIn(list, Running))
<1>0. PICK n, m, A : n = Len(list) /\ m = n + 1 /\ A = AllocIn(list, Running)
  OBVIOUS
<1>1. /\ n \in Nat /\ DOMAIN Parts = 1 .. (3 + 4 * n)
      /\ Parts[1] = live.avail /\ Parts[2] = live.ckptAvail /\ Parts[3] = live.alloc
      /\ \A i \in 1 .. n : /\ Parts[3 + i] = list[i].alloc
                           /\ Parts[3 + n + i] = Block(list[i].allocAt)
                           /\ Parts[3 + n + n + i] = Block(list[i].discardAt)
                           /\ Parts[3 + n + n + n + i] = Block(list[i].availAt)
  BY <1>0, PartsIs
<1>2. A[m] = live.alloc /\ \A i \in 1 .. n : A[i] = list[i].alloc
  <2>1. A[m] = Running.alloc
    BY <1>0, <1>1 DEF AllocIn
  <2>2. \A i \in 1 .. n : A[i] = list[i].alloc
    BY <1>0, <1>1 DEF AllocIn
  <2> QED
    BY <2>1, <2>2, RunningIs
<1>3. \A a : b \in Block(a) <=> b = a
  BY DEF Block
<1>4. PICK P : P = Parts
  OBVIOUS
<1>5. /\ \A i \in 1 .. n : /\ b \in P[3 + i] <=> b \in A[i]
                           /\ b \in P[3 + n + i] <=> b = list[i].allocAt
                           /\ b \in P[3 + n + n + i] <=> b = list[i].discardAt
                           /\ b \in P[3 + n + n + n + i] <=> b = list[i].availAt
      /\ b \in P[1] <=> b \in live.avail
      /\ b \in P[2] <=> b \in live.ckptAvail
      /\ b \in P[3] <=> b \in A[m]
  BY <1>1, <1>2, <1>3, <1>4
<1>6. k \in 1 .. (3 + 4 * n)
  BY <1>1
<1>7. ASSUME k \in {1, 2, 3} PROVE b \in P[k] <=> InPlace(b, k, n, A)
  <2>1. \A i \in 1 .. n : k # 3 + i /\ k # 3 + n + i /\ k # 3 + n + n + i /\ k # 3 + n + n + n + i
    BY <1>1, <1>7
  <2> QED
    BY <1>0, <1>4, <1>5, <1>7, <2>1 DEF InPlace
<1>8. ASSUME k \notin {1, 2, 3} PROVE b \in P[k] <=> InPlace(b, k, n, A)
  <2>1. \E i \in 1 .. n : k = 3 + i \/ k = 3 + n + i \/ k = 3 + n + n + i \/ k = 3 + n + n + n + i
    <3>0. k \in Nat /\ n \in Nat /\ k # 0
      BY <1>1, <1>6
    <3>1. CASE k <= 3 + n
      <4>1. k - 3 \in 1 .. n /\ k = 3 + (k - 3)
        BY <1>8, <3>0, <3>1
      <4> QED
        BY <4>1
    <3>2. CASE k > 3 + n /\ k <= 3 + n + n
      <4>1. k - (3 + n) \in 1 .. n /\ k = 3 + n + (k - (3 + n))
        BY <1>1, <1>6, <3>2
      <4> QED
        BY <4>1
    <3>3. CASE k > 3 + n + n /\ k <= 3 + n + n + n
      <4>1. k - (3 + n + n) \in 1 .. n /\ k = 3 + n + n + (k - (3 + n + n))
        BY <1>1, <1>6, <3>3
      <4> QED
        BY <4>1
    <3>4. CASE k > 3 + n + n + n
      <4>1. k - (3 + n + n + n) \in 1 .. n /\ k = 3 + n + n + n + (k - (3 + n + n + n))
        BY <1>1, <1>6, <3>4
      <4> QED
        BY <4>1
    <3>5. k \in Nat /\ n \in Nat
      BY <1>1, <1>6
    <3>6. \/ k <= 3 + n
          \/ k > 3 + n /\ k <= 3 + n + n
          \/ k > 3 + n + n /\ k <= 3 + n + n + n
          \/ k > 3 + n + n + n
      BY <3>5
    <3> QED
      BY <3>1, <3>2, <3>3, <3>4, <3>6
  <2>2. PICK i \in 1 .. n :
          k = 3 + i \/ k = 3 + n + i \/ k = 3 + n + n + i \/ k = 3 + n + n + n + i
    BY <2>1
  <2>3. \A j \in 1 .. n : /\ 3 + i = 3 + j => j = i
                          /\ 3 + n + i = 3 + n + j => j = i
                          /\ 3 + n + n + i = 3 + n + n + j => j = i
                          /\ 3 + n + n + n + i = 3 + n + n + n + j => j = i
                          /\ 3 + i # 3 + n + j /\ 3 + i # 3 + n + n + j
                          /\ 3 + i # 3 + n + n + n + j
                          /\ 3 + n + i # 3 + j /\ 3 + n + i # 3 + n + n + j
                          /\ 3 + n + i # 3 + n + n + n + j
                          /\ 3 + n + n + i # 3 + j /\ 3 + n + n + i # 3 + n + j
                          /\ 3 + n + n + i # 3 + n + n + n + j
                          /\ 3 + n + n + n + i # 3 + j /\ 3 + n + n + n + i # 3 + n + j
                          /\ 3 + n + n + n + i # 3 + n + n + j
    BY <1>1
  <2>4. CASE k = 3 + i
    BY <1>0, <1>4, <1>5, <1>8, <2>3, <2>4 DEF InPlace
  <2>5. CASE k = 3 + n + i
    BY <1>0, <1>4, <1>5, <1>8, <2>3, <2>5 DEF InPlace
  <2>6. CASE k = 3 + n + n + i
    BY <1>0, <1>4, <1>5, <1>8, <2>3, <2>6 DEF InPlace
  <2>7. CASE k = 3 + n + n + n + i
    BY <1>0, <1>4, <1>5, <1>8, <2>3, <2>7 DEF InPlace
  <2> QED
    BY <2>2, <2>4, <2>5, <2>6, <2>7
<1>9. b \in P[k] <=> InPlace(b, k, n, A)
  BY <1>7, <1>8
<1> QED
  BY <1>0, <1>4, <1>9

\* Where a block of a whole file is: the facts of Space, for the list of the system.
LEMMA OnePlace ==
    ASSUME BlockInv, NEW b \in 1 .. size
    PROVE  \E k \in DOMAIN Parts : \A l \in DOMAIN Parts : b \in Parts[l] <=> l = k
<1>1. PICK n, m, A, D, R, I, E :
        /\ n = Len(list) /\ m = n + 1 /\ A = AllocIn(list, Running)
        /\ D = DiscardIn(list, Running) /\ R = RootIn(list, Running)
        /\ I = ImageIn(list, Running) /\ E = AtsIn(list)
  OBVIOUS
<1>2. /\ list \in Seq(Checkpoints) /\ Whole(list, Running, live.avail, live.ckptAvail, size)
      /\ size \in Nat
  BY LiveFacts
<1>3. /\ Chain(m, A, D, R, I) /\ Space(m, A, E, live.avail, live.ckptAvail, size)
      /\ \A i \in 1 .. n : AtsDistinct(list[i])
  BY <1>1, <1>2, Zenon DEF Whole
<1>4. n \in Nat /\ m \in 1 .. m /\ \A i \in 1 .. m : i = m \/ i \in 1 .. n
  BY <1>1, <1>2
<1>5. \A i \in 1 .. n : i \in 1 .. m /\ i # m
  BY <1>1, <1>4
<1>6. /\ \A i \in 1 .. n : E[i] = Ats(list[i])
      /\ E[m] = {}
  BY <1>1, <1>4, <1>5 DEF AtsIn
<1>7. b \in Nat \ {0}
  BY <1>2
<1>8. \A i \in 1 .. n : b \in E[i] <=>
         b = list[i].allocAt \/ b = list[i].discardAt \/ b = list[i].availAt
  BY <1>6, <1>7 DEF Ats
\* The four exclusive places.
<1>9. /\ \A i \in 1 .. m : b \in A[i] => b \notin live.avail /\ b \notin live.ckptAvail
      /\ \A i \in 1 .. m : b \in E[i] => b \notin live.avail /\ b \notin live.ckptAvail
      /\ \A i, j \in 1 .. m : ~(b \in A[i] /\ b \in E[j])
      /\ \A i, j \in 1 .. m : b \in E[i] /\ b \in E[j] => i = j
      /\ b \in live.ckptAvail => b \notin live.avail
      /\ b \in live.avail \/ b \in live.ckptAvail \/ \E i \in 1 .. m : b \in A[i] \/ b \in E[i]
  BY <1>3 DEF Space
<1>10. \A i, j \in 1 .. m : b \in A[i] /\ b \in A[j] => i = j
  BY <1>3 DEF Chain, AllocOnce
<1>11. \A l \in DOMAIN Parts : b \in Parts[l] <=>
             \/ l = 1 /\ b \in live.avail
             \/ l = 2 /\ b \in live.ckptAvail
             \/ l = 3 /\ b \in A[m]
             \/ \E i \in 1 .. n : \/ l = 3 + i /\ b \in A[i]
                                  \/ l = 3 + n + i /\ b = list[i].allocAt
                                  \/ l = 3 + n + n + i /\ b = list[i].discardAt
                                  \/ l = 3 + n + n + n + i /\ b = list[i].availAt
  <2>1. \A l \in DOMAIN Parts : b \in Parts[l] <=> InPlace(b, l, Len(list), AllocIn(list, Running))
    BY <1>7, PlacesAre
  <2> QED
    BY <1>1, <2>1 DEF InPlace
<1>12. DOMAIN Parts = 1 .. (3 + 4 * n)
  BY <1>1, PartsIs
<1>13. \A i \in 1 .. n : /\ 3 + i \in DOMAIN Parts /\ 3 + n + i \in DOMAIN Parts
                         /\ 3 + n + n + i \in DOMAIN Parts
                         /\ 3 + n + n + n + i \in DOMAIN Parts
  BY <1>4, <1>12
<1>14. 1 \in DOMAIN Parts /\ 2 \in DOMAIN Parts /\ 3 \in DOMAIN Parts
  BY <1>4, <1>12
<1>15. PICK P : P = Parts
  OBVIOUS
<1>16. CASE b \in live.avail
  <2>1. b \notin live.ckptAvail /\ \A i \in 1 .. m : b \notin A[i] /\ b \notin E[i]
    BY <1>9, <1>16
  <2>2. \A l \in DOMAIN Parts : b \in Parts[l] <=> l = 1
    BY <1>4, <1>5, <1>8, <1>11, <1>16, <2>1
  <2> QED
    BY <1>14, <2>2
<1>17. CASE b \in live.ckptAvail
  <2>1. b \notin live.avail /\ \A i \in 1 .. m : b \notin A[i] /\ b \notin E[i]
    BY <1>9, <1>17
  <2>2. \A l \in DOMAIN Parts : b \in Parts[l] <=> l = 2
    BY <1>4, <1>5, <1>8, <1>11, <1>17, <2>1
  <2> QED
    BY <1>14, <2>2
<1>18. CASE b \in A[m]
  <2>1. /\ b \notin live.avail /\ b \notin live.ckptAvail /\ \A i \in 1 .. m : b \notin E[i]
        /\ \A i \in 1 .. n : b \notin A[i]
    BY <1>4, <1>5, <1>9, <1>10, <1>18
  <2>2. \A l \in DOMAIN Parts : b \in Parts[l] <=> l = 3
    BY <1>5, <1>8, <1>11, <1>18, <2>1
  <2> QED
    BY <1>14, <2>2
<1>19. ASSUME NEW i \in 1 .. n, b \in A[i]
       PROVE  \E k \in DOMAIN Parts : \A l \in DOMAIN Parts : b \in Parts[l] <=> l = k
  <2>1. /\ b \notin live.avail /\ b \notin live.ckptAvail /\ \A j \in 1 .. m : b \notin E[j]
        /\ b \notin A[m] /\ \A j \in 1 .. n : b \in A[j] <=> j = i
    BY <1>4, <1>5, <1>9, <1>10, <1>19
  <2>2. \A l \in DOMAIN Parts : b \in Parts[l] <=> l = 3 + i
    BY <1>5, <1>8, <1>11, <2>1
  <2> QED
    BY <1>13, <2>2
<1>20. ASSUME NEW i \in 1 .. n, b \in E[i]
       PROVE  \E k \in DOMAIN Parts : \A l \in DOMAIN Parts : b \in Parts[l] <=> l = k
  <2>1. /\ b \notin live.avail /\ b \notin live.ckptAvail /\ \A j \in 1 .. m : b \notin A[j]
        /\ \A j \in 1 .. n : b \in E[j] <=> j = i
    BY <1>4, <1>5, <1>9, <1>20
  <2>2. \A j \in 1 .. n : j # i =>
           b # list[j].allocAt /\ b # list[j].discardAt /\ b # list[j].availAt
    BY <1>8, <2>1
  <2>3. AtsDistinct(list[i])
    BY <1>3
  <2>4. \A l \in DOMAIN Parts : b \in Parts[l] <=>
             \/ l = 3 + n + i /\ b = list[i].allocAt
             \/ l = 3 + n + n + i /\ b = list[i].discardAt
             \/ l = 3 + n + n + n + i /\ b = list[i].availAt
    BY <1>4, <1>5, <1>11, <2>1, <2>2
  <2>5. CASE b = list[i].allocAt
    <3>1. b # list[i].discardAt /\ b # list[i].availAt
      BY <1>7, <2>3, <2>5 DEF AtsDistinct
    <3>2. \A l \in DOMAIN Parts : b \in Parts[l] <=> l = 3 + n + i
      BY <2>4, <2>5, <3>1
    <3> QED
      BY <1>13, <3>2
  <2>6. CASE b = list[i].discardAt
    <3>1. b # list[i].allocAt /\ b # list[i].availAt
      BY <1>7, <2>3, <2>6 DEF AtsDistinct
    <3>2. \A l \in DOMAIN Parts : b \in Parts[l] <=> l = 3 + n + n + i
      BY <2>4, <2>6, <3>1
    <3> QED
      BY <1>13, <3>2
  <2>7. CASE b = list[i].availAt
    <3>1. b # list[i].allocAt /\ b # list[i].discardAt
      BY <1>7, <2>3, <2>7 DEF AtsDistinct
    <3>2. \A l \in DOMAIN Parts : b \in Parts[l] <=> l = 3 + n + n + n + i
      BY <2>4, <2>7, <3>1
    <3> QED
      BY <1>13, <3>2
  <2> QED
    BY <1>8, <1>20, <2>5, <2>6, <2>7
<1>21. CASE \E i \in 1 .. m : b \in A[i] \/ b \in E[i]
  <2>1. PICK i \in 1 .. m : b \in A[i] \/ b \in E[i]
    BY <1>21
  <2>2. CASE i = m
    BY <1>6, <1>18, <2>1, <2>2
  <2>3. CASE i # m
    <3>1. i \in 1 .. n
      BY <1>4, <2>3
    <3> QED
      BY <1>19, <1>20, <2>1, <3>1
  <2> QED
    BY <2>2, <2>3
<1> QED
  BY <1>9, <1>16, <1>17, <1>21

\* What a checkpoint discards was allocated by an earlier one, and is discarded once.
LEMMA DiscardsAre ==
    ASSUME BlockInv, NEW i \in DOMAIN Discards
    PROVE  /\ Discards[i] \subseteq UNION {list[j].alloc : j \in 1 .. (i - 1)}
           /\ \A j \in 1 .. (i - 1) : Discards[i] \cap Discards[j] = {}
<1>1. PICK n, m, A, D, R, I, E :
        /\ n = Len(list) /\ m = n + 1 /\ A = AllocIn(list, Running)
        /\ D = DiscardIn(list, Running) /\ R = RootIn(list, Running)
        /\ I = ImageIn(list, Running) /\ E = AtsIn(list)
  OBVIOUS
<1>2. /\ list \in Seq(Checkpoints) /\ Whole(list, Running, live.avail, live.ckptAvail, size)
      /\ live \in LiveTypes
  BY LiveFacts
<1>3. Chain(m, A, D, R, I)
  BY <1>1, <1>2, Zenon DEF Whole
<1>4. n \in Nat /\ DOMAIN list = 1 .. n
  BY <1>1, <1>2
<1>5. D[m] = live.discard /\ \A j \in 1 .. n : D[j] = list[j].discard /\ A[j] = list[j].alloc
  <2>1. D[m] = Running.discard
    BY <1>1, <1>4 DEF DiscardIn
  <2>2. \A j \in 1 .. n : D[j] = list[j].discard
    BY <1>1, <1>4 DEF DiscardIn
  <2>3. \A j \in 1 .. n : A[j] = list[j].alloc
    BY <1>1, <1>4 DEF AllocIn
  <2> QED
    BY <2>1, <2>2, <2>3, RunningIs
<1>6. DOMAIN Discards = 1 .. m /\ \A j \in 1 .. m : Discards[j] = D[j]
  <2> DEFINE f == [j \in DOMAIN list |-> list[j].discard]
             s == <<live.discard>>
             S == SUBSET Blocks
  <2>1. \A j \in 1 .. n : list[j] \in Checkpoints
    BY <1>2, <1>4
  <2>2. f \in [1 .. n -> S]
    BY <1>4, <2>1 DEF Checkpoints
  <2>3. s \in Seq(S) /\ Len(s) = 1 /\ s[1] = live.discard
    BY <1>2 DEF LiveTypes
  <2>4. Discards = f \o s /\ \A j \in 1 .. n : f[j] = list[j].discard
    BY <1>4 DEF Discards
  <2> HIDE DEF f, s, S
  <2>5. f \in Seq(S) /\ Len(f) = n
    BY <1>4, <2>2, FunctionSeq
  <2>6. Len(f \o s) = n + 1 /\ f \o s \in Seq(S)
    <3>1. Len(f \o s) = Len(f) + Len(s)
      BY <2>3, <2>5, LenConcat
    <3>2. f \o s \in Seq(S)
      BY <2>3, <2>5
    <3> QED
      BY <2>3, <2>5, <3>1, <3>2
  <2>7. \A j \in 1 .. n : (f \o s)[j] = f[j]
    BY <2>3, <2>5
  <2>8. (f \o s)[n + 1] = s[1]
    <3>1. \A j \in 1 .. Len(s) : (f \o s)[Len(f) + j] = s[j]
      BY <2>3, <2>5, LaterConcat
    <3>2. 1 \in 1 .. Len(s)
      BY <2>3
    <3>3. (f \o s)[Len(f) + 1] = s[1]
      BY <3>1, <3>2
    <3> QED
      BY <2>5, <3>3
  <2>9. \A j \in 1 .. m : j \in 1 .. n \/ j = m
    BY <1>1, <1>4
  <2>10. PICK g : g = f \o s
    OBVIOUS
  <2>11. DOMAIN g = 1 .. m
    BY <1>1, <2>6, <2>10
  <2>12. \A j \in 1 .. m : g[j] = D[j]
    BY <1>1, <1>5, <2>3, <2>4, <2>7, <2>8, <2>9, <2>10
  <2> QED
    BY <2>4, <2>10, <2>11, <2>12
<1>7. i \in 1 .. m /\ m \in Nat
  BY <1>1, <1>4, <1>6
<1>8. \A j \in 1 .. (i - 1) : j \in 1 .. n /\ j \in 1 .. m /\ j # i
  BY <1>1, <1>4, <1>7
<1>9. \A b \in D[i] : \E j \in 1 .. m : j < i /\ b \in A[j]
  BY <1>3, <1>7 DEF Chain, DiscardLater
<1>10. \A j \in 1 .. m : j < i => j \in 1 .. (i - 1)
  BY <1>7
<1>11. \A b \in D[i] : \E j \in 1 .. (i - 1) : b \in list[j].alloc
  BY <1>5, <1>8, <1>9, <1>10
<1>12. \A j \in 1 .. m : j # i => D[i] \cap D[j] = {}
  BY <1>3, <1>7 DEF Chain, DiscardOnce
<1>13. Discards[i] = D[i] /\ \A j \in 1 .. (i - 1) : Discards[j] = D[j]
  BY <1>6, <1>7, <1>8
<1>14. \A b \in Discards[i] : b \in UNION {list[j].alloc : j \in 1 .. (i - 1)}
  BY <1>11, <1>13
<1>15. \A j \in 1 .. (i - 1) : Discards[i] \cap Discards[j] = {}
  BY <1>8, <1>12, <1>13
<1> QED
  BY <1>14, <1>15

\* Every block of the file is in exactly one place, and what a checkpoint discards is
\* on the alloc list of an earlier one, once: no sequence of evictions, checkpoints,
\* deletions and crashes loses a block or has it free twice (block_ckpt.c:915-928).
THEOREM BlocksAccounted == Spec => []Accounted
<1>1. BlockInv => Accounted
  <2> SUFFICES ASSUME BlockInv PROVE Accounted
    OBVIOUS
  <2>1. ASSUME NEW b \in 1 .. size
        PROVE  Cardinality({k \in DOMAIN Parts : b \in Parts[k]}) = 1
    <3>1. PICK k \in DOMAIN Parts : \A l \in DOMAIN Parts : b \in Parts[l] <=> l = k
      BY OnePlace
    <3>2. {l \in DOMAIN Parts : b \in Parts[l]} = {k}
      BY <3>1
    <3> QED
      BY <3>2, FS_Singleton
  <2> QED
    BY <2>1, DiscardsAre DEF Accounted
<1> QED
  BY <1>1, BlockAlways, PTL
-----------------------------------------------------------------------------
(* The size of a checkpoint. *)

\* What is not available is below where the file is cut.
LEMMA KeptBelowCut ==
    ASSUME NEW av, NEW sz, NEW n1, NEW n2, NEW took, NEW avail, NEW end,
           Laid(av, sz, n1, n2, took, avail, end)
    PROVE  end \in Nat /\ (1 .. sz) \ av \subseteq 1 .. end
<1> DEFINE t1 == Took(av, sz, n1)
           s1 == SizeAfter(av, sz, n1)
           rest == AvailAfter(av, sz, n1)
<1>1. /\ sz \in Nat /\ av \in SUBSET (1 .. sz) /\ n1 \in Nat /\ end = CutAt(rest, s1)
  BY DEF Laid
<1>2. s1 \in Nat /\ sz <= s1 /\ rest = av \ t1
  BY <1>1, TookIs
<1>3. end \in 0 .. s1 /\ (end + 1) .. s1 \subseteq rest
  BY <1>1, <1>2, CutAtIs
<1> HIDE DEF t1, s1, rest
<1>4. ASSUME NEW b \in 1 .. sz, b \notin av PROVE b \in 1 .. end
  <2>1. b \in Nat /\ b <= s1 /\ 1 <= b /\ end \in Nat
    BY <1>1, <1>2, <1>3
  <2>2. ~(b > end)
    <3> SUFFICES ASSUME b > end PROVE FALSE
      OBVIOUS
    <3>1. b \in (end + 1) .. s1
      BY <1>2, <2>1
    <3> QED
      BY <1>2, <1>3, <1>4, <3>1
  <2> QED
    BY <2>1, <2>2
<1> QED
  BY <1>2, <1>3, <1>4

\* The pages before the last epoch, J, what that allocates and what it discards are its
\* pages and its root.
BeforeLast(m, A, D, R, J) ==
    /\ J \in SUBSET Blocks
    /\ \A b \in Blocks : b \in J <=> /\ \E j \in 1 .. m : j < m /\ b \in A[j] /\ b # R[j]
                                     /\ \A j \in 1 .. m : j < m => b \notin D[j]
LEMMA ChainSize ==
    ASSUME NEW m, NEW A, NEW D, NEW R, NEW I, Chain(m, A, D, R, I),
           NEW J, BeforeLast(m, A, D, R, J)
    PROVE  Cardinality(I[m]) + Cardinality(Block(R[m]))
             = Cardinality(J) + Cardinality(A[m]) - Cardinality(D[m])
<1>1. /\ m \in Nat \ {0} /\ m \in 1 .. m
      /\ A \in [1 .. m -> SUBSET Blocks] /\ D \in [1 .. m -> SUBSET Blocks]
      /\ R \in [1 .. m -> Address] /\ I \in [1 .. m -> SUBSET Blocks]
  BY DEF Chain, ChainType
<1>2. /\ \A i, j \in 1 .. m : \A b \in A[i] : b \in A[j] => i = j
      /\ \A i, j \in 1 .. m : \A b \in D[i] : b \in D[j] => i = j
      /\ \A i \in 1 .. m : \A b \in D[i] : \E j \in 1 .. m : j < i /\ b \in A[j]
      /\ \A i \in 1 .. m : R[i] # 0 =>
            R[i] \in A[i] /\ \A j \in 1 .. m : R[i] \notin D[j] /\ R[i] \notin I[j]
      /\ \A b \in Blocks :
            b \in I[m] <=> /\ \E j \in 1 .. m : j <= m /\ b \in A[j] /\ b # R[j]
                           /\ \A j \in 1 .. m : j <= m => b \notin D[j]
  BY <1>1 DEF Chain, AllocOnce, DiscardOnce, DiscardLater, RootsKept, ImageExact
<1>3. /\ J \in SUBSET Blocks
      /\ \A b \in Blocks : b \in J <=> /\ \E j \in 1 .. m : j < m /\ b \in A[j] /\ b # R[j]
                                       /\ \A j \in 1 .. m : j < m => b \notin D[j]
  BY DEF BeforeLast
<1>4. PICK a, d, i, r : a = A[m] /\ d = D[m] /\ i = I[m] /\ r = Block(R[m])
  OBVIOUS
<1>5. /\ a \in SUBSET Blocks /\ d \in SUBSET Blocks /\ i \in SUBSET Blocks
      /\ R[m] \in Address
  BY <1>1, <1>4
<1>6. r \in SUBSET Blocks /\ \A b : b \in r <=> b # 0 /\ b = R[m]
  BY <1>4, <1>5, AddressIs DEF Block
<1>7. \A j \in 1 .. m : j = m \/ j < m
  BY <1>1
<1>8. \A b \in Blocks : b \in d => b \in J /\ b \notin a
  <2> SUFFICES ASSUME NEW b \in Blocks, b \in D[m] PROVE b \in J /\ b \notin A[m]
    BY <1>4
  <2>1. PICK j \in 1 .. m : j < m /\ b \in A[j]
    BY <1>1, <1>2
  <2>2. b \notin A[m]
    <3>1. m \in Nat /\ j # m
      BY <1>1, <2>1
    <3> QED
      BY <1>1, <1>2, <2>1, <3>1
  <2>3. b # R[j]
    BY <1>1, <1>2, <1>5, AddressIs
  <2>4. \A k \in 1 .. m : k < m => b \notin D[k]
    BY <1>1, <1>2
  <2> QED
    BY <1>3, <2>1, <2>2, <2>3, <2>4
<1>9. \A b \in Blocks : b \in J => b \notin a
  <2> SUFFICES ASSUME NEW b \in Blocks, b \in J PROVE b \notin A[m]
    BY <1>4
  <2>1. PICK j \in 1 .. m : j < m /\ b \in A[j]
    BY <1>3
  <2>2. m \in Nat /\ j # m
    BY <1>1, <2>1
  <2> QED
    BY <1>1, <1>2, <2>1, <2>2
<1>10. \A b \in Blocks : b \in r => b \notin i /\ b \in a /\ b \notin d
  BY <1>1, <1>2, <1>4, <1>6
<1>11. ASSUME NEW b \in Blocks, b \in J PROVE b \in i \/ b \in d
  <2>1. PICK j \in 1 .. m : j < m /\ b \in A[j] /\ b # R[j]
    BY <1>3, <1>11
  <2>2. \A k \in 1 .. m : k < m => b \notin D[k]
    BY <1>3, <1>11
  <2>3. b \notin D[m] => \A k \in 1 .. m : b \notin D[k]
    BY <1>7, <2>2
  <2>4. j <= m
    BY <1>1, <2>1
  <2> QED
    BY <1>2, <1>4, <2>1, <2>3, <2>4
<1>12. ASSUME NEW b \in Blocks, b \in a, b \notin r PROVE b \in i
  <2>1. b # R[m] /\ b \in A[m] /\ m <= m
    BY <1>1, <1>4, <1>6, <1>12, AddressIs
  <2>2. \A k \in 1 .. m : b \notin D[k]
    <3> SUFFICES ASSUME NEW k \in 1 .. m, b \in D[k] PROVE FALSE
      OBVIOUS
    <3>1. PICK j \in 1 .. m : j < k /\ b \in A[j]
      BY <1>2
    <3>2. j = m
      BY <1>1, <1>2, <2>1, <3>1
    <3> QED
      BY <1>1, <3>1, <3>2
  <2> QED
    BY <1>1, <1>2, <1>4, <2>1, <2>2
<1>13. ASSUME NEW b \in Blocks, b \in i PROVE (b \in J \/ b \in a) /\ b \notin d
  <2>1. PICK j \in 1 .. m : j <= m /\ b \in A[j] /\ b # R[j]
    BY <1>2, <1>4, <1>13
  <2>2. \A k \in 1 .. m : k <= m => b \notin D[k]
    BY <1>2, <1>4, <1>13
  <2>3. \A k \in 1 .. m : k <= m
    BY <1>1
  <2>4. CASE j = m
    BY <1>1, <1>4, <2>1, <2>2, <2>3, <2>4
  <2>5. CASE j < m
    <3>1. b \in J
      BY <1>3, <2>1, <2>2, <2>3, <2>5
    <3> QED
      BY <1>1, <1>4, <2>2, <2>3, <3>1
  <2> QED
    BY <1>7, <2>4, <2>5
\* The two sets of blocks, and how many they have.
<1>14. i \cup r = (J \cup a) \ d
  <2>1. \A b \in Blocks : b \in i \/ b \in r <=> (b \in J \/ b \in a) /\ b \notin d
    BY <1>8, <1>10, <1>11, <1>12, <1>13
  <2> QED
    BY <1>3, <1>5, <1>6, <2>1
<1>15. i \cap r = {} /\ J \cap a = {} /\ (J \cup a) \cap d = d
  BY <1>3, <1>5, <1>8, <1>9, <1>10
<1>16. /\ IsFiniteSet(i) /\ IsFiniteSet(r) /\ IsFiniteSet(J) /\ IsFiniteSet(a) /\ IsFiniteSet(d)
       /\ Cardinality(i) \in Nat /\ Cardinality(r) \in Nat /\ Cardinality(J) \in Nat
       /\ Cardinality(a) \in Nat /\ Cardinality(d) \in Nat
  BY <1>3, <1>5, <1>6, CountIs
<1>17. Cardinality({}) = 0
  BY FS_EmptySet
<1>18. PICK ci \in Nat, cr \in Nat, cJ \in Nat, ca \in Nat, cd \in Nat :
         /\ ci = Cardinality(i) /\ cr = Cardinality(r) /\ cJ = Cardinality(J)
         /\ ca = Cardinality(a) /\ cd = Cardinality(d)
  BY <1>16
<1>19. Cardinality(i \cup r) = ci + cr
  <2>1. Cardinality(i \cup r) = Cardinality(i) + Cardinality(r) - Cardinality(i \cap r)
    BY <1>16, FS_Union
  <2>2. Cardinality(i \cup r) = ci + cr - 0
    BY <1>15, <1>17, <1>18, <2>1
  <2> QED
    BY <2>2
<1>20. IsFiniteSet(J \cup a) /\ Cardinality(J \cup a) = cJ + ca
  <2>1. /\ IsFiniteSet(J \cup a)
        /\ Cardinality(J \cup a) = Cardinality(J) + Cardinality(a) - Cardinality(J \cap a)
    BY <1>16, FS_Union
  <2>2. Cardinality(J \cup a) = cJ + ca - 0
    BY <1>15, <1>17, <1>18, <2>1
  <2> QED
    BY <2>1, <2>2
<1>21. Cardinality((J \cup a) \ d) = cJ + ca - cd
  <2>1. PICK u : u = J \cup a
    OBVIOUS
  <2>2. IsFiniteSet(u) /\ Cardinality(u) = cJ + ca /\ u \cap d = d
    BY <1>15, <1>20, <2>1
  <2>3. Cardinality(u \ d) = Cardinality(u) - Cardinality(u \cap d)
    BY <2>2, FS_Difference
  <2>4. Cardinality(u \ d) = (cJ + ca) - Cardinality(d)
    BY <2>2, <2>3, Zenon
  <2>5. Cardinality(u \ d) = (cJ + ca) - cd
    BY <1>18, <2>4
  <2> QED
    BY <2>1, <2>5
<1>22. ci + cr = cJ + ca - cd
  BY <1>14, <1>19, <1>21
<1> QED
  BY <1>4, <1>18, <1>22

\* The size the next checkpoint will have.
LEMMA LiveSize ==
    ASSUME BlockInv
    PROVE  Cardinality(Running.image) + Cardinality(Block(root.block))
             = Cardinality(Resumed(list).image) + Cardinality(live.alloc)
                 - Cardinality(live.discard)
<1>1. PICK n, m, A, D, R, I :
        /\ n = Len(list) /\ m = n + 1 /\ A = AllocIn(list, Running)
        /\ D = DiscardIn(list, Running) /\ R = RootIn(list, Running)
        /\ I = ImageIn(list, Running)
  OBVIOUS
<1>2. /\ list \in Seq(Checkpoints) /\ Whole(list, Running, live.avail, live.ckptAvail, size)
  BY LiveFacts
<1>3. Chain(m, A, D, R, I)
  BY <1>1, <1>2, Zenon DEF Whole
<1>4. n \in Nat /\ m \in 1 .. m /\ m \in Nat
  BY <1>1, <1>2
<1>5. A[m] = live.alloc /\ D[m] = live.discard /\ R[m] = root.block /\ I[m] = Running.image
  <2>1. A[m] = Running.alloc
    BY <1>1, <1>4 DEF AllocIn
  <2>2. D[m] = Running.discard
    BY <1>1, <1>4 DEF DiscardIn
  <2>3. R[m] = Running.root
    BY <1>1, <1>4 DEF RootIn
  <2>4. I[m] = Running.image
    BY <1>1, <1>4 DEF ImageIn
  <2> QED
    BY <2>1, <2>2, <2>3, <2>4, RunningIs
<1>6. PICK J : J = Resumed(list).image
  OBVIOUS
<1>7. BeforeLast(m, A, D, R, J)
  <2>1. CASE list = <<>>
    <3>1. J = {} /\ n = 0
      BY <1>1, <1>6, <2>1 DEF Resumed
    <3>2. \A j \in 1 .. m : ~(j < m)
      BY <1>1, <3>1
    <3> QED
      BY <3>1, <3>2 DEF BeforeLast
  <2>2. CASE list # <<>>
    <3>1. n \in 1 .. n /\ n \in 1 .. m /\ n # m
      BY <1>1, <1>2, <2>2
    <3>2. J = list[n].root.image
      BY <1>1, <1>6, <2>2 DEF Resumed
    <3>3. I[n] = list[n].root.image
      BY <1>1, <3>1 DEF ImageIn
    <3>4. I[n] \in SUBSET Blocks
      BY <1>3, <3>1 DEF Chain, ChainType
    <3>5. \A b \in Blocks : b \in I[n] <=> /\ \E j \in 1 .. m : j <= n /\ b \in A[j] /\ b # R[j]
                                           /\ \A j \in 1 .. m : j <= n => b \notin D[j]
      BY <1>3, <3>1 DEF Chain, ImageExact
    <3>6. \A j \in 1 .. m : j <= n <=> j < m
      BY <1>1, <1>4
    <3>7. \A b \in Blocks : b \in J <=> /\ \E j \in 1 .. m : j < m /\ b \in A[j] /\ b # R[j]
                                        /\ \A j \in 1 .. m : j < m => b \notin D[j]
      BY <3>2, <3>3, <3>5, <3>6
    <3> QED
      BY <3>2, <3>3, <3>4, <3>7 DEF BeforeLast
  <2> QED
    BY <2>1, <2>2
<1>8. Cardinality(I[m]) + Cardinality(Block(R[m]))
        = Cardinality(J) + Cardinality(A[m]) - Cardinality(D[m])
  BY <1>3, <1>7, ChainSize
<1> QED
  BY <1>5, <1>6, <1>8

-----------------------------------------------------------------------------
(* Sizes along the steps. *)

\* A step that changes neither the lists nor the size of the live system.
LEMMA SameBytes ==
    ASSUME BytesInv, live'.bytes = live.bytes, list' = list,
           \A t \in turtles' : t.list = list \/ t \in turtles
    PROVE  BytesInv'
<1>1. BytesOf(list) /\ \A t \in turtles : BytesOf(t.list)
  BY DEF BytesInv
<1>2. \A t \in turtles' : BytesOf(t.list)
  BY <1>1
<1>3. Resumed(list') = Resumed(list)
  BY Zenon
<1> QED
  BY <1>1, <1>2, <1>3 DEF BytesInv, BytesOf, Resumed

\* Blocks are taken and freed without counting them.
LEMMA BytesAlone ==
    ASSUME live \in LiveTypes
    PROVE  /\ \A b : Allocated(b).bytes = live.bytes
           /\ \A a : OffFree(live, a).bytes = live.bytes
           /\ \A a, b : OffFree(Allocated(b), a).bytes = live.bytes
<1>1. \A b : Allocated(b).bytes = live.bytes
  BY DEF LiveTypes, Allocated
<1>2. \A a : OffFree(live, a).bytes = live.bytes
  BY DEF LiveTypes, OffFree
<1>3. \A a, b : OffFree(Allocated(b), a).bytes = live.bytes
  BY DEF LiveTypes, OffFree, Allocated
<1> QED
  BY <1>1, <1>2, <1>3

LEMMA PageBytes ==
    ASSUME BlockInv, BytesInv, NEW p \in Pages,
           Modify(p) \/ EvictReview(p) \/ EvictWrite(p) \/ EvictFree(p) \/ WalkPage(p)
    PROVE  BytesInv'
<1>1. UNCHANGED <<list, turtles>>
  BY DEF Modify, EvictReview, EvictWrite, EvictFree, WalkPage
<1>2. live \in LiveTypes
  BY LiveFacts
<1>3. live'.bytes = live.bytes
  <2>1. CASE Modify(p) \/ EvictReview(p)
    BY <2>1 DEF Modify, EvictReview
  <2>2. CASE EvictWrite(p)
    <3>1. live' = live \/ live' = Allocated(BestFit)
      BY <2>2 DEF EvictWrite
    <3> QED
      BY <1>2, <3>1, BytesAlone
  <2>3. CASE EvictFree(p)
    <3>1. live' = OffFree(live, old[p])
      BY <2>3 DEF EvictFree
    <3> QED
      BY <1>2, <3>1, BytesAlone
  <2>4. CASE WalkPage(p)
    <3>1. live' = live \/ live' = OffFree(Allocated(BestFit), addr[p]) \/ live' = OffFree(live, addr[p])
      BY <2>4 DEF WalkPage
    <3> QED
      BY <1>2, <3>1, BytesAlone
  <2> QED
    BY <2>1, <2>2, <2>3, <2>4
<1> QED
  BY <1>1, <1>3, SameBytes

LEMMA CheckpointBytes ==
    ASSUME BlockInv, BytesInv,
           Start \/ Drained \/ Fail \/ Sync \/ TurtleSet \/ TurtleSync \/ WalkRoot \/ Resolve
             \/ TurtleRename \/ DirectorySync
    PROVE  BytesInv'
<1>1. list' = list
  BY DEF Start, Drained, Fail, Sync, TurtleSet, TurtleSync, WalkRoot, Resolve, TurtleRename,
         DirectorySync
<1>2. live \in LiveTypes
  BY LiveFacts
<1>3. \A t \in turtles' : t.list = list \/ t \in turtles
  BY DEF Start, Drained, Fail, Sync, TurtleSet, TurtleSync, WalkRoot, Resolve, TurtleRename,
         DirectorySync
<1>4. live'.bytes = live.bytes
  <2>1. CASE WalkRoot
    <3>1. live' = live \/ \E b : live' = Allocated(b)
      BY <2>1 DEF WalkRoot
    <3> QED
      BY <1>2, <3>1, BytesAlone
  <2>2. CASE Resolve
    <3>1. live' = [live EXCEPT !.avail = @ \cup live.ckptAvail, !.ckptAvail = {}]
      BY <2>2 DEF Resolve
    <3> QED
      BY <1>2, <3>1 DEF LiveTypes
  <2>3. CASE Start \/ Drained \/ Fail \/ Sync \/ TurtleSet \/ TurtleSync \/ TurtleRename
               \/ DirectorySync
    BY <2>3 DEF Start, Drained, Fail, Sync, TurtleSet, TurtleSync, TurtleRename, DirectorySync
  <2> QED
    BY <2>1, <2>2, <2>3
<1> QED
  BY <1>1, <1>3, <1>4, SameBytes

LEMMA CrashBytes ==
    ASSUME BlockInv, BytesInv, Crash
    PROVE  BytesInv'
<1>1. PICK t \in turtles :
         /\ turtles' = {t} /\ list' = t.list
         /\ IF t.list = <<>>
              THEN live' = EmptyLive /\ size' = 0 /\ addr' = [p \in Pages |-> 0]
              ELSE Load(t.list[Len(t.list)])
  BY DEF Crash
<1>2. PICK lst : lst = t.list
  OBVIOUS
<1>3. Consistent(lst) /\ lst \in Seq(Checkpoints) /\ BytesOf(lst)
  BY <1>2 DEF BlockInv, StableInv, Consistent, BytesInv
<1>4. live'.bytes = Cardinality(Resumed(lst).image)
  <2>1. CASE lst = <<>>
    <3>1. live'.bytes = 0
      BY <1>1, <1>2, <2>1 DEF EmptyLive
    <3>2. Resumed(lst).image = {}
      BY <2>1 DEF Resumed
    <3> QED
      BY <3>1, <3>2, FS_EmptySet
  <2>2. CASE lst # <<>>
    <3>1. PICK c : c = lst[Len(lst)]
      OBVIOUS
    <3>2. Len(lst) \in 1 .. Len(lst)
      BY <1>3, <2>2
    <3>3. c \in Checkpoints
      BY <1>3, <3>1, <3>2
    <3>4. c.root.image \in SUBSET Blocks /\ Block(c.root.block) \in SUBSET Blocks
      <4>1. c.root.image \in SUBSET Blocks /\ c.root.block \in Address
        BY <3>3 DEF Checkpoints
      <4> QED
        BY <4>1, AddressIs DEF Block
    <3>5. Cardinality(c.root.image) \in Nat /\ Cardinality(Block(c.root.block)) \in Nat
      BY <3>4, CountIs
    <3>6. c.bytes = Cardinality(c.root.image) + Cardinality(Block(c.root.block))
      BY <1>3, <3>1, <3>2 DEF BytesOf
    <3>7. live'.bytes = c.bytes - Cardinality(Block(c.root.block))
      BY <1>1, <1>2, <2>2, <3>1 DEF Load, EmptyLive
    <3>8. Resumed(lst).image = c.root.image
      BY <2>2, <3>1 DEF Resumed
    <3> QED
      BY <3>5, <3>6, <3>7, <3>8
  <2> QED
    BY <2>1, <2>2
<1>5. list' = lst /\ \A s \in turtles' : s.list = lst
  BY <1>1, <1>2
<1>6. \A s \in turtles' : BytesOf(s.list)
  BY <1>3, <1>5
<1> QED
  BY <1>3, <1>4, <1>5, <1>6 DEF BytesInv, BytesOf, Resumed

\* The new checkpoint has the size of what its root reaches, and so has the live system
\* once its root no longer counts.
LEMMA ProcessBytes ==
    ASSUME BlockInv, BytesInv, NEW del \in SUBSET (1 .. Len(list)), Process(del)
    PROVE  BytesInv'
<1>1. phase = "root" /\ WriteLists(del) /\ UNCHANGED <<addr, turtles>>
  BY DEF Process
<1>2. /\ list \in Seq(Checkpoints) /\ live \in LiveTypes
      /\ Whole(list, Running, live.avail, live.ckptAvail, size)
      /\ size \in Nat /\ live.avail \in SUBSET (1 .. size)
  BY LiveFacts
<1>3. /\ live.ckptAvail = {} /\ root.image = BlocksOf(addr) /\ root.block \in Address
      /\ root \in [block : Address, image : SUBSET Blocks]
      /\ \A p \in Pages : evict[p] = "no"
  BY <1>1 DEF BlockInv, PhaseInv
<1>4. addr \in [Pages -> Address] /\ \A p \in Pages : old[p] = 0
  BY <1>3 DEF BlockInv, PagesInv
<1>5. Running.image = root.image
  <2>1. PICK a : a = old
    OBVIOUS
  <2>2. \A c : c \notin BlocksOf(a)
    BY <1>4, <2>1, BlocksOfIs
  <2> QED
    BY <1>3, <2>1, <2>2, RunningIs
<1>6. PICK n, g, at, A, D, R, I, E :
        /\ n = Groups(del) /\ g = Group(del) /\ at = At(del)
        /\ A = AllocIn(list, Running) /\ D = DiscardIn(list, Running)
        /\ R = RootIn(list, Running) /\ I = ImageIn(list, Running) /\ E = AtsIn(list)
  OBVIOUS
<1>7. Merging(del, n, g, at, A, D, R, I, E)
  <2>1. Whole(list, Running, live.avail, {}, size)
    BY <1>2, <1>3
  <2>2. Chain(Live, A, D, R, I) /\ Space(Live, A, E, live.avail, {}, size)
    BY <1>6, <2>1, Zenon DEF Whole, Live
  <2> QED
    BY <1>2, <1>6, <2>2, Zenon DEF Merging
<1>8. \A i \in 1 .. Len(list) : AtsDistinct(list[i])
  BY <1>2 DEF Whole
<1>9. PICK n1, avail, end, m, allocAt, discardAt, availAt, took, new :
         /\ Written(del, n1, avail, end, m, allocAt, discardAt, availAt, took, new)
         /\ list' = [i \in 1 .. Cardinality(Kept(del)) |-> Rewrite(del, Nth(Kept(del), i))]
                      \o <<new>>
         /\ live'.alloc = {} /\ live'.discard = {} /\ live'.ckptAvail = CkptAvail(del)
         /\ live'.avail = AvailAfter(avail, end, m + 1) /\ size' = new.size
         /\ live'.bytes \in Int
         /\ new.bytes = live.bytes + Cardinality(live.alloc) - Cardinality(live.discard)
         /\ live'.bytes = RollingSize(new.bytes, end)
         /\ live' = [alloc |-> {}, avail |-> live'.avail, discard |-> {},
                     ckptAvail |-> CkptAvail(del), bytes |-> live'.bytes]
         /\ unsynced' = (unsynced \cup {RewrittenAt(del, k) : k \in Rewritten(del)}
                           \cup Block(allocAt) \cup Block(discardAt) \cup {availAt})
  BY <1>1, <1>2, <1>3, WriteListsIs
<1>10. PICK lst : lst = list'
  OBVIOUS
<1>11. Listed(del, new, lst)
  BY <1>9, <1>10 DEF Listed
<1>12. lst \in Seq(Checkpoints) /\ Len(lst) = n /\ lst[n] = new
  BY <1>3, <1>4, <1>7, <1>8, <1>9, <1>11, NewListIs
<1>13. \A k \in 1 .. n : Replaces(del, at[k], lst[k], Took(avail, end, m + 1))
  BY <1>3, <1>4, <1>7, <1>8, <1>9, <1>11, NewListIs
<1>14. n \in Nat \ {0} /\ at[n] = Live /\ \A k \in 1 .. n : k # n => at[k] # Live
  <2>1. n \in Nat \ {0} /\ at[n] = Live
    BY <1>2, <1>6, AtIs
  <2>2. \A k \in 1 .. n : k # n => at[k] \in Kept(del)
    BY <1>2, <1>6, AtIs
  <2>3. Live \notin Kept(del)
    <3>1. Len(list) \in Nat /\ Live = Len(list) + 1
      BY <1>2 DEF Live
    <3> QED
      BY <3>1 DEF Kept
  <2> QED
    BY <2>1, <2>2, <2>3
<1>15. /\ \A k \in 1 .. n : at[k] = Live \/ at[k] \in 1 .. Len(list)
  BY <1>7, MergingIs
\* The sizes.
<1>16. PICK cr \in Nat, cb \in Nat :
         cr = Cardinality(root.image) /\ cb = Cardinality(Block(root.block))
  <2>1. root.image \in SUBSET Blocks /\ Block(root.block) \in SUBSET Blocks
    BY <1>3, AddressIs DEF Block
  <2> QED
    BY <2>1, CountIs
<1>17. new.root = root /\ new.bytes = cr + cb
  <2>1. live.bytes = Cardinality(Resumed(list).image)
    BY DEF BytesInv
  <2>2. cr + cb = Cardinality(Resumed(list).image) + Cardinality(live.alloc)
                    - Cardinality(live.discard)
    BY <1>5, <1>16, LiveSize
  <2>3. new.root = root
    BY <1>9, Zenon DEF Written
  <2> QED
    BY <1>9, <2>1, <2>2, <2>3
<1>18. end \in Nat /\ cr <= end
  <2>1. Laid(live.avail, size, n1, m + 1, took, avail, end)
    BY <1>9, Zenon DEF Written
  <2>2. end \in Nat /\ (1 .. size) \ live.avail \subseteq 1 .. end
    BY <2>1, KeptBelowCut
  <2>3. root.image \subseteq (1 .. size) \ live.avail
    BY RootGuarded
  <2>4. root.image \in SUBSET (1 .. end)
    BY <2>2, <2>3
  <2>5. IsFiniteSet(1 .. end) /\ Cardinality(1 .. end) = end
    BY <2>2, FS_Interval
  <2>6. Cardinality(root.image) <= Cardinality(1 .. end)
    BY <2>4, <2>5, FS_Subset
  <2> QED
    BY <1>16, <2>2, <2>5, <2>6
<1>19. live'.bytes = cr
  <2>1. live'.bytes = Min({new.bytes - cb, end})
    BY <1>9, <1>16 DEF RollingSize
  <2>2. new.bytes - cb = cr
    BY <1>16, <1>17
  <2>3. live'.bytes = Min({cr, end})
    BY <2>1, <2>2
  <2>4. Min({cr, end}) = IF cr <= end THEN cr ELSE end
    BY <1>18, MinPair
  <2> QED
    BY <1>18, <2>3, <2>4
<1>20. BytesOf(lst)
  <2> SUFFICES ASSUME NEW k \in 1 .. Len(lst)
               PROVE  lst[k].bytes = Cardinality(lst[k].root.image)
                                       + Cardinality(Block(lst[k].root.block))
    BY DEF BytesOf
  <2>1. k \in 1 .. n
    BY <1>12
  <2>2. CASE k = n
    BY <1>12, <1>16, <1>17, <2>2
  <2>3. CASE k # n
    <3>1. PICK t \in 1 .. Len(list) : t = at[k] /\ t # Live
      BY <1>14, <1>15, <2>1, <2>3
    <3>2. lst[k].root = list[t].root /\ lst[k].bytes = list[t].bytes
      BY <1>13, <2>1, <3>1 DEF Replaces
    <3>3. list[t].bytes = Cardinality(list[t].root.image) + Cardinality(Block(list[t].root.block))
      BY DEF BytesInv, BytesOf
    <3> QED
      BY <3>2, <3>3
  <2> QED
    BY <2>2, <2>3
<1>21. Resumed(lst).image = root.image
  <2>1. lst # <<>> /\ lst[Len(lst)] = new
    BY <1>12, <1>14
  <2> QED
    BY <1>17, <2>1 DEF Resumed
<1>22. \A t \in turtles' : BytesOf(t.list)
  BY <1>1 DEF BytesInv
<1> QED
  BY <1>10, <1>16, <1>19, <1>20, <1>21, <1>22 DEF BytesInv, BytesOf, Resumed

LEMMA BytesInit == Init => BytesInv
<1> SUFFICES ASSUME Init PROVE BytesInv
  OBVIOUS
<1>1. list = <<>> /\ live = EmptyLive /\ turtles = {[whole |-> TRUE, list |-> <<>>]}
  BY DEF Init
<1>2. live.bytes = 0 /\ \A t \in turtles : t.list = <<>>
  BY <1>1 DEF EmptyLive
<1>3. BytesOf(<<>>)
  BY DEF BytesOf
<1>4. Resumed(list).image = {}
  BY <1>1 DEF Resumed
<1> QED
  BY <1>1, <1>2, <1>3, <1>4, FS_EmptySet DEF BytesInv

LEMMA BytesStep == BlockInv /\ BytesInv /\ [Next]_vars => BytesInv'
<1> SUFFICES ASSUME BlockInv, BytesInv, [Next]_vars PROVE BytesInv'
  OBVIOUS
<1>1. CASE UNCHANGED vars
  <2>1. live'.bytes = live.bytes /\ list' = list /\ turtles' = turtles
    BY <1>1 DEF vars
  <2> QED
    BY <2>1, SameBytes
<1>2. CASE Next
  BY <1>2, PageBytes, CheckpointBytes, CrashBytes, ProcessBytes DEF Next
<1> QED
  BY <1>1, <1>2

LEMMA BytesAlways == Spec => []BytesInv
  BY BytesInit, BytesStep, BlockAlways, PTL DEF Spec

\* The size a checkpoint reports is that of the blocks its root reaches, after any
\* sequence of deletions, merges, failed checkpoints and crashes: the size is never
\* computed anew but carried along from the sizes of the lists (block_ckpt.c:730-741,
\* 876-893: "the live checkpoint size grew without bound").
THEOREM SizesExact == Spec => []SizeExact
<1>1. BlockInv /\ BytesInv => SizeExact
  <2> SUFFICES ASSUME BlockInv, BytesInv PROVE SizeExact
    OBVIOUS
  <2>1. DOMAIN list = 1 .. Len(list)
    BY LiveFacts
  <2> QED
    BY <2>1 DEF SizeExact, BytesInv, BytesOf
<1> QED
  BY <1>1, BlockAlways, BytesAlways, PTL

-----------------------------------------------------------------------------
(* Types. *)

Misc == dirty \subseteq Pages /\ walked \subseteq Pages /\ made \in 0 .. MaxMade

LEMMA MiscAlways == Spec => []Misc
<1>1. Init => Misc
  BY BlockAssumption DEF Init, Misc
<1>2. Misc /\ [Next]_vars => Misc'
  <2> SUFFICES ASSUME Misc, [Next]_vars PROVE Misc'
    OBVIOUS
  <2>1. CASE UNCHANGED vars
    BY <2>1 DEF vars, Misc
  <2>2. ASSUME NEW p \in Pages,
               Modify(p) \/ EvictReview(p) \/ EvictWrite(p) \/ EvictFree(p) \/ WalkPage(p)
        PROVE  Misc'
    <3>1. made' = made
      BY <2>2 DEF Modify, EvictReview, EvictWrite, EvictFree, WalkPage
    <3>2. dirty' \subseteq dirty \cup {p} /\ walked' \subseteq walked \cup {p}
      BY <2>2 DEF Modify, EvictReview, EvictWrite, EvictFree, WalkPage
    <3> QED
      BY <3>1, <3>2 DEF Misc
  <2>3. ASSUME NEW del, Process(del) PROVE Misc'
    <3>1. made < MaxMade /\ made' = made + 1 /\ UNCHANGED <<dirty, walked>>
      BY <2>3 DEF Process
    <3> QED
      BY <3>1, BlockAssumption DEF Misc
  <2>4. CASE Start \/ Drained \/ WalkRoot \/ Sync \/ Resolve \/ Fail \/ Crash \/ TurtleSet
               \/ TurtleSync \/ TurtleRename \/ DirectorySync
    <3>1. made' = made /\ dirty' \subseteq dirty /\ walked' \subseteq walked
      BY <2>4 DEF Start, Drained, WalkRoot, Sync, Resolve, Fail, Crash, TurtleSet,
                  TurtleSync, TurtleRename, DirectorySync
    <3> QED
      BY <3>1 DEF Misc
  <2> QED
    BY <2>1, <2>2, <2>3, <2>4 DEF Next
<1> QED
  BY <1>1, <1>2, PTL DEF Spec

LEMMA TurtleAlways == Spec => []TurtleInv
  BY TurtleInit, TurtleStep, PTL DEF Spec

\* Every variable of the block manager has its type; the size of the live system, which
\* is added to and subtracted from, is never negative (WT_BLOCK.live.ckpt_size is a
\* uint64_t).
THEOREM BlockTypes == Spec => []TypeOK
<1>1. BlockInv /\ BytesInv /\ Misc /\ TurtleInv => TypeOK
  <2> SUFFICES ASSUME BlockInv, BytesInv, Misc, TurtleInv PROVE TypeOK
    OBVIOUS
  <2>1. /\ list \in Seq(Checkpoints) /\ live \in LiveTypes /\ size \in Address
    BY LiveFacts
  <2>2. live.bytes \in 0 .. MaxBlock
    <3>1. PICK J : J = Resumed(list).image
      OBVIOUS
    <3>2. J \in SUBSET (1 .. MaxBlock)
      <4>1. CASE list = <<>>
        BY <3>1, <4>1 DEF Resumed
      <4>2. CASE list # <<>>
        <5>1. list[Len(list)] \in Checkpoints
          BY <2>1, <4>2
        <5> QED
          BY <3>1, <4>2, <5>1 DEF Resumed, Checkpoints, Blocks
      <4> QED
        BY <4>1, <4>2
    <3>3. MaxBlock \in Nat
      BY BlockAssumption
    <3>4. IsFiniteSet(1 .. MaxBlock) /\ Cardinality(1 .. MaxBlock) = MaxBlock
      BY <3>3, FS_Interval
    <3>5. IsFiniteSet(J) /\ Cardinality(J) <= Cardinality(1 .. MaxBlock)
      BY <3>2, <3>4, FS_Subset
    <3>6. Cardinality(J) \in Nat
      BY <3>5, FS_CardinalityType
    <3> QED
      BY <3>1, <3>3, <3>4, <3>5, <3>6 DEF BytesInv
  <2>3. live \in [alloc : SUBSET Blocks, avail : SUBSET Blocks, discard : SUBSET Blocks,
                  ckptAvail : SUBSET Blocks, bytes : 0 .. MaxBlock]
    BY <2>1, <2>2 DEF LiveTypes
  <2>4. unsynced \subseteq Blocks /\ phase \in Phases
    BY DEF BlockInv, StableInv, PhaseInv
  <2>5. /\ addr \in [Pages -> Address] /\ old \in [Pages -> Address]
        /\ evict \in [Pages -> {"no", "in", "wrote"}]
    BY DEF BlockInv, PagesInv
  <2>6. setfile \in {"none", "torn", "whole"}
    BY DEF TurtleInv, SetfileFollows
  <2>7. \A i \in DOMAIN list : list[i] \in Checkpoints
    BY <2>1
  <2> QED
    BY <2>1, <2>3, <2>4, <2>5, <2>6, <2>7 DEF TypeOK, Misc
<1> QED
  BY <1>1, BlockAlways, BytesAlways, MiscAlways, TurtleAlways, PTL
=============================================================================
