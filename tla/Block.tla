------------------------------- MODULE Block -------------------------------
(***************************************************************************)
(* The block manager of one file, its checkpoints, and the turtle file     *)
(* that makes a checkpoint durable (block/block_ckpt.c, block/block_ext.c, *)
(* txn/txn_ckpt.c __checkpoint_tree, btree/bt_sync.c, meta/meta_turtle.c). *)
(*                                                                         *)
(* The file is a row of blocks of one size.  Every page version is written *)
(* to a block no checkpoint refers to, and a checkpoint is the set of      *)
(* blocks its root reaches together with three extent lists: the blocks    *)
(* allocated since the checkpoint before it, the blocks discarded since    *)
(* then, and the blocks that may be allocated.  Deleting a checkpoint      *)
(* merges its lists into those of the next one; what is on both lists of   *)
(* the next one is free, but only once the new list of checkpoints has     *)
(* reached stable storage.  For the metadata file the list of checkpoints  *)
(* is in the turtle file; for every other file it is in the metadata file, *)
(* whose own checkpoint the turtle file then names: the order of the steps *)
(* is the same.                                                            *)
(*                                                                         *)
(* A crash is a crash of the machine.  It may lose any write since the     *)
(* last fsync of the file, and any rename since the last sync of the       *)
(* directory.                                                              *)
(***************************************************************************)
EXTENDS Integers, Sequences, FiniteSets, FiniteSetsExt

CONSTANTS
    Pages,      \* the leaf pages of the tree
    MaxBlock,   \* bound: the file never grows past this many blocks
    MaxKept,    \* bound: checkpoints kept in the list
    MaxMade     \* bound: checkpoints made

ASSUME BlockAssumption ==
    /\ MaxBlock \in Nat /\ MaxKept \in Nat \ {0} /\ MaxMade \in Nat
    /\ IsFiniteSet(Pages)

VARIABLES
    live,      \* WT_BLOCK.live: the extent lists of the live system
    size,      \* WT_BLOCK.size, in blocks
    unsynced,  \* blocks written since the file was last flushed
    addr,      \* the block of each page's last version, 0 when it is empty
    dirty,     \* the modified pages
    evict,     \* how far the eviction of each page is
    old,       \* the block an eviction has replaced and will free
    phase,     \* how far the checkpoint is
    walked,    \* the pages the running checkpoint has visited
    root,      \* the root of the running checkpoint: its block and its pages
    list,      \* the checkpoints, as the running system knows them
    turtles,   \* what the turtle file may hold after a crash
    setfile,   \* the turtle setup file
    made       \* how many checkpoints were made, for the bound

vars == <<live, size, unsynced, addr, dirty, evict, old, phase, walked, root, list,
          turtles, setfile, made>>

Blocks == 1 .. MaxBlock
Address == 0 .. MaxBlock
\* The block at an address, none when the address is invalid.
BlockUnchecked(a) == {a}
Block(a) == {a} \ {0}
NoRoot == [block |-> 0, image |-> {}]

(***************************************************************************)
(* The steps of a checkpoint.  block->ckpt_state is WT_CKPT_NONE in        *)
(* "none", WT_CKPT_INPROGRESS up to "root" and WT_CKPT_PANIC_ON_FAILURE    *)
(* after; btree->syncing is not WT_BTREE_SYNC_OFF in "wait", "run", "root".*)
(***************************************************************************)
Phases == {"none", "wait", "run", "root", "written", "synced", "set", "whole",
           "renamed", "stable"}
SyncingWhenFlushed == phase \in {"wait", "run"}
Syncing == phase \in {"wait", "run", "root"}

\* What a checkpoint's cookie says, with the contents of the extent lists and of
\* the root page it refers to.
Checkpoints ==
    [root : [block : Address, image : SUBSET Blocks],
     alloc : SUBSET Blocks, discard : SUBSET Blocks, avail : SUBSET Blocks,
     allocAt : Address, discardAt : Address, availAt : Address,
     size : Address, bytes : Int, addr : [Pages -> Address]]

\* The blocks that must still hold what was written for the checkpoint to be read,
\* deleted or rolled forward.
Needed(c) ==
    c.root.image \cup UNION {Block(a) : a \in {c.root.block, c.allocAt, c.discardAt, c.availAt}}

----------------------------------------------------------------------------
(* Extent lists. *)

\* The i-th smallest member of a set of numbers.
Nth(S, i) == CHOOSE b \in S : Cardinality({c \in S : c <= b}) = i

\* The i-th block that allocations take from the list during a checkpoint: the lowest
\* ones of the list first, then blocks past the end of the file.
NthBlock(avail, end, i) ==
    IF i <= Cardinality(avail) THEN Nth(avail, i) ELSE end + i - Cardinality(avail)

\* The list, and the file's size, after n such allocations.
AvailAfter(avail, end, n) == avail \ {NthBlock(avail, end, i) : i \in 1 .. n}
SizeAfter(avail, end, n) == Max({end, end + n - Cardinality(avail)})

\* Where the file ends once the available blocks at its end are cut off.
CutAt(avail, end) == Min({n \in 0 .. end : (n + 1) .. end \subseteq avail})

\* __wt_block_alloc outside __wt_block_checkpoint: the first block of the shortest
\* extent of the list, or else the block past the end of the file.
Extents(avail) ==
    {e \in (1 .. size) \X (1 .. size) :
        /\ e[1] .. e[2] \subseteq avail /\ e[1] <= e[2]
        /\ e[1] - 1 \notin avail /\ e[2] + 1 \notin avail}
Shorter(e, f) ==
    \/ e[2] - e[1] < f[2] - f[1]
    \/ e[2] - e[1] = f[2] - f[1] /\ e[1] <= f[1]
BestFit ==
    IF live.avail = {} THEN size + 1
    ELSE (CHOOSE e \in Extents(live.avail) : \A f \in Extents(live.avail) : Shorter(e, f))[1]

\* The block is on the alloc list and is written.
Write(b) ==
    /\ b \in Blocks
    /\ size' = Max({size, b})
    /\ unsynced' = unsynced \cup {b}
Allocated(b) == [live EXCEPT !.avail = @ \ {b}, !.alloc = @ \cup {b}]

\* A block allocated since the last checkpoint can be used again at once, any other
\* one is referred to by a checkpoint.
OffFree(l, a) ==
    IF a = 0 THEN l
    ELSE IF a \in l.alloc
      THEN [l EXCEPT !.alloc = @ \ {a}, !.avail = @ \cup {a}]
      ELSE [l EXCEPT !.discard = @ \cup {a}]

----------------------------------------------------------------------------
(* Pages and their eviction. *)

Modify(p) ==
    /\ evict[p] = "no" /\ p \notin dirty
    /\ dirty' = dirty \cup {p}
    /\ UNCHANGED <<live, size, unsynced, addr, evict, old, phase, walked, root, list, turtles, setfile, made>>

\* The eviction has entered its generation and has locked and reviewed the page: a
\* tree that is being checkpointed gives up no dirty page.
EvictReview(p) ==
    /\ evict[p] = "no" /\ p \in dirty /\ ~Syncing
    /\ evict' = [evict EXCEPT ![p] = "in"]
    /\ UNCHANGED <<live, size, unsynced, addr, dirty, old, phase, walked, root, list, turtles, setfile, made>>

\* Reconciliation writes the page; a page that has become empty has no block.
EvictWrite(p) ==
    /\ evict[p] = "in"
    /\ dirty' = dirty \ {p}
    /\ evict' = [evict EXCEPT ![p] = "wrote"]
    /\ old' = [old EXCEPT ![p] = addr[p]]
    /\ \/ /\ Write(BestFit)
          /\ live' = Allocated(BestFit)
          /\ addr' = [addr EXCEPT ![p] = BestFit]
       \/ /\ addr' = [addr EXCEPT ![p] = 0]
          /\ UNCHANGED <<live, size, unsynced>>
    /\ UNCHANGED <<phase, walked, root, list, turtles, setfile, made>>

\* It then frees the block of the version before, and the eviction is over.
EvictFree(p) ==
    /\ evict[p] = "wrote"
    /\ live' = OffFree(live, old[p])
    /\ evict' = [evict EXCEPT ![p] = "no"]
    /\ old' = [old EXCEPT ![p] = 0]
    /\ UNCHANGED <<size, unsynced, addr, dirty, phase, walked, root, list, turtles, setfile, made>>

----------------------------------------------------------------------------
(* The checkpoint. *)

Start ==
    /\ phase = "none"
    /\ phase' = "wait"
    /\ UNCHANGED <<live, size, unsynced, addr, dirty, evict, old, walked, root, list, turtles, setfile, made>>

\* The evictions that passed their review before the checkpoint began have ended.
Drained ==
    /\ phase = "wait"
    /\ \A p \in Pages : evict[p] = "no"
    /\ phase' = "run"
    /\ UNCHANGED <<live, size, unsynced, addr, dirty, evict, old, walked, root, list, turtles, setfile, made>>

\* The checkpoint's walk visits a page and reconciles it, if it is dirty and has
\* something the checkpoint must write.
WalkPage(p) ==
    /\ phase = "run" /\ p \notin walked
    /\ walked' = walked \cup {p}
    /\ \/ UNCHANGED <<live, size, unsynced, addr, dirty>>
       \/ /\ p \in dirty
          /\ dirty' = dirty \ {p}
          /\ Write(BestFit)
          /\ addr' = [addr EXCEPT ![p] = BestFit]
          /\ live' = OffFree(Allocated(BestFit), addr[p])
       \/ /\ p \in dirty
          /\ dirty' = dirty \ {p}
          /\ addr' = [addr EXCEPT ![p] = 0]
          /\ live' = OffFree(live, addr[p])
          /\ UNCHANGED <<size, unsynced>>
    /\ UNCHANGED <<evict, old, phase, root, list, turtles, setfile, made>>

\* The blocks the tree refers to.
Image == UNION {Block(addr[p]) : p \in Pages}

\* Once it has seen every page the walk writes the root, which has a block unless the
\* tree is empty.  A page modified after the walk saw it may still be dirty.
WalkRoot ==
    /\ phase = "run" /\ walked = Pages
    /\ phase' = "root"
    /\ walked' = {}
    /\ IF Image = {}
         THEN root' = NoRoot /\ UNCHANGED <<live, size, unsynced>>
         ELSE LET b == NthBlock(live.avail, size, 1)
              IN  /\ Write(b)
                  /\ live' = Allocated(b)
                  /\ root' = [block |-> b, image |-> Image]
    /\ UNCHANGED <<addr, dirty, evict, old, list, turtles, setfile, made>>

\* The live system comes after the last checkpoint of the list.
Live == Len(list) + 1

\* The deleted checkpoints whose lists are merged into those of checkpoint t, and the
\* checkpoints that are kept and have something merged into them.
MergedInto(del, t) == {i \in del : i < t /\ i .. (t - 1) \subseteq del}
Kept(del) == (1 .. Len(list)) \ del
Updated(del) == {t \in Kept(del) : MergedInto(del, t) # {}}

\* The lists of t after the merge.  The root of a deleted checkpoint is freed into that
\* checkpoint's own discard list.
MergedAlloc(del, t) ==
    (IF t = Live THEN live.alloc ELSE list[t].alloc)
      \cup UNION {list[i].alloc : i \in MergedInto(del, t)}
MergedDiscard(del, t) ==
    (IF t = Live THEN live.discard ELSE list[t].discard)
      \cup UNION {list[i].discard \cup Block(list[i].root.block) : i \in MergedInto(del, t)}

\* What is then on both of them can be used again.
Overlap(del, t) ==
    IF MergedInto(del, t) = {} THEN {} ELSE MergedAlloc(del, t) \cap MergedDiscard(del, t)
Alloc(del, t) == MergedAlloc(del, t) \ Overlap(del, t)
Discard(del, t) == MergedDiscard(del, t) \ Overlap(del, t)

\* The blocks the checkpoint makes available: the overlaps, and the blocks of the
\* extent lists that are deleted or rewritten.
CkptAvail(del) ==
    (UNION {Overlap(del, t) : t \in Kept(del) \cup {Live}})
      \cup (UNION {Block(list[i].allocAt) \cup Block(list[i].discardAt)
                     \cup Block(list[i].availAt) : i \in del})
      \cup (UNION {Block(list[t].allocAt) \cup Block(list[t].discardAt) : t \in Updated(del)})

\* The lists that are rewritten, numbered in the order of the writes, and the block
\* that each is written to.  An empty list has no block.
Rewritten(del) ==
    {2 * t : t \in {u \in Updated(del) : Alloc(del, u) # {}}}
      \cup {2 * t + 1 : t \in {u \in Updated(del) : Discard(del, u) # {}}}
RewrittenAt(del, k) ==
    IF k \notin Rewritten(del) THEN 0
    ELSE NthBlock(live.avail, size, Cardinality({j \in Rewritten(del) : j <= k}))
Rewrite(del, t) ==
    IF t \notin Updated(del) THEN list[t]
    ELSE [list[t] EXCEPT !.alloc = Alloc(del, t), !.discard = Discard(del, t),
                         !.allocAt = RewrittenAt(del, 2 * t),
                         !.discardAt = RewrittenAt(del, 2 * t + 1)]

\* The live system's size after the checkpoint: the next checkpoint has another root.
RollingSizeWithRoot(bytes, end) == Min({bytes, end})
RollingSize(bytes, end) == Min({bytes - Cardinality(Block(root.block)), end})

\* __ckpt_process, under the live lock: the checkpoints of del are deleted, the ones
\* they are merged into rewritten, the file is truncated, and the live lists are
\* written as those of the new checkpoint, the avail list even when it is empty.
WriteLists(del) ==
    LET n == Cardinality(Rewritten(del))
        rest == AvailAfter(live.avail, size, n)
        end == CutAt(rest, SizeAfter(live.avail, size, n))
        avail == rest \cap (1 .. end)
        alloc == Alloc(del, Live)
        discard == Discard(del, Live)
        allocAt == IF alloc = {} THEN 0 ELSE NthBlock(avail, end, 1)
        m == Cardinality(Block(allocAt)) + (IF discard = {} THEN 0 ELSE 1)
        discardAt == IF discard = {} THEN 0 ELSE NthBlock(avail, end, m)
        availAt == NthBlock(avail, end, m + 1)
        bytes == live.bytes + Cardinality(live.alloc) - Cardinality(live.discard)
        new == [root |-> root, alloc |-> alloc, discard |-> discard,
                avail |-> AvailAfter(avail, end, m) \cup CkptAvail(del),
                allocAt |-> allocAt, discardAt |-> discardAt, availAt |-> availAt,
                size |-> SizeAfter(avail, end, m + 1), bytes |-> bytes, addr |-> addr]
    IN  /\ SizeAfter(live.avail, size, n) <= MaxBlock /\ new.size <= MaxBlock
        /\ list' = [i \in 1 .. Cardinality(Kept(del)) |-> Rewrite(del, Nth(Kept(del), i))]
                     \o <<new>>
        /\ live' = [alloc |-> {}, avail |-> AvailAfter(avail, end, m + 1), discard |-> {},
                    ckptAvail |-> CkptAvail(del), bytes |-> RollingSize(bytes, end)]
        /\ size' = new.size
        /\ unsynced' = (unsynced \cup {RewrittenAt(del, k) : k \in Rewritten(del)}
                          \cup Block(allocAt) \cup Block(discardAt) \cup {availAt})

Process(del) ==
    /\ phase = "root"
    /\ Cardinality(Kept(del)) < MaxKept
    /\ made < MaxMade
    /\ WriteLists(del)
    /\ phase' = "written"
    /\ root' = NoRoot
    /\ made' = made + 1
    /\ UNCHANGED <<addr, dirty, evict, old, walked, turtles, setfile>>

\* The file is flushed.
SyncOff ==
    /\ phase = "written"
    /\ phase' = "synced"
    /\ UNCHANGED <<live, size, unsynced, addr, dirty, evict, old, walked, root, list, turtles,
                   setfile, made>>
Sync ==
    /\ phase = "written"
    /\ phase' = "synced"
    /\ unsynced' = {}
    /\ UNCHANGED <<live, size, addr, dirty, evict, old, walked, root, list, turtles, setfile, made>>

(***************************************************************************)
(* __wt_turtle_update: the setup file, which must not exist, is created    *)
(* and written, flushed, and renamed over the turtle file; renaming syncs  *)
(* the directory.                                                          *)
(***************************************************************************)
TurtleSet ==
    /\ phase = "synced" /\ setfile = "none"
    /\ phase' = "set"
    /\ setfile' = "torn"
    /\ UNCHANGED <<live, size, unsynced, addr, dirty, evict, old, walked, root, list, turtles, made>>

TurtleSyncOff ==
    /\ phase = "set"
    /\ phase' = "whole"
    /\ UNCHANGED <<live, size, unsynced, addr, dirty, evict, old, walked, root, list, turtles,
                   setfile, made>>
TurtleSync ==
    /\ phase = "set"
    /\ phase' = "whole"
    /\ setfile' = "whole"
    /\ UNCHANGED <<live, size, unsynced, addr, dirty, evict, old, walked, root, list, turtles, made>>

TurtleRename ==
    /\ phase = "whole"
    /\ phase' = "renamed"
    /\ turtles' = turtles \cup {[whole |-> setfile = "whole", list |-> list]}
    /\ setfile' = "none"
    /\ UNCHANGED <<live, size, unsynced, addr, dirty, evict, old, walked, root, list, made>>

DirectorySync ==
    /\ phase = "renamed"
    /\ phase' = "stable"
    /\ turtles' = {t \in turtles : t.list = list}
    /\ UNCHANGED <<live, size, unsynced, addr, dirty, evict, old, walked, root, list, setfile, made>>

\* The new list of checkpoints is in stable storage: what the checkpoint freed can be
\* allocated.
Resolve ==
    /\ phase = "stable"
    /\ phase' = "none"
    /\ live' = [live EXCEPT !.avail = @ \cup live.ckptAvail, !.ckptAvail = {}]
    /\ UNCHANGED <<size, unsynced, addr, dirty, evict, old, walked, root, list, turtles, setfile, made>>

\* A checkpoint that fails before __ckpt_process is given up.  One that fails later
\* panics, and the system must restart: that is a Crash.
Fail ==
    /\ phase \in {"wait", "run"}
    /\ phase' = "none"
    /\ walked' = {}
    /\ UNCHANGED <<live, size, unsynced, addr, dirty, evict, old, root, list, turtles, setfile, made>>

----------------------------------------------------------------------------
(* Crash and restart. *)

EmptyLive == [alloc |-> {}, avail |-> {}, discard |-> {}, ckptAvail |-> {}, bytes |-> 0]

\* __wt_block_checkpoint_load: the avail list is read, its own block taken out, and
\* the file cut where the checkpoint says it ends.
LoadWithOwnBlock(c) ==
    /\ live' = [EmptyLive EXCEPT !.avail = c.avail,
                                 !.bytes = c.bytes - Cardinality(Block(c.root.block))]
    /\ size' = c.size
    /\ addr' = c.addr
Load(c) ==
    /\ live' = [EmptyLive EXCEPT !.avail = c.avail \ {c.availAt},
                                 !.bytes = c.bytes - Cardinality(Block(c.root.block))]
    /\ size' = c.size
    /\ addr' = c.addr

\* The machine crashes; the database is opened with the checkpoints that the turtle
\* file leads to, and goes on from the last one.  A left-over setup file is removed.
Crash ==
    /\ \E t \in turtles :
         /\ t.whole
         /\ turtles' = {t}
         /\ list' = t.list
         /\ IF t.list = <<>>
              THEN live' = EmptyLive /\ size' = 0 /\ addr' = [p \in Pages |-> 0]
              ELSE Load(t.list[Len(t.list)])
    /\ unsynced' = {}
    /\ dirty' = {}
    /\ evict' = [p \in Pages |-> "no"]
    /\ old' = [p \in Pages |-> 0]
    /\ phase' = "none"
    /\ walked' = {}
    /\ root' = NoRoot
    /\ setfile' = "none"
    /\ UNCHANGED made

----------------------------------------------------------------------------
\* A new file: no block but its description, and no checkpoint.
Init ==
    /\ live = EmptyLive
    /\ size = 0
    /\ unsynced = {}
    /\ addr = [p \in Pages |-> 0]
    /\ dirty = {}
    /\ evict = [p \in Pages |-> "no"]
    /\ old = [p \in Pages |-> 0]
    /\ phase = "none"
    /\ walked = {}
    /\ root = NoRoot
    /\ list = <<>>
    /\ turtles = {[whole |-> TRUE, list |-> <<>>]}
    /\ setfile = "none"
    /\ made = 0

Next ==
    \/ \E p \in Pages : Modify(p) \/ EvictReview(p) \/ EvictWrite(p) \/ EvictFree(p)
                         \/ WalkPage(p)
    \/ Start \/ Drained \/ WalkRoot \/ Sync \/ Resolve \/ Fail \/ Crash
    \/ \E del \in SUBSET (1 .. Len(list)) : Process(del)
    \/ TurtleSet \/ TurtleSync \/ TurtleRename \/ DirectorySync

Spec == Init /\ [][Next]_vars

----------------------------------------------------------------------------
(* Properties. *)

\* Every variable has its type.
TypeOK ==
    /\ live \in [alloc : SUBSET Blocks, avail : SUBSET Blocks, discard : SUBSET Blocks,
                 ckptAvail : SUBSET Blocks, bytes : 0 .. MaxBlock]
    /\ size \in Address /\ unsynced \subseteq Blocks
    /\ addr \in [Pages -> Address] /\ old \in [Pages -> Address]
    /\ dirty \subseteq Pages /\ walked \subseteq Pages /\ evict \in [Pages -> {"no", "in", "wrote"}]
    /\ phase \in Phases /\ setfile \in {"none", "torn", "whole"}
    /\ \A i \in DOMAIN list : list[i] \in Checkpoints
    /\ made \in 0 .. MaxMade

\* Whatever the moment of a crash, the turtle file is a complete one, and the setup
\* file of the next update can be created (meta_turtle.c:707, 726).
TurtleUsable ==
    /\ \A t \in turtles : t.whole
    /\ phase = "synced" => setfile = "none"

\* Whatever the moment of a crash, every block of every checkpoint that the turtle
\* file may lead to is inside the file and on disk: none was overwritten before the
\* checkpoints that refer to it were gone from stable storage, and none was named
\* there before it was flushed (block_ckpt.c:610-626, txn_ckpt.c:2367).
Recoverable ==
    \A t \in turtles : \A i \in DOMAIN t.list :
        Needed(t.list[i]) \subseteq (1 .. size) \ unsynced

\* No block of a checkpoint, the one being made included, can be allocated or cut off
\* (btree_inline.h:1981: "leaving the checkpoint inconsistent").
NotReusable ==
    /\ \A i \in DOMAIN list : Needed(list[i]) \subseteq (1 .. size) \ live.avail
    /\ (root.image \cup Block(root.block)) \subseteq (1 .. size) \ live.avail

\* The lists a block of the file may be on: available, to become available, on an
\* alloc list, or holding an extent list.
Parts ==
    <<live.avail, live.ckptAvail, live.alloc>>
      \o [i \in DOMAIN list |-> list[i].alloc]
      \o [i \in DOMAIN list |-> Block(list[i].allocAt)]
      \o [i \in DOMAIN list |-> Block(list[i].discardAt)]
      \o [i \in DOMAIN list |-> Block(list[i].availAt)]

Discards == [i \in DOMAIN list |-> list[i].discard] \o <<live.discard>>

\* No block is lost and none is on two lists: every block of the file is in exactly
\* one place, and what a checkpoint discards is on the alloc list of an earlier one
\* (block_ckpt.c:915-928: the first checkpoint's discard list is empty), once.
Accounted ==
    /\ \A b \in 1 .. size : Cardinality({k \in DOMAIN Parts : b \in Parts[k]}) = 1
    /\ \A i \in DOMAIN Discards :
         /\ Discards[i] \subseteq UNION {list[j].alloc : j \in 1 .. (i - 1)}
         /\ \A j \in 1 .. (i - 1) : Discards[i] \cap Discards[j] = {}

\* The size a checkpoint reports is that of the blocks its root reaches, whatever was
\* deleted and merged before (block_ckpt.c:730-741, 876-893: "the live checkpoint size
\* grew without bound").
SizeExact ==
    \A i \in DOMAIN list :
        list[i].bytes = Cardinality(list[i].root.image) + Cardinality(Block(list[i].root.block))
=============================================================================
