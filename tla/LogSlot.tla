------------------------------ MODULE LogSlot ------------------------------
(***************************************************************************)
(* The write-ahead log: how sessions share buffers ("slots") for their     *)
(* records, how slots are closed, written and synced, how the log's LSNs   *)
(* move and how log files follow one another (log/log_slot.c, log/log.c    *)
(* and the server threads of conn/conn_log.c).                             *)
(*                                                                         *)
(* A record is a run of cells of a log file; a cell is named by an LSN.    *)
(* What a cell holds does not matter, only whether its data has been       *)
(* copied to a buffer, written to the file, and synced to disk.            *)
(***************************************************************************)
EXTENDS Integers, FiniteSets

CONSTANTS
    Writers,     \* sessions that write records
    Modes,       \* what each asks for: none, flush, fsync, ckpt
    Flushers,    \* sessions that call __wt_log_flush, with sync
    Backups,     \* sessions that force a new log file
    Sizes,       \* sizes of records, rounded up
    BufMax,      \* WT_LOG_SLOT_BUF_MAX, half of a slot's buffer
    FileMax,     \* conn->log_file_max
    Pool,        \* WT_SLOT_POOL
    MaxRecords,  \* bound on the records written
    MaxFiles     \* bound on the files that are asked for

Server == "log_server"      \* __log_server, which forces slots out
Wrlsn == "wrlsn_server"     \* __log_wrlsn_server, which moves write_lsn
Threads == Writers \cup Flushers \cup Backups \cup {Server, Wrlsn}
Slots == 1 .. Pool
None == 0

ASSUME LogAssumption ==
    /\ {Server, Wrlsn} \cap (Writers \cup Flushers \cup Backups) = {}
    /\ Modes \in [Writers -> SUBSET {"none", "flush", "fsync", "ckpt"}]
    /\ Sizes \subseteq Nat \ {0}
    /\ {BufMax, FileMax, Pool, MaxRecords, MaxFiles} \subseteq Nat \ {0}

VARIABLES
    slot,         \* log->slot_pool
    active,       \* log->active_slot; log->pool_index is the same slot
    lock,         \* the thread that has log_slot_lock
    wr,           \* the thread that has log_writelsn_lock, and its locals
    alloc_lsn,    \* next LSN to hand out
    write_lsn,    \* end of what has been written without a hole
    write_start_lsn,  \* beginning of the last record below write_lsn
    sync_lsn,     \* what the log takes to be on disk
    log_fh,       \* number of the file behind log->log_fh
    log_close_fh, \* file to be closed, or None
    log_close_lsn,
    closing,      \* the file __log_file_server is closing, or None
    force_newfile,\* WT_LOG_FORCE_NEWFILE
    prev,         \* alloc_lsn when the wrlsn server last looked
    pc, my,       \* where a thread is, and its WT_MYSLOT and locals
    recs,         \* history: the records that joined a slot
    done,         \* history: those whose write returned
    written,      \* cells in the files, as the operating system sees them
    disk          \* cells that survive a crash

lsns == <<alloc_lsn, write_lsn, write_start_lsn, sync_lsn>>
files == <<log_fh, log_close_fh, log_close_lsn, closing, force_newfile>>
data == <<recs, done, written, disk>>
vars == <<slot, active, lock, wr, lsns, files, prev, pc, my, data>>

---------------------------------------------------------------------------
\* LSNs, as pairs of a file and an offset.

Lsn(file, offset) == <<file, offset>>
File(lsn) == lsn[1]
Offset(lsn) == lsn[2]
Plus(lsn, n) == Lsn(File(lsn), Offset(lsn) + n)

\* __wt_log_cmp
Before(a, b) == File(a) < File(b) \/ (File(a) = File(b) /\ Offset(a) < Offset(b))
AtMost(a, b) == a = b \/ Before(a, b)

\* WT_LOG_END_HEADER and log->first_record, after the system record.
EndHeader == 1
FirstRecord == 2

Cells(lsn, n) == {Plus(lsn, i) : i \in 0 .. n - 1}
CellsOf(rs) == UNION {Cells(r.lsn, r.size) : r \in rs}
OfFile(cells, f) == {c \in cells : File(c) = f}

---------------------------------------------------------------------------
\* The state of a slot: the special states, and the sizes joined and released,
\* in which one bit above all sizes stands for an unbuffered record.

Unbuffered == 4 * BufMax
UnbufferedIsSet(s) == s.joined >= Unbuffered
JoinedBuffered(s) == s.joined % Unbuffered
ReleasedBuffered(s) == s.released % Unbuffered
InProgress(s) == s.state \in {"free", "written"} \/ s.released # s.joined
Done(s) == s.state = "closed" /\ ~InProgress(s)
Open(s) == s.state = "open" /\ ~UnbufferedIsSet(s) /\ s.joined < BufMax

\* __wt_log_slot_free
FreeSlot ==
    [state |-> "free", joined |-> 0, released |-> 0, unbuffered |-> 0,
     release_lsn |-> Lsn(0, 0), start_lsn |-> Lsn(0, 0), end_lsn |-> Lsn(0, 0),
     last_offset |-> 0, flags |-> {}, buf |-> {}]

\* __wt_log_slot_activate, with the release LSN its callers set.
ActiveSlot(release, start) ==
    [FreeSlot EXCEPT !.state = "open", !.release_lsn = release, !.start_lsn = start,
                     !.end_lsn = start, !.last_offset = Offset(start)]

WrittenSlot(s) ==
    [s EXCEPT !.state = "written", !.joined = 0, !.released = 0, !.unbuffered = 0, !.buf = {}]

Idle == [slot |-> None, offset |-> 0, size |-> 0, mode |-> "none", flags |-> {},
         lsn |-> Lsn(0, 0), forced |-> FALSE, release |-> FALSE,
         next |-> None, ret |-> "idle", last |-> Lsn(0, 0), must |-> {}]
NoWr == [who |-> "nobody", i |-> 0, seen |-> {}, coalescing |-> None, save |-> Lsn(0, 0)]

\* __wt_log_slot_init, on a log that __log_newfile has just made.
Init ==
    LET start == Lsn(1, FirstRecord)
    IN  /\ slot = [s \in Slots |-> IF s = 1 THEN ActiveSlot(start, start) ELSE FreeSlot]
        /\ active = 1 /\ lock = "nobody" /\ wr = NoWr
        /\ alloc_lsn = start /\ write_lsn = start /\ write_start_lsn = start
        /\ sync_lsn = start
        /\ log_fh = 1 /\ log_close_fh = None /\ log_close_lsn = Lsn(1, 0)
        /\ closing = None /\ force_newfile = FALSE /\ prev = Lsn(1, 0)
        /\ pc = [t \in Threads |-> "idle"] /\ my = [t \in Threads |-> Idle]
        /\ recs = {} /\ done = {} /\ written = {} /\ disk = {}

Goto(t, where) == pc' = [pc EXCEPT ![t] = where]
MySlot(t) == slot[my[t].slot]
MyRecord(t) == [lsn |-> my[t].lsn, size |-> my[t].size, mode |-> my[t].mode]
Return(t) == Goto(t, "idle") /\ my' = [my EXCEPT ![t] = Idle]

---------------------------------------------------------------------------
\* __log_write_internal and __wt_log_slot_join.

IsUnbuffered(w) == my[w].size > BufMax
SlotFlags(mode) ==
    CASE mode = "flush" -> {"flush"} [] mode = "fsync" -> {"sync"} [] OTHER -> {}

Write(w, size, mode) ==
    /\ pc[w] = "idle"
    /\ Cardinality(recs) + Cardinality({v \in Writers : pc[v] = "join"}) < MaxRecords
    /\ my' = [my EXCEPT ![w] = [Idle EXCEPT !.slot = active, !.size = size,
                                            !.mode = mode, !.ret = "copy"]]
    /\ Goto(w, "join")
    /\ UNCHANGED <<slot, active, lock, wr, lsns, files, prev, data>>

\* Where a writer goes once it has joined a slot and set the slot's fields.
MustSwitch(w, offset) ==
    \/ offset + my[w].size >= BufMax
    \/ SlotFlags(my[w].mode) # {}
Joined(w, offset) ==
    Goto(w, IF IsUnbuffered(w) THEN "size" ELSE IF MustSwitch(w, offset) THEN "switch" ELSE "copy")

\* The swap of the state succeeds if the slot, which may have been reused since
\* the session read active_slot, takes joins; if not, the session starts over.
Join(w) ==
    /\ pc[w] = "join"
    /\ IF Open(MySlot(w))
         THEN LET offset == MySlot(w).joined
                  lsn == Plus(MySlot(w).start_lsn, offset)
                  size == IF IsUnbuffered(w) THEN Unbuffered ELSE my[w].size
              IN  /\ slot' = [slot EXCEPT ![my[w].slot].joined = @ + size]
                  /\ my' = [my EXCEPT ![w].offset = offset, ![w].lsn = lsn]
                  /\ recs' = recs \cup {MyRecord(w)'}
                  /\ IF SlotFlags(my[w].mode) # {} THEN Goto(w, "flags") ELSE Joined(w, offset)
         ELSE /\ my' = [my EXCEPT ![w].slot = active]
              /\ UNCHANGED <<slot, pc, recs>>
    /\ UNCHANGED <<active, lock, wr, lsns, files, prev, done, written, disk>>

\* F_SET is a plain load and store: sessions that set flags at the same time
\* may undo each other's.
LoadFlags(w) ==
    /\ pc[w] = "flags"
    /\ my' = [my EXCEPT ![w].flags = MySlot(w).flags \cup SlotFlags(my[w].mode)]
    /\ Goto(w, "store")
    /\ UNCHANGED <<slot, active, lock, wr, lsns, files, prev, data>>

StoreFlags(w) ==
    /\ pc[w] = "store"
    /\ slot' = [slot EXCEPT ![my[w].slot].flags = my[w].flags]
    /\ my' = [my EXCEPT ![w].flags = {}]
    /\ Joined(w, my[w].offset)
    /\ UNCHANGED <<active, lock, wr, lsns, files, prev, data>>

SetUnbuffered(w) ==
    /\ pc[w] = "size"
    /\ slot' = [slot EXCEPT ![my[w].slot].unbuffered = my[w].size]
    /\ Goto(w, "switch")
    /\ UNCHANGED <<active, lock, wr, lsns, files, prev, my, data>>

\* What is left of a write once the slot is no longer its business.
AfterWrite(t) ==
    LET rest == [Idle EXCEPT !.lsn = my[t].lsn, !.size = my[t].size, !.mode = my[t].mode]
    IN  CASE my[t].mode = "none" -> Return(t) /\ done' = done \cup {MyRecord(t)}
          [] my[t].mode = "ckpt" -> Goto(t, "force_sync") /\ my' = [my EXCEPT ![t] = rest]
                                    /\ done' = done \cup {MyRecord(t)}
          [] OTHER -> Goto(t, "wait") /\ my' = [my EXCEPT ![t] = rest] /\ UNCHANGED done

\* __wt_log_fill and __wt_log_slot_release: the record goes to the buffer or, if
\* it is unbuffered, to the file, and its size is added to what is released.
Copy(w) ==
    /\ pc[w] = "copy"
    /\ LET s == MySlot(w)
           size == IF IsUnbuffered(w) THEN Unbuffered ELSE my[w].size
           mine == my[w].offset .. my[w].offset + my[w].size - 1
           start == Offset(s.start_lsn) + my[w].offset
           new == [s EXCEPT !.released = @ + size,
                            !.buf = IF IsUnbuffered(w) THEN @ ELSE @ \cup mine,
                            !.last_offset = IF @ < start THEN start ELSE @]
       IN  /\ slot' = [slot EXCEPT ![my[w].slot] = new]
           /\ written' = IF IsUnbuffered(w) THEN written \cup Cells(my[w].lsn, my[w].size) ELSE written
           /\ IF Done(new) THEN Goto(w, "release") /\ UNCHANGED <<my, done>> ELSE AfterWrite(w)
    /\ UNCHANGED <<active, lock, wr, lsns, files, prev, recs, disk>>

\* A write that is to be flushed or synced waits for the log's LSN to pass it.
Wait(w) ==
    /\ pc[w] = "wait"
    /\ Before(my[w].lsn, IF my[w].mode = "flush" THEN write_lsn ELSE sync_lsn)
    /\ done' = done \cup {MyRecord(w)}
    /\ Return(w)
    /\ UNCHANGED <<slot, active, lock, wr, lsns, files, prev, recs, written, disk>>

---------------------------------------------------------------------------
\* __wt_log_slot_switch and __log_slot_switch_internal up to the swap that
\* closes the slot.  A forced switch waits for a slot that is being copied to,
\* and leaves an empty one unless a new file is asked for.

\* How the switch a thread asked for returns; what it no longer needs is reset.
SwitchReturn(t) ==
    /\ Goto(t, my[t].ret)
    /\ my' = [my EXCEPT ![t] =
                 CASE my[t].ret = "idle" -> Idle
                   [] my[t].ret = "wrlsn" -> [Idle EXCEPT !.last = my[t].last, !.must = my[t].must]
                   [] OTHER -> [@ EXCEPT !.release = FALSE, !.next = None, !.ret = "idle"]]

NothingToSwitch(t) ==
    \/ my[t].slot # active
    \/ my[t].forced /\ MySlot(t).joined = 0 /\ ~force_newfile
    \/ ~(my[t].forced /\ InProgress(MySlot(t))) /\ MySlot(t).state # "open"

SwitchSkip(t) ==
    /\ pc[t] = "switch" /\ lock = "nobody"
    /\ NothingToSwitch(t)
    /\ SwitchReturn(t)
    /\ UNCHANGED <<slot, active, lock, wr, lsns, files, prev, data>>

CloseSlot(t, m) ==
    /\ lock' = t
    /\ slot' = [slot EXCEPT ![m.slot].state = "closed"]
    /\ my' = [my EXCEPT ![t] = [m EXCEPT !.release = ~InProgress(slot[m.slot])]]
    /\ Goto(t, "close")

Close(t) ==
    /\ pc[t] = "switch" /\ lock = "nobody"
    /\ ~NothingToSwitch(t)
    /\ ~(my[t].forced /\ InProgress(MySlot(t)))
    /\ CloseSlot(t, my[t])
    /\ UNCHANGED <<active, wr, lsns, files, prev, data>>

\* Mutant: the size of an unbuffered record is not waited for.
CloseEndNow(t) ==
    /\ pc[t] = "close"
    /\ LET s == MySlot(t)
           end == Plus(s.start_lsn, JoinedBuffered(s) + s.unbuffered)
       IN  /\ slot' = [slot EXCEPT ![my[t].slot].end_lsn = end]
           /\ alloc_lsn' = end
    /\ Goto(t, "new")
    /\ UNCHANGED <<active, lock, wr, write_lsn, write_start_lsn, sync_lsn, files, prev, my, data>>

\* The rest of __log_slot_close: once the size of an unbuffered record is known
\* the end of the slot is, and it is where the next slot begins.
CloseEnd(t) ==
    /\ pc[t] = "close"
    /\ LET s == MySlot(t)
           end == Plus(s.start_lsn, JoinedBuffered(s) + s.unbuffered)
       IN  /\ UnbufferedIsSet(s) => s.unbuffered # 0
           /\ slot' = [slot EXCEPT ![my[t].slot].end_lsn = end]
           /\ alloc_lsn' = end
    /\ Goto(t, "new")
    /\ UNCHANGED <<active, lock, wr, write_lsn, write_start_lsn, sync_lsn, files, prev, my, data>>

---------------------------------------------------------------------------
\* __log_slot_new, __wt_log_acquire and __log_newfile.

\* The first free slot, in turn from the one that is active.
FreeSlots == {s \in Slots : slot[s].state = "free"}
Turn(s) == (s - active) % Pool
\* Mutant: the index does not wrap at the end of the pool.
NextFreeNoWrap == active + 1

NextFree == CHOOSE s \in FreeSlots : \A r \in FreeSlots : Turn(s) <= Turn(r)

\* __log_size_fit, for a whole buffer.
Fits(lsn) == Offset(lsn) = FirstRecord \/ Offset(lsn) + 2 * BufMax < FileMax
NeedsFile == force_newfile \/ ~Fits(alloc_lsn)

\* The slot s becomes the active one, and the thread goes on with the one it
\* closed: to write it if nobody else will, still with the lock, or to return.
Activate(t, s, release, start) ==
    /\ slot' = [slot EXCEPT ![s] = ActiveSlot(release, start)]
    /\ active' = s
    /\ IF my[t].release
         THEN Goto(t, "release") /\ UNCHANGED <<lock, my>>
         ELSE lock' = "nobody" /\ SwitchReturn(t)

NewSlot(t) ==
    /\ pc[t] = "new"
    /\ FreeSlots # {} /\ ~NeedsFile
    /\ Activate(t, NextFree, alloc_lsn, alloc_lsn)
    /\ UNCHANGED <<wr, lsns, files, prev, data>>

\* No slot is free: the thread lets go of the lock for a while.
NewWait(t) ==
    /\ pc[t] = "new"
    /\ FreeSlots = {}
    /\ lock' = "nobody"
    /\ Goto(t, "relock")
    /\ UNCHANGED <<slot, active, wr, lsns, files, prev, my, data>>

Relock(t) ==
    /\ pc[t] = "relock" /\ lock = "nobody"
    /\ lock' = t
    /\ Goto(t, "new")
    /\ UNCHANGED <<slot, active, wr, lsns, files, prev, my, data>>

\* While the last file is still to be closed the thread does the work of the
\* server that moves write_lsn, and then lets go of the lock for a while.
NewWork(t) ==
    /\ pc[t] = "new"
    /\ FreeSlots # {} /\ NeedsFile /\ log_close_fh # None
    /\ Goto(t, "wrlsn")
    /\ UNCHANGED <<slot, active, lock, wr, lsns, files, prev, my, data>>

NewFile(t) ==
    /\ pc[t] = "new"
    /\ FreeSlots # {} /\ NeedsFile /\ log_close_fh = None
    /\ my' = [my EXCEPT ![t].next = NextFree]
    /\ slot' = [slot EXCEPT ![NextFree].release_lsn = alloc_lsn]
    /\ log_close_lsn' = alloc_lsn
    /\ log_close_fh' = log_fh
    /\ alloc_lsn' = Lsn(log_fh + 1, EndHeader)
    /\ Goto(t, "newfile")
    /\ UNCHANGED <<active, lock, wr, write_lsn, write_start_lsn, sync_lsn, log_fh, closing,
                   force_newfile, prev, data>>

\* The system record has been written to the new file.
NewFileReady(t) ==
    /\ pc[t] = "newfile"
    /\ log_fh' = log_fh + 1
    /\ alloc_lsn' = Lsn(log_fh + 1, FirstRecord)
    /\ force_newfile' = FALSE
    /\ Activate(t, my[t].next, slot[my[t].next].release_lsn, Lsn(log_fh + 1, FirstRecord))
    /\ UNCHANGED <<wr, write_lsn, write_start_lsn, sync_lsn, log_close_fh, log_close_lsn,
                   closing, prev, data>>

---------------------------------------------------------------------------
\* __wt_log_release: a slot to which everybody has copied is written.  If nobody
\* waits for it, the server moves write_lsn and frees the slot; if not, the
\* thread does, when the earlier slots have been written.

\* The thread is done with the slot: it was a forced switch, or a write.
Released(t) ==
    IF my[t].forced
      THEN lock' = "nobody" /\ SwitchReturn(t) /\ UNCHANGED done
      ELSE AfterWrite(t) /\ UNCHANGED lock

Release(t) ==
    /\ pc[t] = "release"
    /\ LET s == MySlot(t)
       IN  /\ written' = written \cup {Plus(s.start_lsn, i) : i \in s.buf \cap (0 .. ReleasedBuffered(s) - 1)}
           /\ IF s.flags = {}
                THEN slot' = [slot EXCEPT ![my[t].slot] = WrittenSlot(s)] /\ Released(t)
                ELSE Goto(t, "earlier") /\ UNCHANGED <<slot, lock, my, done>>
    /\ UNCHANGED <<active, wr, lsns, files, prev, recs, disk>>

\* Mutant: earlier slots are not waited for.
EarlierNoWait(t) ==
    /\ pc[t] = "earlier"
    /\ write_start_lsn' = MySlot(t).start_lsn
    /\ write_lsn' = MySlot(t).end_lsn
    /\ IF "sync" \in MySlot(t).flags
         THEN Goto(t, "sync") /\ UNCHANGED <<slot, lock, my, done>>
         ELSE slot' = [slot EXCEPT ![my[t].slot] = FreeSlot] /\ Released(t)
    /\ UNCHANGED <<active, wr, alloc_lsn, sync_lsn, files, prev, recs, written, disk>>

\* Mutant: the slot's start, which may be in a new file, for its release LSN.
EarlierAtStart(t) ==
    /\ pc[t] = "earlier"
    /\ write_lsn = MySlot(t).start_lsn
    /\ write_start_lsn' = MySlot(t).start_lsn
    /\ write_lsn' = MySlot(t).end_lsn
    /\ IF "sync" \in MySlot(t).flags
         THEN Goto(t, "sync") /\ UNCHANGED <<slot, lock, my, done>>
         ELSE slot' = [slot EXCEPT ![my[t].slot] = FreeSlot] /\ Released(t)
    /\ UNCHANGED <<active, wr, alloc_lsn, sync_lsn, files, prev, recs, written, disk>>

Earlier(t) ==
    /\ pc[t] = "earlier"
    /\ write_lsn = MySlot(t).release_lsn
    /\ write_start_lsn' = MySlot(t).start_lsn
    /\ write_lsn' = MySlot(t).end_lsn
    /\ IF "sync" \in MySlot(t).flags
         THEN Goto(t, "sync") /\ UNCHANGED <<slot, lock, my, done>>
         ELSE slot' = [slot EXCEPT ![my[t].slot] = FreeSlot] /\ Released(t)
    /\ UNCHANGED <<active, wr, alloc_lsn, sync_lsn, files, prev, recs, written, disk>>

\* fsync of a file: what has been written to it will survive a crash.
Fsync(file) == disk' = disk \cup OfFile(written, file)

\* Mutant: sync_lsn is not looked at again under log_sync_lock.
SyncUnchecked(t) ==
    /\ pc[t] = "sync"
    /\ File(sync_lsn) >= File(MySlot(t).end_lsn)
    /\ Fsync(log_fh)
    /\ sync_lsn' = MySlot(t).end_lsn
    /\ slot' = [slot EXCEPT ![my[t].slot] = FreeSlot]
    /\ Released(t)
    /\ UNCHANGED <<active, wr, alloc_lsn, write_lsn, write_start_lsn, files, prev, recs, written>>

\* Earlier files have been closed.  The file that is synced is the log's file.
Sync(t) ==
    /\ pc[t] = "sync"
    /\ File(sync_lsn) >= File(MySlot(t).end_lsn)
    /\ IF Before(sync_lsn, MySlot(t).end_lsn)
         THEN Fsync(log_fh) /\ sync_lsn' = MySlot(t).end_lsn
         ELSE UNCHANGED <<disk, sync_lsn>>
    /\ slot' = [slot EXCEPT ![my[t].slot] = FreeSlot]
    /\ Released(t)
    /\ UNCHANGED <<active, wr, alloc_lsn, write_lsn, write_start_lsn, files, prev, recs, written>>

---------------------------------------------------------------------------
\* __wt_log_wrlsn, which the wrlsn server, flushes and a change of files run.
\* The server looks if anything happened since it last did.

WrStart(t) ==
    /\ \/ pc[t] = "wrlsn"
       \/ t = Wrlsn /\ pc[t] = "idle" /\ {prev, write_lsn} # {alloc_lsn}
    /\ wr.who = "nobody"
    /\ wr' = [NoWr EXCEPT !.who = t, !.i = 1]
    /\ Goto(t, "walk")
    /\ UNCHANGED <<slot, active, lock, lsns, files, prev, my, data>>

WrWalk(t) ==
    /\ pc[t] = "walk"
    /\ wr' = [wr EXCEPT !.i = @ + 1,
                        !.seen = IF slot[wr.i].state = "written" THEN @ \cup {wr.i} ELSE @]
    /\ IF wr.i = Pool THEN Goto(t, "entry") ELSE UNCHANGED pc
    /\ UNCHANGED <<slot, active, lock, lsns, files, prev, my, data>>

\* The next slot to look at, in the order of release LSNs.
FirstSeen ==
    CHOOSE s \in wr.seen : \A r \in wr.seen \ {s} :
        \/ Before(slot[s].release_lsn, slot[r].release_lsn)
        \/ slot[s].release_lsn = slot[r].release_lsn /\ s < r

WrRest == <<active, lock, alloc_lsn, sync_lsn, files, prev, my, data>>

\* An empty slot is freed.
IsEmpty(s) == s.start_lsn = s.release_lsn /\ s.start_lsn = s.end_lsn
WrEmpty(t) ==
    /\ pc[t] = "entry" /\ wr.seen # {}
    /\ IsEmpty(slot[FirstSeen])
    /\ slot' = [slot EXCEPT ![FirstSeen] = FreeSlot]
    /\ wr' = [wr EXCEPT !.seen = @ \ {FirstSeen}]
    /\ UNCHANGED <<WrRest, pc, write_lsn, write_start_lsn>>

\* The slot begins where write_lsn ends.
WrAdvance(t) ==
    /\ pc[t] = "entry" /\ wr.seen # {} /\ wr.coalescing = None
    /\ LET s == slot[FirstSeen]
       IN  /\ ~IsEmpty(s) /\ s.release_lsn = write_lsn
           /\ write_start_lsn' = Lsn(File(s.start_lsn), s.last_offset)
           /\ write_lsn' = s.end_lsn
    /\ slot' = [slot EXCEPT ![FirstSeen] = FreeSlot]
    /\ wr' = [wr EXCEPT !.seen = @ \ {FirstSeen}, !.save = write_lsn]
    /\ UNCHANGED <<WrRest, pc>>

\* It does not: the slots that follow it are to be joined to it.
WrBegin(t) ==
    /\ pc[t] = "entry" /\ wr.seen # {}
    /\ LET s == slot[FirstSeen]
       IN  /\ ~IsEmpty(s)
           /\ \/ wr.coalescing = None /\ s.release_lsn # write_lsn
              \/ wr.coalescing # None /\ wr.save = write_lsn
                 /\ slot[wr.coalescing].end_lsn # s.release_lsn
    /\ wr' = [wr EXCEPT !.seen = @ \ {FirstSeen}, !.coalescing = FirstSeen,
                        !.save = IF wr.coalescing = None THEN write_lsn ELSE @]
    /\ UNCHANGED <<WrRest, pc, slot, write_lsn, write_start_lsn>>

\* Mutant: the end of the slot that is joined to is left alone.
WrCoalesceShort(t) ==
    /\ pc[t] = "entry" /\ wr.seen # {} /\ wr.coalescing # None /\ wr.save = write_lsn
    /\ LET s == slot[FirstSeen]
       IN  /\ ~IsEmpty(s) /\ slot[wr.coalescing].end_lsn = s.release_lsn
           /\ slot' = [slot EXCEPT ![wr.coalescing].last_offset = s.last_offset,
                                   ![FirstSeen] = FreeSlot]
    /\ wr' = [wr EXCEPT !.seen = @ \ {FirstSeen}]
    /\ UNCHANGED <<WrRest, pc, write_lsn, write_start_lsn>>

\* The slot follows the one before it, which takes its end, and is freed.
WrCoalesce(t) ==
    /\ pc[t] = "entry" /\ wr.seen # {} /\ wr.coalescing # None /\ wr.save = write_lsn
    /\ LET s == slot[FirstSeen]
       IN  /\ ~IsEmpty(s) /\ slot[wr.coalescing].end_lsn = s.release_lsn
           /\ slot' = [slot EXCEPT ![wr.coalescing].end_lsn = s.end_lsn,
                                   ![wr.coalescing].last_offset = s.last_offset,
                                   ![FirstSeen] = FreeSlot]
    /\ wr' = [wr EXCEPT !.seen = @ \ {FirstSeen}]
    /\ UNCHANGED <<WrRest, pc, write_lsn, write_start_lsn>>

\* write_lsn has moved meanwhile: start over.
WrRestart(t) ==
    /\ pc[t] = "entry" /\ wr.seen # {} /\ wr.coalescing # None /\ wr.save # write_lsn
    /\ ~IsEmpty(slot[FirstSeen])
    /\ wr' = [NoWr EXCEPT !.who = t, !.i = 1]
    /\ Goto(t, "walk")
    /\ UNCHANGED <<WrRest, slot, write_lsn, write_start_lsn>>

WrEnd(t) ==
    /\ pc[t] = "entry" /\ wr.seen = {}
    /\ wr' = NoWr
    /\ prev' = IF t = Wrlsn THEN alloc_lsn ELSE prev
    /\ lock' = IF lock = t THEN "nobody" ELSE lock
    /\ Goto(t, IF t = Wrlsn THEN "idle" ELSE IF lock = t THEN "relock" ELSE "flushed")
    /\ UNCHANGED <<slot, active, lsns, files, my, data>>

---------------------------------------------------------------------------
\* __wt_log_force_write, as the log server, a backup and a flush call it.

Forced(ret) == [Idle EXCEPT !.slot = active, !.forced = TRUE, !.ret = ret]

\* The server does not try again, so its switches that would do nothing are left out.
ForceServer ==
    /\ pc[Server] = "idle" /\ lock = "nobody"
    /\ slot[active].joined # 0 \/ force_newfile
    /\ slot[active].state = "open" /\ ~InProgress(slot[active])
    /\ CloseSlot(Server, Forced("idle"))
    /\ UNCHANGED <<active, wr, lsns, files, prev, data>>

\* __wt_log_get_backup_files
Backup(b) ==
    /\ pc[b] = "idle"
    /\ log_fh < MaxFiles
    /\ force_newfile' = TRUE
    /\ my' = [my EXCEPT ![b] = Forced("idle")]
    /\ Goto(b, "switch")
    /\ UNCHANGED <<slot, active, lock, wr, lsns, log_fh, log_close_fh, log_close_lsn, closing,
                   prev, data>>

\* __wt_log_flush: what is in the slots is forced out, until write_lsn is where
\* alloc_lsn was, or at the end of the last file if the new one has no record.
Flush(f) ==
    /\ pc[f] = "idle"
    /\ my' = [my EXCEPT ![f] = [Forced("wrlsn") EXCEPT !.must = done]]
    /\ Goto(f, "switch")
    /\ UNCHANGED <<slot, active, lock, wr, lsns, files, prev, data>>

\* Mutant: write_lsn is taken to be at the end after one round.
FlushedOnce(f) ==
    /\ pc[f] = "flushed"
    /\ my' = [my EXCEPT ![f] = [Idle EXCEPT !.lsn = write_lsn, !.must = my[f].must]]
    /\ Goto(f, "force_sync")
    /\ UNCHANGED <<slot, active, lock, wr, lsns, files, prev, data>>

Flushed(f) ==
    /\ pc[f] = "flushed"
    /\ LET end == IF Offset(alloc_lsn) = FirstRecord THEN log_close_lsn ELSE alloc_lsn
           last == IF my[f].last = Lsn(0, 0) THEN end ELSE my[f].last
           must == my[f].must
       IN  IF Before(write_lsn, last)
             THEN /\ my' = [my EXCEPT ![f] = [Forced("wrlsn") EXCEPT !.last = last, !.must = must]]
                  /\ Goto(f, "switch")
             ELSE /\ my' = [my EXCEPT ![f] = [Idle EXCEPT !.lsn = write_lsn, !.must = must]]
                  /\ Goto(f, "force_sync")
    /\ UNCHANGED <<slot, active, lock, wr, lsns, files, prev, data>>

\* __wt_log_force_sync, which a flush calls with write_lsn and the start of a
\* checkpoint with the LSN of the record it wrote.
ForceSync(t) ==
    /\ pc[t] = "force_sync"
    /\ File(sync_lsn) >= File(my[t].lsn)
    /\ IF Before(sync_lsn, my[t].lsn)
         THEN Fsync(File(my[t].lsn)) /\ sync_lsn' = my[t].lsn
         ELSE UNCHANGED <<disk, sync_lsn>>
    /\ Return(t)
    /\ UNCHANGED <<slot, active, lock, wr, alloc_lsn, write_lsn, write_start_lsn, files, prev,
                   recs, done, written>>

---------------------------------------------------------------------------
\* __log_file_server: a file all of whose records are written is synced.

\* Mutant: the file is closed while slots are still to be written to it.
FileCloseEarly ==
    /\ closing = None /\ log_close_fh # None
    /\ closing' = log_close_fh
    /\ log_close_fh' = None
    /\ UNCHANGED <<slot, active, lock, wr, lsns, log_fh, log_close_lsn, force_newfile, prev, pc,
                   my, data>>

FileClose ==
    /\ closing = None /\ log_close_fh # None
    /\ AtMost(log_close_lsn, write_lsn)
    /\ closing' = log_close_fh
    /\ log_close_fh' = None
    /\ UNCHANGED <<slot, active, lock, wr, lsns, log_fh, log_close_lsn, force_newfile, prev, pc,
                   my, data>>

FileSync ==
    /\ closing # None
    /\ Fsync(closing)
    /\ sync_lsn' = Lsn(closing + 1, 0)
    /\ closing' = None
    /\ UNCHANGED <<slot, active, lock, wr, alloc_lsn, write_lsn, write_start_lsn, log_fh,
                   log_close_fh, log_close_lsn, force_newfile, prev, pc, my, recs, done, written>>

---------------------------------------------------------------------------
SwitchStep(t) ==
    \/ SwitchSkip(t) \/ Close(t) \/ CloseEnd(t)
    \/ NewSlot(t) \/ NewWait(t) \/ Relock(t) \/ NewWork(t) \/ NewFile(t) \/ NewFileReady(t)
    \/ Release(t) \/ Earlier(t) \/ Sync(t)
WrStep(t) ==
    \/ WrStart(t) \/ WrWalk(t) \/ WrEmpty(t) \/ WrAdvance(t) \/ WrBegin(t) \/ WrCoalesce(t)
    \/ WrRestart(t) \/ WrEnd(t)
WriteStep(w) ==
    Join(w) \/ LoadFlags(w) \/ StoreFlags(w) \/ SetUnbuffered(w) \/ Copy(w) \/ Wait(w)

Continue(t) ==
    \/ SwitchStep(t) \/ WrStep(t)
    \/ t \in Writers /\ WriteStep(t)
    \/ t \in Flushers /\ Flushed(t)
    \/ t \in Writers \cup Flushers /\ ForceSync(t)

Next ==
    \/ \E t \in Threads : Continue(t)
    \/ \E w \in Writers, size \in Sizes : \E mode \in Modes[w] : Write(w, size, mode)
    \/ \E f \in Flushers : Flush(f)
    \/ \E b \in Backups : Backup(b)
    \/ ForceServer \/ FileClose \/ FileSync

Spec == Init /\ [][Next]_vars

\* Threads run, a lock that is free again and again is got (the locks are spin
\* locks or POSIX mutexes), and the servers look again and again, by their timers.
Fairness ==
    /\ \A t \in Threads : SF_vars(Continue(t))
    /\ WF_vars(ForceServer) /\ WF_vars(FileClose \/ FileSync)
FairSpec == Spec /\ Fairness

---------------------------------------------------------------------------
LsnType == (0 .. MaxRecords + MaxFiles + 1) \X Nat

\* Types of the variables.
TypeOK ==
    /\ slot \in [Slots -> [state : {"open", "closed", "written", "free"}, joined : Nat,
                           released : Nat, unbuffered : {0} \cup Sizes, release_lsn : LsnType,
                           start_lsn : LsnType, end_lsn : LsnType, last_offset : Nat,
                           flags : SUBSET {"flush", "sync"}, buf : SUBSET Nat]]
    /\ active \in Slots
    /\ lock \in Threads \cup {"nobody"}
    /\ {alloc_lsn, write_lsn, write_start_lsn, sync_lsn, log_close_lsn, prev} \subseteq LsnType

\* The log has no holes below write_lsn: slots are written in any order, and by
\* several threads, but every record that begins before write_lsn is in its file,
\* however __wt_log_release, __wt_log_wrlsn and coalescing interleave.
NoHoles == CellsOf({r \in recs : Before(r.lsn, write_lsn)}) \subseteq written

\* The positions that joins, closes and changes of file hand out neither overlap,
\* nor leave a gap, nor reach into the next slot, also when a slot is closed between the two steps in which an
\* unbuffered record joins it (log_slot.c:160).
RecordsFill ==
    /\ \A r, q \in recs : r # q => Cells(r.lsn, r.size) \cap Cells(q.lsn, q.size) = {}
    /\ \A r \in recs : Offset(r.lsn) = FirstRecord \/ Plus(r.lsn, -1) \in CellsOf(recs)
    /\ slot[active].joined = 0 => \A c \in CellsOf(recs) : Before(c, slot[active].start_lsn)

\* A log file that sync_lsn has left behind is on disk as a whole: __log_file_server
\* syncs and closes a file only when every slot of the file has been written.
ClosedDurable == {c \in CellsOf(recs) : File(c) < File(sync_lsn)} \subseteq disk

\* When __wt_log_flush is about to sync, every write that had returned when it was
\* called is in its file, whatever slots, switches and files came in between.
FlushWritten ==
    \A f \in Flushers : pc[f] = "force_sync" => CellsOf(my[f].must) \subseteq written

\* The log's LSNs never go back, although four kinds of threads move them, under
\* different locks.
LsnsForward ==
    [][/\ AtMost(write_lsn, write_lsn') /\ AtMost(sync_lsn, sync_lsn')
       /\ AtMost(alloc_lsn, alloc_lsn')]_vars

\* Everything that joined a slot is written in the end, if need be by the log server
\* (__log_server), and write_lsn passes it: no slot is lost or skipped.
EverythingWritten == []<>(\A r \in recs : Before(r.lsn, write_lsn))

\* Every write returns: threads wait for free slots, for earlier slots, for a file
\* to be closed and for each other's locks, but not for ever.
WritesReturn == \A w \in Writers : pc[w] # "idle" ~> pc[w] = "idle"
===========================================================================
