------------------------------ MODULE RwlockSpec ------------------------------
(***************************************************************************)
(* What a WT_RWLOCK promises its callers: any number of shared owners, or  *)
(* exactly one exclusive owner.  support/mtx_rw.c implements it with       *)
(* tickets (module Rwlock); the transaction system uses it to protect the  *)
(* global transaction table (module TxnGlobal).                            *)
(***************************************************************************)
CONSTANT Threads

VARIABLES readers, writers

rwvars == <<readers, writers>>

TypeOK ==
    /\ readers \in SUBSET Threads
    /\ writers \in SUBSET Threads

Init ==
    /\ readers = {}
    /\ writers = {}

\* Who may enter: a reader when nobody writes, a writer when nobody is inside.
MayRead == writers = {}

MayWrite == readers = {} /\ writers = {}

AcquireRead(t) ==
    /\ t \notin readers
    /\ MayRead
    /\ readers' = readers \cup {t}
    /\ UNCHANGED writers

ReleaseRead(t) ==
    /\ t \in readers
    /\ readers' = readers \ {t}
    /\ UNCHANGED writers

AcquireWrite(t) ==
    /\ MayWrite
    /\ writers' = {t}
    /\ UNCHANGED readers

ReleaseWrite(t) ==
    /\ t \in writers
    /\ writers' = writers \ {t}
    /\ UNCHANGED readers

Next ==
    \E t \in Threads :
        \/ AcquireRead(t)
        \/ ReleaseRead(t)
        \/ AcquireWrite(t)
        \/ ReleaseWrite(t)

Spec == Init /\ [][Next]_rwvars
=============================================================================
