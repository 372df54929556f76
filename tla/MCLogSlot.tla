----------------------------- MODULE MCLogSlot -----------------------------
(* Model-checking instances of LogSlot. *)
EXTENDS LogSlot

CONSTANTS w1, w2

Mixed == [w \in Writers |-> IF w = w1 THEN {"fsync"} ELSE {"none", "ckpt"}]
Flushing == [w \in Writers |-> IF w = w1 THEN {"flush"} ELSE {"none"}]
=============================================================================
