----------------------------- MODULE MCTxnGlobal -----------------------------
(* Model-checking instances of TxnGlobal. *)
EXTENDS TxnGlobal

\* The flags <<strict, wait>> of __wt_txn_update_oldest: forced and waiting for the
\* lock, as checkpoints and eviction passes call it, and also neither, as updates do.
Forced == {<<TRUE, TRUE>>}
Modes == {<<TRUE, TRUE>>, <<FALSE, FALSE>>}

\* Everybody at snapshot isolation, or one session that reads uncommitted data
\* in its transactions beside one that does not.
Snapshot == [s \in Sessions |-> {"snapshot"}]
Mixed == [s \in Sessions |->
            IF s = 1 THEN {"read-uncommitted"} ELSE {"snapshot"}]
=============================================================================
