---------------------------- MODULE MCTxHandoff ----------------------------
(* TLC instance of TxHandoff: two shard workers and a ring of two slots.   *)
(* Traffic is finite, so the reactor ends up waiting for ever.             *)
EXTENDS TxHandoff, TLC
=============================================================================
