--------------------------- MODULE MCShardWorker ---------------------------
(* TLC instance of ShardWorker with MarketSnapshot: a protocol worker with *)
(* one event, an IPC worker with two calls, and a lag long enough for the  *)
(* tick to be resynchronised.                                              *)
EXTENDS MarketSnapshot, TLC

CONSTANTS d1, d2

MCDumps == <<d1, d2>>
=============================================================================
