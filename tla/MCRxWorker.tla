----------------------------- MODULE MCRxWorker -----------------------------
(* TLC instance of RxWorker: a ring of two slots and three packets.        *)
EXTENDS RxWorker, TLC
=============================================================================
