---------------------------- MODULE MCIpcExchange ----------------------------
(* TLC instance of IpcExchange: two descriptors for three calls, so that   *)
(* descriptors are reused, and one death of mgmtd.                         *)
EXTENDS IpcExchange
=============================================================================
