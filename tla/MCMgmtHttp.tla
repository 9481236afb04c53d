----------------------------- MODULE MCMgmtHttp -----------------------------
(* TLC instance of MgmtHttp: more browsers than threads.                   *)
EXTENDS MgmtHttp
=============================================================================
