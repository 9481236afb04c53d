-------------------------- MODULE MCTlsConnection --------------------------
(* TLC instance of TlsConnection.                                         *)
EXTENDS TlsConnection
=============================================================================
