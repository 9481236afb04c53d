-------------------------- MODULE MCTcpConnection --------------------------
(* TLC instances of TcpConnection.                                        *)
EXTENDS TcpConnection
=============================================================================
