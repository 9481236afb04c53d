--------------------------- MODULE MCConnHandover ---------------------------
(* TLC instances of ConnHandover.                                          *)
EXTENDS ConnHandover
=============================================================================
