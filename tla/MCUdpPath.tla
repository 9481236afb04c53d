------------------------------ MODULE MCUdpPath ------------------------------
(* TLC instance of UdpPath: two workers with a peer each, and rings that   *)
(* one packet fills.                                                       *)
EXTENDS UdpPath
=============================================================================
