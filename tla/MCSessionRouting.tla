-------------------------- MODULE MCSessionRouting --------------------------
(* TLC instances of SessionRouting.  Ids 2 and 4 with SidLow = 2 select    *)
(* different shards.  TLS descriptors are interchangeable.                 *)
EXTENDS SessionRouting, TLC

TlsSymmetry == Permutations(TlsFds)
=============================================================================
