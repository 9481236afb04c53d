CONSTANTS
  Fds = {5, 6, 7}
  HandoverCap = 2
  MaxConns = 3
  MaxBatch = 3
SPECIFICATION HandoverFairSpec
INVARIANTS SingleOwner
PROPERTY HandoverServed
