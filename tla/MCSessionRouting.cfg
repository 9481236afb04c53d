CONSTANTS
  TlsFds = {f1, f2}
  TcpFds = {t1}
  UdpPeers = {u1}
  Sids = {2, 4}
  SidLow = 2
  WorkerCount = 2
  MaxPackets = 3
  MaxConns = 2
SPECIFICATION RoutingSpec
INVARIANTS  AnswerMatchesState 
PROPERTY ImplementsSessionLife
CHECK_DEADLOCK FALSE
SYMMETRY TlsSymmetry
