CONSTANTS
  TlsFds = {f1}
  TcpFds = {t1}
  UdpPeers = {u1}
  Sids = {2, 4}
  SidLow = 2
  WorkerCount = 2
  MaxPackets = 2
  MaxConns = 2
SPECIFICATION RoutingSpec
INVARIANT DuplicateIsDuplicate
CHECK_DEADLOCK FALSE
