CONSTANTS
  PacketLen = 3
  Budget = 2
  MaxPackets = 6
SPECIFICATION TlsFairSpec
INVARIANTS TlsTxOrder
PROPERTIES QueuedIsSent InterestReleased
