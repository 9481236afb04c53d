CONSTANTS
  Producers = {p1, p2}
  Items = {i1, i2, i3}
  Null = Null
  Capacity = 2
  WordSize = 64
SPECIFICATION TxFairSpec
INVARIANTS ExclusiveSlot NoLostWakeup
PROPERTIES ImplementsFifo ClaimedIsDelivered
CHECK_DEADLOCK FALSE
