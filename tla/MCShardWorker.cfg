CONSTANTS
  d1 = d1
  d2 = d2
  Caller = c1
  Others = {p1}
  Producers = {p1, c1}
  Events = {e1, d1, d2}
  Internal = {d1, d2}
  Dumps <- MCDumps
  TickInterval = 1
  MaxLag = 3
  WaitTime = 1
SPECIFICATION MarketFairSpec
INVARIANTS InShardOrder TimeoutExplained
PROPERTIES EventsAnswered TicksContinue StopEndsWorker SnapshotReturns
