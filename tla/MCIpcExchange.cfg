CONSTANTS
  Fds = {5, 6}
  NumWorkers = 2
  Callers = 2
  HEADER_SIZE = 1
  MAX_LEN = 3
  TX_SIZE = 3
  Bodies = {1, 4}
  MaxCalls = 3
  MaxCrashes = 1
SPECIFICATION IpcFairSpec
INVARIANTS CallsExact
 
CHECK_DEADLOCK FALSE
