CONSTANTS
  Browsers = {b1, b2}
  IoThreads = 1
  TTL = 1
  MaxTime = 2
  NoCookie = NoCookie
SPECIFICATION HttpFairSpec
 
PROPERTY RequestAnswered
CHECK_DEADLOCK FALSE
