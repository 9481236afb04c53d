CONSTANTS
  Keys = {1, 2}
  NumWorkers = 2
  Shards = {s1, s2}
  RxCapacity = 1
  TxCapacity = 1
  MaxDatagrams = 2
  MaxAnswers = 3
SPECIFICATION UdpFairSpec
INVARIANTS  AnswerKept
PROPERTIES DatagramHandled AnswerFlushed
CHECK_DEADLOCK FALSE
