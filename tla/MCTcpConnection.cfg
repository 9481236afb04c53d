CONSTANTS
  HEADER_SIZE = 2
  MAX_BODY_LEN = 4
  RX_CAPACITY = 5
  TX_CAPACITY = 3
  BodyLens = {0, 3, 4}
  TxLens = {1, 2}
  MaxFrames = 3
  MaxTx = 2
SPECIFICATION ConnFairSpec
INVARIANTS RxStream TxStream InterestExact FullOnlyWhenTooLong
PROPERTIES FramesDelivered 
