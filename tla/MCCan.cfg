SPECIFICATION FairSpec
CONSTANTS
  Ids <- MCIds
  MAX_CHANNELS = 2
  QueueSize = 1
  RxDepth = 2
  TxDepth = 2
  Writers = {w1, w2}
  Bounds <- MCBounds
INVARIANTS TypeOK RxOrder RxBacklog TxOrder
PROPERTIES ReadThreadReturns WriteReturns
CHECK_DEADLOCK FALSE
