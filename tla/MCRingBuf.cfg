SPECIFICATION FairSpec
CONSTANTS
  Size = 2
  Byte <- MCByte
  Messages <- MCMessages
  ReadLens <- MCReadLens
  Writers = {w1, w2}
  Reader = reader
  None = None
INVARIANTS TypeOK NoLostWakeup SampledSizesHold
PROPERTIES ImplementsByteQueue WriteReturns ReadReturns
