SPECIFICATION Spec
CONSTANTS
  Streams <- LongStreams
  UbxMax = 8
  RtcmMax = 8
  Chunks <- MCChunks
  MaxFaults = 0
INVARIANTS RtcmFits
CHECK_DEADLOCK FALSE
