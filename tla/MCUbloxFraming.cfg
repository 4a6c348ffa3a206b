SPECIFICATION FairSpec
CONSTANTS
  Streams <- MCStreams
  UbxMax = 8
  RtcmMax = 8
  Chunks <- MCChunks
  MaxFaults = 1
INVARIANTS UbxFits ChunkIndependent
PROPERTIES AllTaken
CHECK_DEADLOCK FALSE
