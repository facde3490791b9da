SPECIFICATION FrontSpec
CONSTANTS
  BlockSize = 4
  Blocks = 3
  IAddr <- BlockAddrs
  Patterns <- AllPatterns
  Codes <- PatternCodes
  Targets = {1, 4, 6, 7, 8, 11}
  DAddr = {a}
  Value = {0}
  L1Size = 1
  L2Size = 2
  ILatency = 1
  DLatency = 1
  L2Latency = 1
  MemLatency = 1
INVARIANT StackReady
PROPERTIES InOrder KeepsDelivering
