SPECIFICATION MCSpec
CONSTANTS
  IAddr = {i, j}
  DAddr = {a, b}
  Value = {0, 1}
  L1Size = 1
  L2Size = 2
  ILatency = 1
  DLatency = 1
  L2Latency = 1
  MemLatency = 2
SYMMETRY Interchangeable
INVARIANTS MemoryTypeOK NoWaiterLost BacklogBounded FreshRead ReadAnswered
PROPERTY ImplementsPort
