CONSTANTS
  FpageSizes <- MCSizes
  PerPool <- MCPerPool
  BtMax = 1
  HeapSize = 1
  Requests <- MCRequests
  MemInfos <- MCTwoPages
SPECIFICATION Spec
INVARIANTS NoNilPage
