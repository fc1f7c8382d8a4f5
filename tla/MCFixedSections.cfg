CONSTANTS
  FpageSizes <- MCSizes
  PerPool <- MCPerPool
  BtMax = 1
  HeapSize = 1
  Requests <- MCRequests
  MemInfos <- MCMaps
  FixedRequests <- MCFixed
  MaxSegments = 2
SPECIFICATION FixedSpec
INVARIANTS TmpFresh SegmentTaken SoundWhenClean
