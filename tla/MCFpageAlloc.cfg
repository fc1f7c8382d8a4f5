CONSTANTS
  FpageSizes <- MCSizes
  PerPool <- MCPerPool
  BtMax = 1
  HeapSize = 1
  Requests <- MCRequests
  MemInfos <- MCMaps
SPECIFICATION FairSpec
INVARIANTS TypeOK Exclusive NothingLost NeverNull Aligned Backed NoOrphan SlabsBalance
PROPERTIES Returns
