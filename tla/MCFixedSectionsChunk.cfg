CONSTANTS
  FpageSizes <- ChunkSizes
  PerPool <- ChunkPerPool
  BtMax = 1
  HeapSize = 1
  Requests <- ChunkRequests
  MemInfos <- ChunkMaps
  FixedRequests <- ChunkFixed
  MaxSegments = 1
SPECIFICATION FixedSpec
INVARIANT ChunkRemoved
