SPECIFICATION Spec
CONSTANTS
  null = null
  NULL = null
  Page = 8
  Top = 64
  Granule <- MCGranule
  MemEnd <- MCMemEnd
  Objects <- MCObjects
  MaxRegions = 4
  MaxDescs <- MCMaxDescs
  MaxObjs = 2
INVARIANTS TypeOK Sound ExactUnlessOverlap ObjectsButLastByte FirstChunk
CHECK_DEADLOCK FALSE
