CONSTANTS
  PageUnits = 2
  HeapPages = 5
  Bases <- MCBases
  Units <- MCUnits
  Memory = 5
SPECIFICATION FairSpec
INVARIANTS Tiles Coalesced LockBalanced
PROPERTIES Returns
