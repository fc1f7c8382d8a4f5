CONSTANTS
  PageUnits = 2
  HeapPages = 5
  Bases <- MCBases
  Units <- MCUnits
  Memory = 5
SPECIFICATION Spec
INVARIANTS BackedFirst
