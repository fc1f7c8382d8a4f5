CONSTANTS
  MinNo = 2
  MaxNo = 9
SPECIFICATION Spec
INVARIANTS Canonical
PROPERTIES ImplementsPool NeighbourKept
CHECK_DEADLOCK FALSE
