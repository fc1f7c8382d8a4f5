CONSTANTS
  BT_ORDER = 3
  Top = 8
  Longest = 4
  Objects <- MCObjects
  JunkKeys <- MCJunkKeys
SPECIFICATION Spec
INVARIANTS WellFormed SearchNearest RefusesExactly
PROPERTY ImplementsSet
CHECK_DEADLOCK FALSE
