CONSTANTS
  p = p
  q = q
  Pds <- MCPds
  MaxThreads <- MCMaxThreads
  MinNo = 2
  TOTAL_KTCBS = 6
  UtcbFactor = 1
SPECIFICATION Spec
INVARIANTS TypeOK NumbersOnce TablesAgree HaltsExplained
CHECK_DEADLOCK FALSE
