SPECIFICATION Spec
CONSTANTS
  pager = pager
  init = init
  null = null
  Threads = {pager, init}
  Sections <- MCSections
  Clists <- MCClists
  ListSection <- MCListSection
  Words <- MCWords
  MaxChanges = 2
  ExitMessage = {pager}
  InvalidRef <- MCInvalid
  NULL = null
INVARIANTS NoneForgotten ClientsServed GrantsKept
PROPERTIES EveryCallAnswered ExitCompletes
CHECK_DEADLOCK FALSE
