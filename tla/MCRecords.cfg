CONSTANTS
  Depth = 2
  EmptyRow <- NoRow
  LogSize = 1
  QueueDepth = 2
  MaxRows = 3
  MaxEntries = 2
SPECIFICATION Spec
INVARIANTS
  RingsKeepNewest
  FlashIsCurrent
  LatchIsLogged
  FedInOrder
PROPERTIES
  ClearIsSafe
  NightlyKeepsRecords
