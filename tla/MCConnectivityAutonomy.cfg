SPECIFICATION Spec
CONSTANTS
  GraceMs = 1
  RetryIntervalMs = 2
  STA_TIMEOUT_MS = 2
  Wrap = 6
  MaxLag = 1
  DayLen = 3
  WindowLen = 1
  MinUptime = 2
  Posts <- NoPosts
PROPERTIES
  LocalAutonomy
