SPECIFICATION Spec
CONSTANTS
  GraceMs = 2
  RetryIntervalMs = 3
  STA_TIMEOUT_MS = 2
  Wrap = 8
  MaxLag = 1
  DayLen = 3
  WindowLen = 1
  MinUptime = 2
  Posts <- AnyPost
PROPERTIES
  RetriesKeepPace
  AnnounceMatchesOutage
  OncePerNight
  NeverStranded
