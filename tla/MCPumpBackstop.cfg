CONSTANTS
  ZoneCount = 1
  ZoneTravel = 2
  DiverterTravel = 1
  Requests <- AsLongAsAllowed
  MaxQueue = 1
  SettleDwell = 0
  WdWait = 0
  Second = 1
  MaxDwell = 0
  SwMaxDefault = 3
  SwMaxValues = {3}
  RunlogDepth = 1
  MaxLag = 1
  RunCap = 3
  HeartbeatPeriod = 1
  TripConfirm = 2
  HbTimeout = 2
  HardMax = 3
  Raised = {"NoFlow"}
SPECIFICATION BackstopSpec
INVARIANTS
  EachRunGetsItsCeiling
  StalledLoopLosesPump
  ConfirmedTripIsLockout
PROPERTIES
  LockoutReleases
