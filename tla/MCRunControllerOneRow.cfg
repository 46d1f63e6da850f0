CONSTANTS
  ZoneCount = 2
  ZoneTravel = 2
  DiverterTravel = 2
  Requests <- TwoRequests
  MaxQueue = 1
  SettleDwell = 1
  WdWait = 2
  Second = 2
  MaxDwell = 9
  SwMaxDefault = 1
  SwMaxValues = {1, 2}
  RunlogDepth = 2
  MaxLag = 1
  RunCap = 9
SPECIFICATION Spec
INVARIANT
  OneRowPerRun
