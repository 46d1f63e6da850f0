CONSTANTS
  ZoneCount = 2
  ZoneTravel = 2
  DiverterTravel = 1
  Requests <- TwoRequests
  MaxQueue = 2
  SettleDwell = 1
  WdWait = 2
  Second = 2
  MaxDwell = 9
  SwMaxDefault = 1
  SwMaxValues = {1, 2}
  RunlogDepth = 1
  MaxLag = 1
  RunCap = 9
SPECIFICATION Spec
INVARIANTS
  PumpBehindSettledValves
  RestIsDry
  NothingRunsDuringOta
  EveryRunIsLogged
  DwellMatchesPump
PROPERTIES
  ServesJobs
  WaterStops
  HeadIsServed
