CONSTANTS
  DayMinutes = 5
  MinuteSec = 1
  RunFloor = 1
  MaxRuns = 2
  RunOverhead = 0
  MaxPerZone = 4
  FireOrder <- TwoZones
  Config <- TwoCycles
  MaxQueue = 2
  RunlogDepth = 5
  Manual = {0}
  ManualRows = 1
  LastMinute = 5
SPECIFICATION Spec
PROPERTIES
  LatchedMissesAreReported
