CONSTANTS
  DayMinutes = 4
  MinuteSec = 2
  RunFloor = 1
  MaxRuns = 2
  RunOverhead = 0
  MaxPerZone = 4
  ZoneCount = 2
  Schedules <- SomeSchedules
  Configs <- SomeConfigs
  MaxEntries = 4
  ResyncInterval = 2
  Steps <- SomeSteps
  MaxRoom = 2
  LastMinute = 5
SPECIFICATION Spec
INVARIANTS
  EntryFiresOncePerMinute
