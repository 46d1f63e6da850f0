CONSTANTS
  QuietTime = 2
  QuietPulses = 1
  DrainCap = 4
  Zones = {z1, z2}
  NoZone = none
  Surge = 2
  Grace = 2
  RateSamples = 3
  MinRunning = 0
  IdleWindow = 2
  IdleFaultPulses = 2
  RestWindow = 2
  MaxRestPulses = 1
SYMMETRY Symmetry
SPECIFICATION Spec
INVARIANTS
  DryRunIsCaught
  FloodIsCaught
  LeakIsFlagged
PROPERTIES
  NoFlowIsEarned
  TailIsSpared
  FlagIsTheZonesOwn
  HealIsEarned
