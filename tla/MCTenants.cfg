SPECIFICATION Spec
CONSTANTS
  Wrap = 3
  MaxQueue = 1
  r1 = r1
  r2 = r2
  Nobody = Nobody
  Uploads <- TwoUploads
INVARIANTS
  TallyIsItsOwn
  InhibitIsExact
PROPERTIES
  CalibrationSparesOthers
  RestartsFindNothing
