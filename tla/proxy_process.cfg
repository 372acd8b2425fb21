CONSTANTS
  r1 = r1
  r2 = r2
  r3 = r3
  u1 = u1
  Page = Page
  Boot = Boot
  None = None
  Restarts <- ThreeRestarts
  Scans <- OneScan
  MaxSaves = 1
  MaxScans = 2
SPECIFICATION Spec
SYMMETRY Symmetry
CONSTRAINT NotLost
INVARIANTS TypeOK ConfigSurvives QuietIsSound
CHECK_DEADLOCK FALSE
