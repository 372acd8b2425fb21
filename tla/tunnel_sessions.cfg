CONSTANTS
  c1 = c1
  c2 = c2
  s1 = s1
  s2 = s2
  None = None
  Clients <- TwoClients
  Sids <- TwoSids
  MaxAttempts = 1
  MaxStreams = 3
  MaxUploads = 1
SPECIFICATION ServerSpec
INVARIANTS TypeOK OneOwner TimersSound StreamAccounted AvailableNeedsSession
PROPERTIES SessionsMoveForward TableSpec OldStreamIsHarmless SilentSessionEnds
CHECK_DEADLOCK FALSE
