CONSTANTS
  NoUrl = NoUrl
  AnyDevice = "any"
  Always = 0
  Requests <- SomeRequests
  RuleSets <- SomeRuleSets
  Clock <- TimesOfWeek
  Small = 1
  Large = 2
  MaxPieces = 2
  MaxStale = 2
  MaxRelayed = 2
  HighWater = 2
SPECIFICATION ProxySpec
INVARIANTS TypeOK RelayedIsUnblocked EndedIsWhole UnsafeIsRepeatedForAReason
INVARIANTS ConnectTypeOK NoOrphan WayBackStays
PROPERTIES IsAnswered HalfCloseEnds
CHECK_DEADLOCK FALSE
