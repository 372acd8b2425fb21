CONSTANTS
  s1 = s1
  s2 = s2
  None = None
  Sids <- TwoSids
  MaxReverseId = 3
  ForwardIds <- OneForwardId
  MaxReverse = 2
  MaxForward = 1
  MaxRequests = 3
SPECIFICATION Spec
SYMMETRY Symmetry
INVARIANTS TypeOK CountersAreExact EntriesAreServed
PROPERTIES SessionTakesItsRequests
CHECK_DEADLOCK FALSE
