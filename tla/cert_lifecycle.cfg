CONSTANTS
  k1 = k1
  k2 = k2
  k3 = k3
  Callers <- ThreeCallers
  NoCert = NoCert
  MaxGens = 3
  MaxRestarts = 2
SPECIFICATION Spec
INVARIANTS TypeOK ServedIsCurrent
PROPERTIES EveryCallerAnswered
CHECK_DEADLOCK FALSE
