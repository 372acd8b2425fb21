CONSTANTS
  c1 = c1
  c2 = c2
  Conns <- TwoConns
  MaxTcpConnects = 1
SPECIFICATION Spec
INVARIANTS TypeOK SlotsAreExact
PROPERTIES EveryRequestSettles
CHECK_DEADLOCK FALSE
