CONSTANTS
  Byte = 5
  ReversePieces = 3
  ForwardPieces = 2
  MaxBytes = 4
  Others <- NoOthers
SPECIFICATION Spec
INVARIANTS InOrder
CHECK_DEADLOCK FALSE
