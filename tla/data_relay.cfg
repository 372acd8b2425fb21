CONSTANTS
  Byte = 5
  ReversePieces = 3
  ForwardPieces = 2
  MaxBytes = 3
  Others <- AllTypes
SPECIFICATION FairSpec
INVARIANTS StreamDecodes WholeAndInOrder
PROPERTIES NothingIsLeft
CHECK_DEADLOCK FALSE
