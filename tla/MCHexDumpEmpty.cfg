CONSTANTS
  Byte = {0, 1}
  MaxSize = 7
  RowLen = 3
  SizeMod = 256
SPECIFICATION Spec
CHECK_DEADLOCK FALSE
INVARIANTS
  EmptyTrimmed
