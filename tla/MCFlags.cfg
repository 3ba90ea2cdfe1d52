CONSTANTS
  Bits <- WordBits
  Tables <- AllTables
  Words <- MCWords
SPECIFICATION ReqSpec
CHECK_DEADLOCK FALSE
INVARIANTS
  BitsOnce
  Complete
