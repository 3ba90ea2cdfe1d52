CONSTANTS
  Threads = {1, 2, 3}
  Functions <- SomeFunctions
  Absent = {"mmap64"}
  Linkers = {"works", "fails"}
SPECIFICATION FairPrologSpec
CHECK_DEADLOCK FALSE
INVARIANTS
  OwnFunction
PROPERTIES
  CallsServed
