CONSTANTS
  Threads = {1, 2}
  Functions <- SomeFunctions
  Absent = {"mmap64"}
  Linkers = {"flaky"}
SPECIFICATION FairPrologSpec
CHECK_DEADLOCK FALSE
INVARIANTS
  OwnFunction
