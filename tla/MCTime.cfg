CONSTANTS
  NsPerSec = 3
  MaxTime = 8
SPECIFICATION Spec
INVARIANTS
  TypeOK
  OverheadRemoved
PROPERTY
  WatchSpec
