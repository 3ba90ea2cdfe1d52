CONSTANTS
  NsPerSec = 3
  MaxTime = 8
SPECIFICATION Spec
INVARIANT
  OverheadHidden
