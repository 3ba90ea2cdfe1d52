CONSTANTS
  Nodes = {n1, n2, n3}
  n1 = n1
  n2 = n2
  n3 = n3
  GpuVas = {g1}
  g1 = g1
  Cookies = {c1}
  c1 = c1
  Addrs = {a1}
  a1 = a1
  NullPtr = NullPtr
  MapFailed = MapFailed
SPECIFICATION FairSpec
INVARIANTS
  WellLinked
  HeapOnLists
  CursorOnList
PROPERTIES
  TrackerSpec
  LoopsEnd
