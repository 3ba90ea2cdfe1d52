CONSTANTS
  Threads = {t1, t2}
  t1 = t1
  t2 = t2
  NoThread = NoThread
  Fd = {1}
  GpuVas = {g1}
  g1 = g1
  Cookies = {c1}
  c1 = c1
  Addrs = {a1, a2}
  a1 = a1
  a2 = a2
  NullPtr = NullPtr
  MapFailed = MapFailed
  MaxDevices = 1
  MaxEntries = 3
  MmapMayFail = FALSE
SYMMETRY Symmetry
SPECIFICATION Spec
INVARIANTS
  PendingTracked
  NoLostMapping
  NoStaleMapping
  LookupCurrent
