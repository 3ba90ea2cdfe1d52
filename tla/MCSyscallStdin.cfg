CONSTANTS
  t1 = t1
  g1 = g1
  a1 = a1
  a2 = a2
  Threads = {t1}
  NoThread = NoThread
  Fd = {0, 1}
  GpuVas = {g1}
  Cookies = {}
  Addrs = {a1, a2}
  NullPtr = NullPtr
  MapFailed = MapFailed
  MaxDevices = 1
  MaxEntries = 2
  MmapMayFail = FALSE
SPECIFICATION Spec
INVARIANT
  OnlyDeviceDecoded
