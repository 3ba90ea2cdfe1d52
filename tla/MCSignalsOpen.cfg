CONSTANTS
  t1 = t1
  t2 = t2
  h1 = h1
  a1 = a1
  Threads = {t1, t2, h1}
  NoThread = NoThread
  Fd = {1, 2}
  GpuVas = {}
  Cookies = {}
  Addrs = {a1}
  NullPtr = NullPtr
  MapFailed = MapFailed
  MaxDevices = 2
  MaxEntries = 1
  MmapMayFail = FALSE
  Host <- OneHandler
  Entries <- LockingCalls
SPECIFICATION SignalSpec
INVARIANTS
  HandlerNotStuck
