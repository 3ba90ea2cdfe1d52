CONSTANTS
  t1 = t1
  t2 = t2
  t3 = t3
  a1 = a1
  Threads = {t1, t2, t3}
  NoThread = NoThread
  Fd = {1, 2}
  GpuVas = {}
  Cookies = {}
  Addrs = {a1}
  NullPtr = NullPtr
  MapFailed = MapFailed
  MaxDevices = 2
  MaxEntries = 1
  MmapMayFail = FALSE
SPECIFICATION FairSpec
INVARIANTS
  TypeOK
  MaliFdLive
  TracedIsDevice
  NoSelfDeadlock
  FdInv
PROPERTIES
  ForgetOnlyOwn
  OneDeviceTraced
  LockReleased
