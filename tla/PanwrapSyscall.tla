--------------------------- MODULE PanwrapSyscall ---------------------------
(***************************************************************************)
(* The libc functions panwrap overrides (panwrap/panwrap-syscall.c: open,  *)
(* close, ioctl, mmap, munmap), called by the threads of the traced        *)
(* program.  All state is shared by the threads: the mutex l, the          *)
(* descriptor mali_fd of the device being traced, and the two lists of the *)
(* memory tracker.  open, close, ioctl and mmap first decide WITHOUT the   *)
(* mutex whether the call is about the device, so the model has one step   *)
(* per unlocked read of mali_fd, per acquisition of l, per kernel call     *)
(* and per locked section between them.                                    *)
(*                                                                         *)
(* The traced program is a correct user of the kernel: it names only       *)
(* descriptors, allocations and mappings it has been given, and does not   *)
(* close, free or unmap one that another of its threads is using.          *)
(*                                                                         *)
(* Log output is left out (module PanwrapTime has the timestamps).         *)
(***************************************************************************)
EXTENDS PanwrapMmap, FiniteSets

CONSTANTS
  Threads, NoThread,
  Fd,            \* descriptors of the process; 0 is the standard input
  MaxDevices,    \* bound: devices open at the same time
  MaxEntries,    \* bound: entries of each list of the tracker
  MmapMayFail    \* whether the kernel may refuse to map GPU memory

NoFd == -1   \* what open() returns when it fails, the fd of anonymous maps

ASSUME ThreadAssumption == NoThread \notin Threads
ASSUME FdAssumption == Fd \subseteq Nat
ASSUME MmapAssumption == MmapMayFail \in BOOLEAN

VARIABLES
  l,            \* who holds the mutex, NoThread when it is free
  mali_fd,      \* descriptor of the traced device, 0 when there is none
  files, kalloc, gmaps, omaps,   \* the kernel
  pc,           \* where each thread is, "app" outside panwrap
  fd, op, va, addr               \* arguments and locals of each thread's call

Ker == INSTANCE MaliKernel

shared == <<l, mali_fd>>
kernel == <<files, kalloc, gmaps, omaps>>
locals == <<fd, op, va, addr>>
vars == <<shared, tracker, kernel, pc, locals>>

-----------------------------------------------------------------------------
(* Where a thread can be.                                                  *)

AtLock == {"open_lock", "close_lock", "ioctl_lock", "mmap_lock",
           "munmap_lock"}

\* Steps made while holding the mutex.
InLock == {"open_body", "close_body", "ioctl_sys", "ioctl_post",
           "mmap_sys", "mmap_track", "munmap_sys", "munmap_untrack"}

Unlocked == {"app", "close_check", "close_sys", "ioctl_pass",
             "mmap_check", "mmap_pass"}

\* The section of ioctl() and mmap() that decodes and tracks a device call.
Traced == {"ioctl_sys", "ioctl_post", "mmap_sys", "mmap_track"}

Ops == {"none", "mali", "other", "alloc", "free", "close", "mmap", "munmap"}

TypeOK ==
  /\ l \in Threads \cup {NoThread}
  /\ mali_fd \in Fd \cup {0}
  /\ TrackerTypeOK
  /\ Ker!KTypeOK
  /\ pc \in [Threads -> AtLock \cup InLock \cup Unlocked]
  /\ fd \in [Threads -> Fd \cup {NoFd}]
  /\ op \in [Threads -> Ops]
  /\ va \in [Threads -> Handles]
  /\ addr \in [Threads -> Addrs \cup {NullPtr, MapFailed}]

Init ==
  /\ l = NoThread /\ mali_fd = 0
  /\ TrackerInit
  /\ Ker!KInit
  /\ pc = [t \in Threads |-> "app"]
  /\ fd = [t \in Threads |-> NoFd]
  /\ op = [t \in Threads |-> "none"]
  /\ va = [t \in Threads |-> NullPtr]
  /\ addr = [t \in Threads |-> NullPtr]

Goto(t, label) == pc' = [pc EXCEPT ![t] = label]

\* The wrapper returns: its locals are gone.
Return(t) ==
  /\ Goto(t, "app")
  /\ fd' = [fd EXCEPT ![t] = NoFd]
  /\ op' = [op EXCEPT ![t] = "none"]
  /\ va' = [va EXCEPT ![t] = NullPtr]
  /\ addr' = [addr EXCEPT ![t] = NullPtr]

\* LOCK() of each wrapper, and where the wrapper goes on.
Lock(t) ==
  /\ pc[t] \in AtLock
  /\ l = NoThread
  /\ l' = t
  /\ Goto(t, CASE pc[t] = "open_lock" -> "open_body"
               [] pc[t] = "close_lock" -> "close_body"
               [] pc[t] = "ioctl_lock" -> "ioctl_sys"
               [] pc[t] = "mmap_lock" -> "mmap_sys"
               [] pc[t] = "munmap_lock" -> "munmap_sys")
  /\ UNCHANGED <<mali_fd, tracker, kernel, locals>>

Unlock == l' = NoThread

-----------------------------------------------------------------------------
(* What the other threads are using.                                       *)

InCall(t, f) == pc[t] # "app" /\ fd[t] = f

Closing(f) == \E t \in Threads : InCall(t, f) /\ op[t] = "close"

\* The program owns f: an open() has returned it, and nobody is closing it.
Usable(f) ==
  /\ files[f] \in {"mali", "other"}
  /\ ~Closing(f)
  /\ \A t \in Threads : ~(InCall(t, f) /\ pc[t] \in {"open_lock", "open_body"})

Held(f, v) == \E t \in Threads : InCall(t, f) /\ va[t] = v

HeldAddr(a) == \E t \in Threads : addr[t] = a

-----------------------------------------------------------------------------
(* open() and open64(): the kernel opens the file, then the descriptor is  *)
(* recorded under the mutex when the path is that of the device.           *)

OpenSys(t, path) ==
  /\ pc[t] = "app"
  /\ path = "mali" => Cardinality(Ker!Devices) < MaxDevices
  /\ \E f \in Fd \cup {NoFd} :
       /\ \/ f \in Fd /\ Ker!KOpen(f, path)
          \/ f = NoFd /\ UNCHANGED kernel
       /\ fd' = [fd EXCEPT ![t] = f]
  /\ op' = [op EXCEPT ![t] = path]
  /\ Goto(t, "open_lock")
  /\ UNCHANGED <<shared, tracker, va, addr>>

\* A mutant: the result of the kernel's open() is not looked at.
IsNewDeviceUnchecked(t) == op[t] = "mali"

\* The tests of panwrap_open_wrap() that lead to mali_fd = ret.
IsNewDevice(t) == fd[t] # NoFd /\ op[t] = "mali"

OpenRecord(t) ==
  /\ pc[t] = "open_body"
  /\ mali_fd' = IF IsNewDevice(t) THEN fd[t] ELSE mali_fd
  /\ Unlock
  /\ Return(t)
  /\ UNCHANGED <<tracker, kernel>>

-----------------------------------------------------------------------------
(* close(): "Intentionally racy: prevents us from trying to hold the       *)
(* global mutex in calls from system libraries".  mali_fd is read twice    *)
(* without the mutex and once more with it.                                *)

Close(t, f) ==
  /\ pc[t] = "app"
  /\ Usable(f) /\ \A u \in Threads : ~InCall(u, f)
  /\ fd' = [fd EXCEPT ![t] = f]
  /\ op' = [op EXCEPT ![t] = "close"]
  /\ Goto(t, IF f <= 0 \/ mali_fd = 0 THEN "close_sys" ELSE "close_check")
  /\ UNCHANGED <<shared, tracker, kernel, va, addr>>

\* A mutant: the kernel closes the device before panwrap forgets it.
CloseCheckEager(t) ==
  /\ pc[t] = "close_check"
  /\ \/ fd[t] # mali_fd /\ Goto(t, "close_sys") /\ UNCHANGED kernel
     \/ fd[t] = mali_fd /\ Goto(t, "close_lock") /\ Ker!KClose(fd[t])
  /\ UNCHANGED <<shared, tracker, locals>>

CloseCheck(t) ==
  /\ pc[t] = "close_check"
  /\ Goto(t, IF fd[t] # mali_fd THEN "close_sys" ELSE "close_lock")
  /\ UNCHANGED <<shared, tracker, kernel, locals>>

\* Mutants: the device is not forgotten; any device is forgotten.
ForgetNothing(t) == mali_fd
ForgetAnything(t) == 0

Forget(t) == IF mali_fd # 0 /\ fd[t] = mali_fd THEN 0 ELSE mali_fd

CloseForget(t) ==
  /\ pc[t] = "close_body"
  /\ mali_fd' = Forget(t)
  /\ Unlock
  /\ Goto(t, "close_sys")
  /\ UNCHANGED <<tracker, kernel, locals>>

CloseSys(t) ==
  /\ pc[t] = "close_sys"
  /\ Ker!KClose(fd[t])
  /\ Return(t)
  /\ UNCHANGED <<shared, tracker>>

-----------------------------------------------------------------------------
(* ioctl().  The requests told apart are MEM_ALLOC ("alloc"), MEM_FREE     *)
(* ("free") and the rest ("other"), which leave the state alone.           *)

\* The program allocates on a device, or frees an allocation it may free: a
\* mapped SAME_VA allocation is freed by unmapping it.
Request(t, f, request, v) ==
  \/ request = "other" /\ v = NullPtr
  \/ /\ request = "alloc" /\ v = NullPtr
     /\ files[f] = "mali"
     /\ Len(allocations)
          + Cardinality({u \in Threads : op[u] = "alloc"}) < MaxEntries
  \/ /\ request = "free" /\ v \in GpuVas \cup Cookies
     /\ \E k \in kalloc : k.fd = f /\ k.va = v
     /\ ~Held(f, v)

\* A mutant: any call is traced once some device is open.
GoesToKernelNoDevice(f) == mali_fd = 0

\* "if (fd && fd != mali_fd)": the call is not for us.
GoesToKernel(f) == f # 0 /\ f # mali_fd

Ioctl(t, f, request, v) ==
  /\ pc[t] = "app"
  /\ Usable(f) /\ Request(t, f, request, v)
  /\ fd' = [fd EXCEPT ![t] = f]
  /\ op' = [op EXCEPT ![t] = request]
  /\ va' = [va EXCEPT ![t] = v]
  /\ Goto(t, IF GoesToKernel(f) THEN "ioctl_pass" ELSE "ioctl_lock")
  /\ UNCHANGED <<shared, tracker, kernel, addr>>

\* What the kernel does, and the gpu_va the caller's struct holds afterwards:
\* a failed MEM_ALLOC leaves the null one the program put there.
IoctlKernel(t, gpu_va) ==
  \/ /\ op[t] = "alloc"
     /\ \/ gpu_va \in GpuVas \cup Cookies /\ Ker!KAlloc(fd[t], gpu_va)
        \/ gpu_va = NullPtr /\ UNCHANGED kernel
  \/ op[t] = "free" /\ gpu_va = va[t] /\ Ker!KFree(fd[t], gpu_va)
  \/ op[t] = "other" /\ gpu_va = NullPtr /\ UNCHANGED kernel

IoctlPass(t) ==
  /\ pc[t] = "ioctl_pass"
  /\ \E gpu_va \in Handles : IoctlKernel(t, gpu_va)
  /\ Return(t)
  /\ UNCHANGED <<shared, tracker>>

\* The kernel call between ioctl_decode_pre() and ioctl_decode_post(); the
\* mutex stays held.
IoctlSys(t) ==
  /\ pc[t] = "ioctl_sys"
  /\ \E gpu_va \in Handles :
       IoctlKernel(t, gpu_va) /\ va' = [va EXCEPT ![t] = gpu_va]
  /\ Goto(t, "ioctl_post")
  /\ UNCHANGED <<shared, tracker, fd, op, addr>>

\* A mutant: a post handler that knows MEM_FREE instead of MEM_ALLOC.
DecodePostFree(t) ==
  IF op[t] = "free" THEN TrackAllocation(va[t], FALSE)
  ELSE UNCHANGED tracker

\* ioctl_decode_post(): only MEM_ALLOC has a handler that changes state.  It
\* does not look at the result of the call.
DecodePost(t) ==
  \/ op[t] = "alloc" /\ TrackAllocation(va[t], va[t] \in Cookies)
  \/ op[t] # "alloc" /\ UNCHANGED tracker

IoctlPost(t) ==
  /\ pc[t] = "ioctl_post"
  /\ DecodePost(t)
  /\ Unlock
  /\ Return(t)
  /\ UNCHANGED <<mali_fd, kernel>>

-----------------------------------------------------------------------------
(* mmap() and mmap64(): two unlocked reads of mali_fd, then the kernel     *)
(* call and panwrap_track_mmap() under the mutex.                          *)

\* The program maps an allocation of the device f, or something else (v is
\* the null handle), anonymous memory (NoFd) or another file.
Mmap(t, f, v) ==
  /\ pc[t] = "app"
  /\ IF v = NullPtr
     THEN f = NoFd \/ (f # NoFd /\ Usable(f) /\ files[f] = "other")
     ELSE /\ f # NoFd /\ Usable(f) /\ ~Held(f, v)
          /\ \E k \in kalloc : k.fd = f /\ k.va = v
          /\ Len(mmaps) < MaxEntries
  /\ MmapMayFail \/ Cardinality(Ker!FreeAddrs)
                      > Cardinality({u \in Threads : op[u] = "mmap"})
  /\ fd' = [fd EXCEPT ![t] = f]
  /\ op' = [op EXCEPT ![t] = "mmap"]
  /\ va' = [va EXCEPT ![t] = v]
  /\ Goto(t, IF mali_fd = 0 THEN "mmap_pass" ELSE "mmap_check")
  /\ UNCHANGED <<shared, tracker, kernel, addr>>

MmapCheck(t) ==
  /\ pc[t] = "mmap_check"
  /\ Goto(t, IF fd[t] # mali_fd THEN "mmap_pass" ELSE "mmap_lock")
  /\ UNCHANGED <<shared, tracker, kernel, locals>>

MmapKernel(t, a) ==
  \/ /\ a \in Ker!FreeAddrs
     /\ \/ va[t] # NullPtr /\ Ker!KMmapGpu(fd[t], va[t], a)
        \/ va[t] = NullPtr /\ Ker!KMmapOther(a)
  \/ /\ a = MapFailed /\ UNCHANGED kernel
     /\ MmapMayFail \/ va[t] = NullPtr

MmapPass(t) ==
  /\ pc[t] = "mmap_pass"
  /\ \E a \in Addrs \cup {MapFailed} : MmapKernel(t, a)
  /\ Return(t)
  /\ UNCHANGED <<shared, tracker>>

MmapSys(t) ==
  /\ pc[t] = "mmap_sys"
  /\ \E a \in Addrs \cup {MapFailed} :
       MmapKernel(t, a) /\ addr' = [addr EXCEPT ![t] = a]
  /\ Goto(t, "mmap_track")
  /\ UNCHANGED <<shared, tracker, fd, op, va>>

MmapTrack(t) ==
  /\ pc[t] = "mmap_track"
  /\ TrackMmap(va[t], addr[t])
  /\ Unlock
  /\ Return(t)
  /\ UNCHANGED <<mali_fd, kernel>>

-----------------------------------------------------------------------------
(* munmap(): always under the mutex, whatever the mapping is.              *)

Munmap(t, a) ==
  /\ pc[t] = "app"
  /\ a \notin Ker!FreeAddrs /\ ~HeldAddr(a)
  /\ addr' = [addr EXCEPT ![t] = a]
  /\ op' = [op EXCEPT ![t] = "munmap"]
  /\ Goto(t, "munmap_lock")
  /\ UNCHANGED <<shared, tracker, kernel, fd, va>>

MunmapSys(t) ==
  /\ pc[t] = "munmap_sys"
  /\ Ker!KMunmap(addr[t])
  /\ Goto(t, "munmap_untrack")
  /\ UNCHANGED <<shared, tracker, locals>>

\* A mutant: the early exit for an address nobody tracks forgets the mutex.
UnlockIfFound(a) ==
  l' = IF MappedIndex(a) = 0 THEN l ELSE NoThread

\* "goto out" also leads to UNLOCK().
UnlockAtOut(a) == Unlock

MunmapUntrack(t) ==
  /\ pc[t] = "munmap_untrack"
  /\ TrackMunmap(addr[t])
  /\ UnlockAtOut(addr[t])
  /\ Return(t)
  /\ UNCHANGED <<mali_fd, kernel>>

-----------------------------------------------------------------------------
(* System libraries: while a thread is inside panwrap and holds the mutex, *)
(* a library it calls may open a file without going through open(), and    *)
(* may close one through close().                                          *)

LibOpen(t, f) ==
  /\ l = t /\ pc[t] \in InLock
  /\ \A g \in Fd : files[g] # "lib"
  /\ Ker!KOpen(f, "lib")
  /\ UNCHANGED <<shared, tracker, pc, locals>>

\* close() called by the holder of the mutex: mali_fd cannot change between
\* its two reads.  When the test fails the thread goes for the mutex again.
LibClose(t, f) ==
  /\ l = t /\ pc[t] \in InLock
  /\ files[f] = "lib"
  /\ IF f <= 0 \/ mali_fd = 0 \/ f # mali_fd
     THEN Ker!KClose(f) /\ UNCHANGED <<pc, locals>>
     ELSE /\ Goto(t, "close_lock")
          /\ fd' = [fd EXCEPT ![t] = f]
          /\ UNCHANGED <<kernel, op, va, addr>>
  /\ UNCHANGED <<shared, tracker>>

-----------------------------------------------------------------------------

LockedStep(t) ==
  \/ OpenRecord(t) \/ CloseForget(t)
  \/ IoctlSys(t) \/ IoctlPost(t)
  \/ MmapSys(t) \/ MmapTrack(t)
  \/ MunmapSys(t) \/ MunmapUntrack(t)

Call(t) ==
  \/ \E path \in {"mali", "other"} : OpenSys(t, path)
  \/ \E f \in Fd : Close(t, f)
  \/ \E f \in Fd, request \in {"alloc", "free", "other"}, v \in Handles :
       Ioctl(t, f, request, v)
  \/ \E f \in Fd \cup {NoFd}, v \in Handles : Mmap(t, f, v)
  \/ \E a \in Addrs : Munmap(t, a)

UnlockedStep(t) ==
  \/ CloseCheck(t) \/ CloseSys(t) \/ IoctlPass(t) \/ MmapCheck(t) \/ MmapPass(t)

Library(t) == \E f \in Fd : LibOpen(t, f) \/ LibClose(t, f)

ThreadNext(t) ==
  Call(t) \/ UnlockedStep(t) \/ Lock(t) \/ LockedStep(t) \/ Library(t)

Next == \E t \in Threads : ThreadNext(t)

Spec == Init /\ [][Next]_vars

\* A thread inside a wrapper's locked section keeps being scheduled and the
\* kernel call it makes returns.  Nothing is assumed about waiting threads:
\* a pthread mutex does not promise its waiters a turn.
Fairness == \A t \in Threads : WF_vars(LockedStep(t))

FairSpec == Spec /\ Fairness

-----------------------------------------------------------------------------
(* Properties of the descriptor and the mutex.                             *)

(***************************************************************************)
(* mali_fd never outlives the device: the kernel gives a closed descriptor *)
(* to the next open(), and panwrap would take that file for the device.    *)
(***************************************************************************)
MaliFdLive == mali_fd # 0 => files[mali_fd] = "mali"

(***************************************************************************)
(* What ioctl() decodes and mmap() tracks is a call on an open device, on  *)
(* the basis of a check made before the mutex was taken.  (Calls on        *)
(* descriptor 0 are the subject of OnlyDeviceDecoded.)                     *)
(***************************************************************************)
TracedIsDevice ==
  \A t \in Threads :
    pc[t] \in Traced /\ fd[t] # 0 => files[fd[t]] = "mali"

(***************************************************************************)
(* A thread that waits for the mutex does not hold it: a close() made by a *)
(* system library inside panwrap never comes back for the mutex.           *)
(***************************************************************************)
NoSelfDeadlock == \A t \in Threads : pc[t] \in AtLock => l # t

(***************************************************************************)
(* The traced device is forgotten only by the close() of that descriptor   *)
(* and replaced only by the open() of another device, although close()     *)
(* decides before it has the mutex.                                        *)
(***************************************************************************)
OwnerStep ==
  mali_fd # 0 /\ mali_fd' # mali_fd =>
    \E t \in Threads :
      \/ pc[t] = "close_body" /\ fd[t] = mali_fd /\ mali_fd' = 0
      \/ pc[t] = "open_body" /\ op[t] = "mali" /\ mali_fd' = fd[t]

\* OwnerStep at every step.
ForgetOnlyOwn == [][OwnerStep]_vars

\* A device the program can use is the traced one.
DeviceTraced ==
  \A f \in Fd : f # 0 /\ files[f] = "mali" /\ Usable(f) => mali_fd = f

(***************************************************************************)
(* A program that has at most one device open at a time has it traced,     *)
(* always: no interleaving of open() and close(), and no reuse of a        *)
(* descriptor, makes panwrap miss it.                                      *)
(***************************************************************************)
OneDeviceTraced ==
  [](Cardinality(Ker!Devices) <= 1) => []DeviceTraced

(***************************************************************************)
(* Every ioctl() that is decoded is one on a mali device.                  *)
(***************************************************************************)
OnlyDeviceDecoded ==
  \A t \in Threads :
    pc[t] \in {"ioctl_sys", "ioctl_post"} => files[fd[t]] = "mali"

(***************************************************************************)
(* Whoever takes the mutex gives it back, on every path.                   *)
(***************************************************************************)
LockReleased == \A t \in Threads : l = t ~> l # t

-----------------------------------------------------------------------------
(* Properties of the memory tracker, about the states in which nobody is   *)
(* between a kernel call and its record: those are the ones lookups are    *)
(* made in, since both happen under the mutex.                             *)

Quiet ==
  \A t \in Threads : pc[t] \notin {"ioctl_post", "mmap_track", "munmap_untrack"}

(***************************************************************************)
(* An allocation the driver made and nobody has mapped is on the list of   *)
(* pending allocations, with its kind.                                     *)
(***************************************************************************)
PendingTracked ==
  Quiet => \A k \in kalloc :
             ~k.mapped =>
               LET i == PendingIndex(k.va)
               IN i # 0 /\ allocations[i].same_va = (k.va \in Cookies)

(***************************************************************************)
(* An entry of the list of pending allocations is an allocation nobody has *)
(* mapped.                                                                 *)
(***************************************************************************)
EntriesPending ==
  Quiet => \A i \in DOMAIN allocations :
             \E k \in kalloc :
               ~k.mapped /\ k.va = allocations[i].gpu_va

(***************************************************************************)
(* The first mapping of every allocation is found under its CPU address,   *)
(* with its GPU address, until it is unmapped: whatever was freed, closed, *)
(* reused or mapped again meanwhile.                                       *)
(***************************************************************************)
NoLostMapping ==
  Quiet => \A m \in gmaps :
             m.first => LET i == MappedIndex(m.addr)
                        IN i # 0 /\ mmaps[i].gpu_va = m.va

(***************************************************************************)
(* A tracked mapping is a mapping the process has: the decoder, which      *)
(* reads memory through these entries, never follows one into memory that  *)
(* was unmapped, or mapped again for something else.                       *)
(***************************************************************************)
NoStaleMapping ==
  Quiet => \A i \in DOMAIN mmaps :
             \E m \in gmaps :
               m.addr = mmaps[i].addr /\ m.va = mmaps[i].gpu_va

(***************************************************************************)
(* Looking a GPU address up gives CPU memory of the allocation that has    *)
(* that address now, even when entries of freed allocations that had the   *)
(* same address are still in the list.                                     *)
(***************************************************************************)
LookupCurrent ==
  Quiet => \A m \in gmaps :
             m.live /\ m.first =>
               LET i == GpuMappedIndex(m.va)
               IN /\ i # 0
                  /\ \E n \in gmaps :
                       /\ n.live /\ n.fd = m.fd /\ n.va = m.va
                       /\ n.addr = mmaps[i].addr

-----------------------------------------------------------------------------
(* The inductive invariant behind the properties of the descriptor.        *)

OpenPcs == {"open_lock", "open_body"}
ClosePcs == {"close_check", "close_lock", "close_body", "close_sys"}

\* The arguments of a call in progress.
ArgInv ==
  \A t \in Threads :
    /\ pc[t] \in {"ioctl_lock", "ioctl_pass", "ioctl_sys"} => fd[t] \in Fd
    /\ pc[t] = "mmap_track" => addr[t] \in Addrs \cup {MapFailed}

\* The mutex is held exactly inside the locked sections.
LockInv == \A t \in Threads : pc[t] \in InLock <=> l = t

\* The descriptor of a call in progress is open; a new one is what was asked.
CallInv ==
  \A t \in Threads :
    /\ pc[t] = "app" => fd[t] = NoFd
    /\ pc[t] # "app" /\ fd[t] # NoFd => files[fd[t]] \in {"mali", "other"}
    /\ pc[t] \in OpenPcs /\ fd[t] # NoFd => files[fd[t]] = op[t]
    /\ pc[t] \in ClosePcs => op[t] = "close" /\ fd[t] \in Fd

\* Nobody else uses a descriptor that is being closed.
CloserAlone ==
  \A t, u \in Threads :
    t # u /\ pc[t] \in ClosePcs /\ pc[u] # "app" => fd[t] # fd[u]

\* What the kernel is about to close has been forgotten.
ForgottenFirst ==
  \A t \in Threads :
    pc[t] = "close_sys" /\ fd[t] # 0 => mali_fd # fd[t]

\* The decision made without the mutex is still right when it is held.
ChosenIsDevice ==
  \A t \in Threads :
    pc[t] \in {"ioctl_lock", "mmap_lock"} \cup Traced /\ fd[t] # 0
      => fd[t] \in Fd /\ files[fd[t]] = "mali"

(***************************************************************************)
(* At every step of every call: who holds the mutex, which descriptors are *)
(* open and for whom, and that the traced device is none that the kernel   *)
(* may close next.                                                         *)
(***************************************************************************)
FdInv ==
  /\ ArgInv /\ LockInv /\ CallInv /\ CloserAlone
  /\ MaliFdLive /\ ForgottenFirst /\ ChosenIsDevice

=============================================================================
