------------------------ MODULE PanwrapSyscallProofs ------------------------
(***************************************************************************)
(* What holds of the overridden libc functions for any number of threads,  *)
(* signal handlers, descriptors, allocations and mappings.  In order: the  *)
(* lists of the memory tracker, which the calls change; type correctness;  *)
(* the descriptors and the unlocked reads of mali_fd, however many devices *)
(* are open; handlers and the mutex; the traced device and its memory.     *)
(***************************************************************************)
EXTENDS PanwrapSignals, ListLemmas, FiniteSetTheorems, TLAPS

-----------------------------------------------------------------------------
(* What the memory tracker's functions do to its two lists, for lists of   *)
(* any length and any sets of addresses.                                   *)

(***************************************************************************)
(* The entry a lookup by CPU address returns (panwrap_find_mapped_mem) has *)
(* that address, and no newer entry has it.                                *)
(***************************************************************************)
LEMMA MappedIndexFirst ==
  ASSUME TrackerTypeOK, NEW a
  PROVE  /\ MappedIndex(a) \in 0..Len(mmaps)
         /\ MappedIndex(a) # 0 =>
              /\ mmaps[MappedIndex(a)].addr = a
              /\ \A j \in 1..Len(mmaps) :
                   mmaps[j].addr = a => MappedIndex(a) <= j
         /\ MappedIndex(a) = 0 => \A j \in 1..Len(mmaps) : mmaps[j].addr # a
<1> DEFINE I == {j \in 1..Len(mmaps) : mmaps[j].addr = a}
<1>1. Len(mmaps) \in Nat /\ I \in SUBSET (1..Len(mmaps))
  BY LenProperties DEF TrackerTypeOK
<1>2. MappedIndex(a) = IF I # {} THEN Min(I) ELSE 0
  BY DEF MappedIndex, SelectInSeq
<1> QED
  BY <1>1, <1>2, FirstPosition

(***************************************************************************)
(* So has the one a lookup by GPU address returns                          *)
(* (panwrap_find_mapped_gpu_mem).                                          *)
(***************************************************************************)
LEMMA GpuMappedIndexFirst ==
  ASSUME TrackerTypeOK, NEW gpu_va
  PROVE  /\ GpuMappedIndex(gpu_va) \in 0..Len(mmaps)
         /\ GpuMappedIndex(gpu_va) # 0 =>
              /\ mmaps[GpuMappedIndex(gpu_va)].gpu_va = gpu_va
              /\ \A j \in 1..Len(mmaps) :
                   mmaps[j].gpu_va = gpu_va => GpuMappedIndex(gpu_va) <= j
         /\ GpuMappedIndex(gpu_va) = 0 =>
              \A j \in 1..Len(mmaps) : mmaps[j].gpu_va # gpu_va
<1> DEFINE I == {j \in 1..Len(mmaps) : mmaps[j].gpu_va = gpu_va}
<1>1. Len(mmaps) \in Nat /\ I \in SUBSET (1..Len(mmaps))
  BY LenProperties DEF TrackerTypeOK
<1>2. GpuMappedIndex(gpu_va) = IF I # {} THEN Min(I) ELSE 0
  BY DEF GpuMappedIndex, SelectInSeq
<1> QED
  BY <1>1, <1>2, FirstPosition

(***************************************************************************)
(* The search for the pending allocation of a new mapping is of the kind.  *)
(***************************************************************************)
LEMMA PendingIndexFirst ==
  ASSUME TrackerTypeOK, NEW gpu_va
  PROVE  /\ PendingIndex(gpu_va) \in 0..Len(allocations)
         /\ PendingIndex(gpu_va) # 0 =>
              /\ allocations[PendingIndex(gpu_va)].gpu_va = gpu_va
              /\ \A j \in 1..Len(allocations) :
                   allocations[j].gpu_va = gpu_va => PendingIndex(gpu_va) <= j
         /\ PendingIndex(gpu_va) = 0 =>
              \A j \in 1..Len(allocations) : allocations[j].gpu_va # gpu_va
<1> DEFINE I == {j \in 1..Len(allocations) : allocations[j].gpu_va = gpu_va}
<1>1. Len(allocations) \in Nat /\ I \in SUBSET (1..Len(allocations))
  BY LenProperties DEF TrackerTypeOK
<1>2. PendingIndex(gpu_va) = IF I # {} THEN Min(I) ELSE 0
  BY DEF PendingIndex, SelectInSeq
<1> QED
  BY <1>1, <1>2, FirstPosition

-----------------------------------------------------------------------------
(***************************************************************************)
(* panwrap_track_allocation() keeps both lists lists of their structs.     *)
(***************************************************************************)
LEMMA TrackAllocationType ==
  ASSUME TrackerTypeOK, NEW gpu_va \in Handles, NEW same_va \in BOOLEAN,
         TrackAllocation(gpu_va, same_va)
  PROVE  TrackerTypeOK'
<1>1. [gpu_va |-> gpu_va, same_va |-> same_va] \in Allocation
  BY DEF Allocation
<1> QED
  BY <1>1, ConsType DEF TrackerTypeOK, TrackAllocation, AddEntry

(***************************************************************************)
(* panwrap_track_mmap() does, whether or not it finds the allocation.      *)
(***************************************************************************)
LEMMA TrackMmapType ==
  ASSUME TrackerTypeOK, NEW gpu_va \in Handles, NEW a \in Addrs \cup {MapFailed},
         TrackMmap(gpu_va, a)
  PROVE  TrackerTypeOK'
<1> DEFINE i == PendingIndex(gpu_va)
           m == [gpu_va |-> IF allocations[i].same_va THEN a ELSE gpu_va,
                 addr |-> a]
<1>1. CASE i = 0
  BY <1>1 DEF TrackerTypeOK, TrackMmap, tracker
<1>2. CASE i # 0
  <2>1. i \in 1..Len(allocations)
    BY <1>2, PendingIndexFirst, LenProperties DEF TrackerTypeOK
  <2>2. m \in Mapping
    BY DEF Mapping
  <2>3. mmaps' = Cons(m, mmaps) /\ allocations' = RemoveAt(allocations, i)
    BY <1>2 DEF TrackMmap, AddEntry
  <2>4. mmaps' \in Seq(Mapping)
    BY <2>2, <2>3, ConsType DEF TrackerTypeOK
  <2>5. allocations' \in Seq(Allocation)
    BY <2>1, <2>3, RemoveAtProperties DEF TrackerTypeOK
  <2> QED
    BY <2>4, <2>5 DEF TrackerTypeOK
<1> QED
  BY <1>1, <1>2

(***************************************************************************)
(* The bookkeeping of munmap() does, whether or not it finds the mapping.  *)
(***************************************************************************)
LEMMA TrackMunmapType ==
  ASSUME TrackerTypeOK, NEW a, TrackMunmap(a)
  PROVE  TrackerTypeOK'
<1> DEFINE i == MappedIndex(a)
<1>1. CASE i = 0
  BY <1>1 DEF TrackerTypeOK, TrackMunmap
<1>2. CASE i # 0
  <2>1. i \in 1..Len(mmaps)
    BY <1>2, MappedIndexFirst, LenProperties DEF TrackerTypeOK
  <2>2. mmaps' = RemoveAt(mmaps, i) /\ allocations' = allocations
    BY <1>2 DEF TrackMunmap
  <2> QED
    BY <2>1, <2>2, RemoveAtProperties DEF TrackerTypeOK
<1> QED
  BY <1>1, <1>2

(***************************************************************************)
(* Type correctness of the tracker on its own.                             *)
(***************************************************************************)
THEOREM TrackerTyping == TrackerSpec => []TrackerTypeOK
<1>1. TrackerInit => TrackerTypeOK
  BY DEF TrackerInit, TrackerTypeOK
<1>2. TrackerTypeOK /\ [TrackerNext]_tracker => TrackerTypeOK'
  <2> SUFFICES ASSUME TrackerTypeOK, [TrackerNext]_tracker PROVE TrackerTypeOK'
    OBVIOUS
  <2>1. CASE UNCHANGED tracker
    BY <2>1 DEF tracker, TrackerTypeOK
  <2>2. ASSUME NEW gpu_va \in Handles, NEW same_va \in BOOLEAN,
               TrackAllocation(gpu_va, same_va)
        PROVE  TrackerTypeOK'
    BY <2>2, TrackAllocationType
  <2>3. ASSUME NEW gpu_va \in Handles, NEW a \in Addrs \cup {MapFailed},
               TrackMmap(gpu_va, a)
        PROVE  TrackerTypeOK'
    BY <2>3, TrackMmapType
  <2>4. ASSUME NEW a \in Addrs, TrackMunmap(a)
        PROVE  TrackerTypeOK'
    BY <2>4, TrackMunmapType
  <2> QED
    BY <2>1, <2>2, <2>3, <2>4 DEF TrackerNext
<1> QED
  BY <1>1, <1>2, PTL DEF TrackerSpec

USE ThreadAssumption, FdAssumption

-----------------------------------------------------------------------------
(* The kernel's operations keep its state well formed.                     *)

\* close() by the kernel.
LEMMA KCloseType ==
  ASSUME Ker!KTypeOK, NEW f, Ker!KClose(f)
  PROVE  Ker!KTypeOK'
<1>1. files' \in [Fd -> Ker!FileKinds]
  BY DEF Ker!KTypeOK, Ker!KClose, Ker!FileKinds
<1>2. kalloc' \subseteq Ker!GpuAlloc /\ omaps' \subseteq Addrs
  BY DEF Ker!KTypeOK, Ker!KClose
<1>3. ASSUME NEW m \in gmaps PROVE [m EXCEPT !.live = FALSE] \in Ker!GpuMap
  BY DEF Ker!KTypeOK, Ker!GpuMap
<1>4. gmaps' \subseteq Ker!GpuMap
  BY <1>3 DEF Ker!KTypeOK, Ker!KClose
<1> QED
  BY <1>1, <1>2, <1>4 DEF Ker!KTypeOK

\* open() by the kernel.
LEMMA KOpenType ==
  ASSUME Ker!KTypeOK, NEW f, NEW kind \in Ker!FileKinds, Ker!KOpen(f, kind)
  PROVE  Ker!KTypeOK'
BY DEF Ker!KTypeOK, Ker!KOpen, Ker!FileKinds

\* MEM_ALLOC.
LEMMA KAllocType ==
  ASSUME Ker!KTypeOK, NEW f \in Fd, NEW v \in GpuVas \cup Cookies,
         Ker!KAlloc(f, v)
  PROVE  Ker!KTypeOK'
<1>1. [fd |-> f, va |-> v, mapped |-> FALSE] \in Ker!GpuAlloc
  BY DEF Ker!GpuAlloc
<1> QED
  BY <1>1 DEF Ker!KTypeOK, Ker!KAlloc

\* MEM_FREE.
LEMMA KFreeType ==
  ASSUME Ker!KTypeOK, NEW f, NEW v, Ker!KFree(f, v)
  PROVE  Ker!KTypeOK'
<1>1. ASSUME NEW m \in gmaps PROVE [m EXCEPT !.live = FALSE] \in Ker!GpuMap
  BY DEF Ker!KTypeOK, Ker!GpuMap
<1>2. gmaps' \subseteq Ker!GpuMap
  BY <1>1 DEF Ker!KTypeOK, Ker!KFree
<1> QED
  BY <1>2 DEF Ker!KTypeOK, Ker!KFree

\* mmap() of GPU memory.
LEMMA KMmapGpuType ==
  ASSUME Ker!KTypeOK, NEW f, NEW v \in GpuVas \cup Cookies, NEW a \in Addrs,
         Ker!KMmapGpu(f, v, a)
  PROVE  Ker!KTypeOK'
<1> DEFINE v2 == IF v \in Cookies THEN a ELSE v
<1>1. v2 \in GpuVas \cup Addrs
  OBVIOUS
<1> HIDE DEF v2
<1>2. PICK k \in kalloc :
        /\ k.fd = f
        /\ kalloc' = (kalloc \ {k})
                       \cup {[fd |-> f, va |-> v2, mapped |-> TRUE]}
        /\ gmaps' = gmaps \cup {[fd |-> f, va |-> v2, addr |-> a,
                                 first |-> ~k.mapped, live |-> TRUE]}
        /\ UNCHANGED <<files, omaps>>
  BY DEF Ker!KMmapGpu, v2
<1>3. f \in Fd
  BY <1>2 DEF Ker!KTypeOK, Ker!GpuAlloc
<1>4. [fd |-> f, va |-> v2, mapped |-> TRUE] \in Ker!GpuAlloc
  BY <1>1, <1>3 DEF Ker!GpuAlloc
<1>5. (~k.mapped) \in BOOLEAN
  OBVIOUS
<1>6. [fd |-> f, va |-> v2, addr |-> a, first |-> ~k.mapped, live |-> TRUE]
        \in Ker!GpuMap
  BY <1>1, <1>3, <1>5 DEF Ker!GpuMap
<1> QED
  BY <1>2, <1>4, <1>6 DEF Ker!KTypeOK

\* mmap() of anything else.
LEMMA KMmapOtherType ==
  ASSUME Ker!KTypeOK, NEW a \in Addrs, Ker!KMmapOther(a)
  PROVE  Ker!KTypeOK'
BY DEF Ker!KTypeOK, Ker!KMmapOther

\* munmap().
LEMMA KMunmapType ==
  ASSUME Ker!KTypeOK, NEW a, Ker!KMunmap(a)
  PROVE  Ker!KTypeOK'
BY DEF Ker!KTypeOK, Ker!KMunmap

\* No kernel call.
LEMMA KUnchangedType ==
  ASSUME Ker!KTypeOK, UNCHANGED kernel
  PROVE  Ker!KTypeOK'
BY DEF Ker!KTypeOK, kernel

-----------------------------------------------------------------------------
(* Type correctness.                                                       *)

Typed == TypeOK /\ ArgInv

LocalsOK ==
  /\ pc \in [Threads -> AtLock \cup InLock \cup Unlocked]
  /\ fd \in [Threads -> Fd \cup {NoFd}]
  /\ op \in [Threads -> Ops]
  /\ va \in [Threads -> Handles]
  /\ addr \in [Threads -> Addrs \cup {NullPtr, MapFailed}]

\* The type invariant, part by part.
LEMMA TypedParts ==
  TypeOK <=> /\ l \in Threads \cup {NoThread}
             /\ mali_fd \in Fd \cup {0}
             /\ TrackerTypeOK
             /\ Ker!KTypeOK
             /\ LocalsOK
BY DEF TypeOK, LocalsOK

\* Leaving a wrapper resets its locals to values of their types.
LEMMA ReturnType ==
  ASSUME LocalsOK, NEW t \in Threads, Return(t)
  PROVE  LocalsOK'
BY DEF LocalsOK, Return, Goto, Handles, Ops, Unlocked

\* It leaves the arguments of the other calls alone.
LEMMA ReturnArgs ==
  ASSUME LocalsOK, ArgInv, NEW t \in Threads, Return(t)
  PROVE  ArgInv'
BY DEF LocalsOK, ArgInv, Return, Goto

(***************************************************************************)
(* What the kernel does for an ioctl() leaves it well formed and the       *)
(* handle it returns is one.                                               *)
(***************************************************************************)
LEMMA IoctlKernelType ==
  ASSUME Typed, NEW t \in Threads, fd[t] \in Fd,
         NEW v \in Handles, IoctlKernel(t, v)
  PROVE  Ker!KTypeOK'
<1>0. Ker!KTypeOK
  BY DEF Typed, TypeOK
<1>1. CASE v \in GpuVas \cup Cookies /\ Ker!KAlloc(fd[t], v)
  BY <1>0, <1>1, KAllocType
<1>2. CASE UNCHANGED kernel
  BY <1>0, <1>2, KUnchangedType
<1>3. CASE Ker!KFree(fd[t], v)
  BY <1>0, <1>3, KFreeType
<1> QED
  BY <1>1, <1>2, <1>3 DEF IoctlKernel

\* What the kernel does for a mmap() leaves it well formed.
LEMMA MmapKernelType ==
  ASSUME Typed, NEW t \in Threads, NEW a \in Addrs \cup {MapFailed},
         MmapKernel(t, a)
  PROVE  Ker!KTypeOK'
<1>0. Ker!KTypeOK /\ va[t] \in Handles
  BY DEF Typed, TypeOK
<1>1. CASE a \in Ker!FreeAddrs /\ va[t] # NullPtr /\ Ker!KMmapGpu(fd[t], va[t], a)
  BY <1>0, <1>1, KMmapGpuType DEF Handles, Ker!FreeAddrs
<1>2. CASE a \in Ker!FreeAddrs /\ Ker!KMmapOther(a)
  BY <1>0, <1>2, KMmapOtherType DEF Ker!FreeAddrs
<1>3. CASE UNCHANGED kernel
  BY <1>0, <1>3, KUnchangedType
<1> QED
  BY <1>1, <1>2, <1>3 DEF MmapKernel
-----------------------------------------------------------------------------
(* One lemma per group of actions: each keeps the types.                   *)

\* open() and open64().
LEMMA OpenTyped ==
  ASSUME Typed, NEW t \in Threads,
         \/ \E path \in {"mali", "other"} : OpenSys(t, path)
         \/ OpenRecord(t)
  PROVE  Typed'
<1> USE DEF Typed
<1>1. ASSUME NEW path \in {"mali", "other"}, OpenSys(t, path)
      PROVE  Typed'
  <2>1. Ker!KTypeOK'
    BY <1>1, KOpenType, KUnchangedType DEF OpenSys, TypeOK, Ker!FileKinds
  <2>2. LocalsOK'
    BY <1>1 DEF OpenSys, Goto, TypeOK, LocalsOK, AtLock, Ops
  <2>3. ArgInv'
    BY <1>1 DEF OpenSys, Goto, TypeOK, ArgInv
  <2>4. UNCHANGED <<l, mali_fd>> /\ TrackerTypeOK'
    BY <1>1 DEF OpenSys, shared, tracker, TypeOK, TrackerTypeOK
  <2> QED
    BY <2>1, <2>2, <2>3, <2>4, TypedParts DEF TypeOK, LocalsOK
<1>2. CASE OpenRecord(t)
  <2>1. LocalsOK' /\ ArgInv'
    BY <1>2, ReturnType, ReturnArgs, TypedParts DEF OpenRecord
  <2>2. Ker!KTypeOK'
    BY <1>2, KUnchangedType, TypedParts DEF OpenRecord
  <2>3. TrackerTypeOK' /\ l' = NoThread
    BY <1>2, TypedParts DEF OpenRecord, tracker, TrackerTypeOK, Unlock
  <2>4. mali_fd' \in Fd \cup {0}
    BY <1>2, TypedParts DEF OpenRecord, IsNewDevice, LocalsOK
  <2> QED
    BY <2>1, <2>2, <2>3, <2>4 DEF TypeOK, LocalsOK
<1> QED
  BY <1>1, <1>2

\* close().
LEMMA CloseTyped ==
  ASSUME Typed, NEW t \in Threads,
         \/ \E f \in Fd : Close(t, f)
         \/ CloseCheck(t) \/ CloseForget(t) \/ CloseSys(t)
  PROVE  Typed'
<1> USE DEF Typed
<1>1. ASSUME NEW f \in Fd, Close(t, f)
      PROVE  Typed'
  <2>1. LocalsOK' /\ ArgInv'
    BY <1>1, TypedParts DEF Close, Goto, LocalsOK, ArgInv, AtLock, Unlocked, Ops
  <2>2. UNCHANGED <<l, mali_fd>> /\ TrackerTypeOK' /\ Ker!KTypeOK'
    BY <1>1, TypedParts, KUnchangedType
    DEF Close, shared, tracker, TrackerTypeOK
  <2> QED
    BY <2>1, <2>2 DEF TypeOK, LocalsOK
<1>2. CASE CloseCheck(t)
  <2>1. LocalsOK' /\ ArgInv'
    BY <1>2, TypedParts DEF CloseCheck, Goto, LocalsOK, locals, ArgInv, AtLock, Unlocked
  <2>2. UNCHANGED <<l, mali_fd>> /\ TrackerTypeOK' /\ Ker!KTypeOK'
    BY <1>2, TypedParts, KUnchangedType
    DEF CloseCheck, shared, tracker, TrackerTypeOK
  <2> QED
    BY <2>1, <2>2 DEF TypeOK, LocalsOK
<1>3. CASE CloseForget(t)
  <2>1. LocalsOK' /\ ArgInv'
    BY <1>3, TypedParts DEF CloseForget, Goto, LocalsOK, locals, ArgInv, AtLock, Unlocked
  <2>2. TrackerTypeOK' /\ Ker!KTypeOK'
    BY <1>3, TypedParts, KUnchangedType DEF CloseForget, tracker, TrackerTypeOK
  <2>3. l' = NoThread /\ mali_fd' \in Fd \cup {0}
    BY <1>3 DEF CloseForget, Unlock, Forget, TypeOK
  <2> QED
    BY <2>1, <2>2, <2>3 DEF TypeOK, LocalsOK
<1>4. CASE CloseSys(t)
  <2>1. LocalsOK' /\ ArgInv'
    BY <1>4, ReturnType, ReturnArgs, TypedParts DEF CloseSys
  <2>2. UNCHANGED <<l, mali_fd>> /\ TrackerTypeOK' /\ Ker!KTypeOK'
    BY <1>4, TypedParts, KCloseType
    DEF CloseSys, shared, tracker, TrackerTypeOK
  <2> QED
    BY <2>1, <2>2 DEF TypeOK, LocalsOK
<1> QED
  BY <1>1, <1>2, <1>3, <1>4

\* ioctl().
LEMMA IoctlTyped ==
  ASSUME Typed, NEW t \in Threads,
         \/ \E f \in Fd, request \in {"alloc", "free", "other"}, v \in Handles :
              Ioctl(t, f, request, v)
         \/ IoctlPass(t) \/ IoctlSys(t) \/ IoctlPost(t)
  PROVE  Typed'
<1> USE DEF Typed
<1>1. ASSUME NEW f \in Fd, NEW request \in {"alloc", "free", "other"},
             NEW v \in Handles, Ioctl(t, f, request, v)
      PROVE  Typed'
  <2>1. LocalsOK' /\ ArgInv'
    BY <1>1, TypedParts DEF Ioctl, Goto, LocalsOK, ArgInv, AtLock, Unlocked, Ops
  <2>2. UNCHANGED <<l, mali_fd>> /\ TrackerTypeOK' /\ Ker!KTypeOK'
    BY <1>1, TypedParts, KUnchangedType
    DEF Ioctl, shared, tracker, TrackerTypeOK
  <2> QED
    BY <2>1, <2>2 DEF TypeOK, LocalsOK
<1>2. CASE IoctlPass(t)
  <2>1. LocalsOK' /\ ArgInv'
    BY <1>2, ReturnType, ReturnArgs, TypedParts DEF IoctlPass
  <2>2. Ker!KTypeOK'
    BY <1>2, IoctlKernelType DEF IoctlPass, ArgInv
  <2>3. UNCHANGED <<l, mali_fd>> /\ TrackerTypeOK'
    BY <1>2, TypedParts DEF IoctlPass, shared, tracker, TrackerTypeOK
  <2> QED
    BY <2>1, <2>2, <2>3 DEF TypeOK, LocalsOK
<1>3. CASE IoctlSys(t)
  <2>1. PICK v \in Handles :
          IoctlKernel(t, v) /\ va' = [va EXCEPT ![t] = v]
    BY <1>3 DEF IoctlSys
  <2>2. Ker!KTypeOK'
    BY <1>3, <2>1, IoctlKernelType DEF IoctlSys, ArgInv
  <2>3. LocalsOK' /\ ArgInv'
    BY <1>3, <2>1, TypedParts DEF IoctlSys, Goto, LocalsOK, ArgInv, InLock
  <2>4. UNCHANGED <<l, mali_fd>> /\ TrackerTypeOK'
    BY <1>3, TypedParts DEF IoctlSys, shared, tracker, TrackerTypeOK
  <2> QED
    BY <2>2, <2>3, <2>4 DEF TypeOK, LocalsOK
<1>4. CASE IoctlPost(t)
  <2>1. LocalsOK' /\ ArgInv'
    BY <1>4, ReturnType, ReturnArgs, TypedParts DEF IoctlPost
  <2>2. Ker!KTypeOK' /\ l' = NoThread /\ mali_fd' = mali_fd
    BY <1>4, KUnchangedType, TypedParts DEF IoctlPost, Unlock
  <2>3. va[t] \in Handles /\ (va[t] \in Cookies) \in BOOLEAN
    BY DEF TypeOK
  <2>4. TrackerTypeOK'
    <3>1. CASE TrackAllocation(va[t], va[t] \in Cookies)
      BY <2>3, <3>1, TrackAllocationType, TypedParts
    <3>2. CASE UNCHANGED tracker
      BY <3>2, TypedParts DEF tracker, TrackerTypeOK
    <3> QED
      BY <1>4, <3>1, <3>2 DEF IoctlPost, DecodePost
  <2> QED
    BY <2>1, <2>2, <2>4 DEF TypeOK, LocalsOK
<1> QED
  BY <1>1, <1>2, <1>3, <1>4
\* mmap() and mmap64().
LEMMA MmapTyped ==
  ASSUME Typed, NEW t \in Threads,
         \/ \E f \in Fd \cup {NoFd}, v \in Handles : Mmap(t, f, v)
         \/ MmapCheck(t) \/ MmapPass(t) \/ MmapSys(t) \/ MmapTrack(t)
  PROVE  Typed'
<1> USE DEF Typed
<1>1. ASSUME NEW f \in Fd \cup {NoFd}, NEW v \in Handles, Mmap(t, f, v)
      PROVE  Typed'
  <2>1. LocalsOK' /\ ArgInv'
    BY <1>1, TypedParts DEF Mmap, Goto, LocalsOK, ArgInv, AtLock, Unlocked, Ops
  <2>2. UNCHANGED <<l, mali_fd>> /\ TrackerTypeOK' /\ Ker!KTypeOK'
    BY <1>1, TypedParts, KUnchangedType
    DEF Mmap, shared, tracker, TrackerTypeOK
  <2> QED
    BY <2>1, <2>2 DEF TypeOK, LocalsOK
<1>2. CASE MmapCheck(t)
  <2>1. LocalsOK' /\ ArgInv'
    BY <1>2, TypedParts DEF MmapCheck, Goto, LocalsOK, locals, ArgInv, AtLock, Unlocked
  <2>2. UNCHANGED <<l, mali_fd>> /\ TrackerTypeOK' /\ Ker!KTypeOK'
    BY <1>2, TypedParts, KUnchangedType
    DEF MmapCheck, shared, tracker, TrackerTypeOK
  <2> QED
    BY <2>1, <2>2 DEF TypeOK, LocalsOK
<1>3. CASE MmapPass(t)
  <2>1. LocalsOK' /\ ArgInv'
    BY <1>3, ReturnType, ReturnArgs, TypedParts DEF MmapPass
  <2>2. Ker!KTypeOK'
    BY <1>3, MmapKernelType DEF MmapPass
  <2>3. UNCHANGED <<l, mali_fd>> /\ TrackerTypeOK'
    BY <1>3, TypedParts DEF MmapPass, shared, tracker, TrackerTypeOK
  <2> QED
    BY <2>1, <2>2, <2>3 DEF TypeOK, LocalsOK
<1>4. CASE MmapSys(t)
  <2>1. PICK a \in Addrs \cup {MapFailed} :
          MmapKernel(t, a) /\ addr' = [addr EXCEPT ![t] = a]
    BY <1>4 DEF MmapSys
  <2>2. Ker!KTypeOK'
    BY <2>1, MmapKernelType
  <2>3. LocalsOK' /\ ArgInv'
    BY <1>4, <2>1, TypedParts DEF MmapSys, Goto, LocalsOK, ArgInv, InLock
  <2>4. UNCHANGED <<l, mali_fd>> /\ TrackerTypeOK'
    BY <1>4, TypedParts DEF MmapSys, shared, tracker, TrackerTypeOK
  <2> QED
    BY <2>2, <2>3, <2>4 DEF TypeOK, LocalsOK
<1>5. CASE MmapTrack(t)
  <2>1. LocalsOK' /\ ArgInv'
    BY <1>5, ReturnType, ReturnArgs, TypedParts DEF MmapTrack
  <2>2. Ker!KTypeOK' /\ l' = NoThread /\ mali_fd' = mali_fd
    BY <1>5, KUnchangedType, TypedParts DEF MmapTrack, Unlock
  <2>3. va[t] \in Handles /\ addr[t] \in Addrs \cup {MapFailed}
    BY <1>5 DEF TypeOK, ArgInv, MmapTrack
  <2>4. TrackerTypeOK'
    BY <1>5, <2>3, TrackMmapType, TypedParts DEF MmapTrack
  <2> QED
    BY <2>1, <2>2, <2>4 DEF TypeOK, LocalsOK
<1> QED
  BY <1>1, <1>2, <1>3, <1>4, <1>5

\* munmap().
LEMMA MunmapTyped ==
  ASSUME Typed, NEW t \in Threads,
         \/ \E a \in Addrs : Munmap(t, a)
         \/ MunmapSys(t) \/ MunmapUntrack(t)
  PROVE  Typed'
<1> USE DEF Typed
<1>1. ASSUME NEW a \in Addrs, Munmap(t, a)
      PROVE  Typed'
  <2>1. LocalsOK' /\ ArgInv'
    BY <1>1, TypedParts DEF Munmap, Goto, LocalsOK, ArgInv, AtLock, Ops
  <2>2. UNCHANGED <<l, mali_fd>> /\ TrackerTypeOK' /\ Ker!KTypeOK'
    BY <1>1, TypedParts, KUnchangedType
    DEF Munmap, shared, tracker, TrackerTypeOK
  <2> QED
    BY <2>1, <2>2 DEF TypeOK, LocalsOK
<1>2. CASE MunmapSys(t)
  <2>1. LocalsOK' /\ ArgInv'
    BY <1>2, TypedParts DEF MunmapSys, Goto, LocalsOK, locals, ArgInv, InLock
  <2>2. UNCHANGED <<l, mali_fd>> /\ TrackerTypeOK' /\ Ker!KTypeOK'
    BY <1>2, TypedParts, KMunmapType
    DEF MunmapSys, shared, tracker, TrackerTypeOK
  <2> QED
    BY <2>1, <2>2 DEF TypeOK, LocalsOK
<1>3. CASE MunmapUntrack(t)
  <2>1. LocalsOK' /\ ArgInv'
    BY <1>3, ReturnType, ReturnArgs, TypedParts DEF MunmapUntrack
  <2>2. Ker!KTypeOK' /\ l' = NoThread /\ mali_fd' = mali_fd
    BY <1>3, KUnchangedType, TypedParts DEF MunmapUntrack, UnlockAtOut, Unlock
  <2>3. TrackerTypeOK'
    BY <1>3, TrackMunmapType, TypedParts DEF MunmapUntrack
  <2> QED
    BY <2>1, <2>2, <2>3 DEF TypeOK, LocalsOK
<1> QED
  BY <1>1, <1>2, <1>3

\* pthread_mutex_lock().
LEMMA LockTyped ==
  ASSUME Typed, NEW t \in Threads, Lock(t)
  PROVE  Typed'
<1> USE DEF Typed
<1>1. LocalsOK' /\ ArgInv'
  BY TypedParts DEF Lock, Goto, LocalsOK, locals, ArgInv, AtLock, InLock
<1>2. l' = t /\ mali_fd' = mali_fd /\ TrackerTypeOK' /\ Ker!KTypeOK'
  BY TypedParts, KUnchangedType DEF Lock, tracker, TrackerTypeOK
<1> QED
  BY <1>1, <1>2 DEF TypeOK, LocalsOK

\* System libraries.
LEMMA LibraryTyped ==
  ASSUME Typed, NEW t \in Threads, Library(t)
  PROVE  Typed'
<1> USE DEF Typed
<1>1. PICK f \in Fd : LibOpen(t, f) \/ LibClose(t, f)
  BY DEF Library
<1>2. LocalsOK' /\ ArgInv'
  BY <1>1, TypedParts
  DEF LibOpen, LibClose, Goto, LocalsOK, locals, ArgInv, AtLock
<1>3. UNCHANGED <<l, mali_fd>> /\ TrackerTypeOK'
  BY <1>1, TypedParts DEF LibOpen, LibClose, shared, tracker, TrackerTypeOK
<1>4. Ker!KTypeOK'
  BY <1>1, TypedParts, KOpenType, KCloseType, KUnchangedType
  DEF LibOpen, LibClose, Ker!FileKinds
<1> QED
  BY <1>2, <1>3, <1>4 DEF TypeOK, LocalsOK

\* Every step keeps the types.
LEMMA TypedStep == Typed /\ [Next]_vars => Typed'
<1> SUFFICES ASSUME Typed, [Next]_vars PROVE Typed'
  OBVIOUS
<1>1. CASE UNCHANGED vars
  <2>1. LocalsOK' /\ ArgInv'
    BY <1>1, TypedParts DEF vars, locals, LocalsOK, ArgInv, Typed
  <2>2. UNCHANGED <<l, mali_fd>> /\ TrackerTypeOK' /\ Ker!KTypeOK'
    BY <1>1, TypedParts, KUnchangedType
    DEF vars, shared, tracker, kernel, TrackerTypeOK, Typed
  <2> QED
    BY <2>1, <2>2 DEF Typed, TypeOK, LocalsOK
<1>2. ASSUME NEW t \in Threads, ThreadNext(t)
      PROVE  Typed'
  <2>1. CASE Call(t)
    BY <2>1, OpenTyped, CloseTyped, IoctlTyped, MmapTyped, MunmapTyped DEF Call
  <2>2. CASE UnlockedStep(t)
    BY <2>2, CloseTyped, IoctlTyped, MmapTyped DEF UnlockedStep
  <2>3. CASE LockedStep(t)
    BY <2>3, OpenTyped, CloseTyped, IoctlTyped, MmapTyped, MunmapTyped
    DEF LockedStep
  <2>4. CASE Lock(t) \/ Library(t)
    BY <2>4, LockTyped, LibraryTyped
  <2> QED
    BY <1>2, <2>1, <2>2, <2>3, <2>4 DEF ThreadNext
<1> QED
  BY <1>1, <1>2 DEF Next

(***************************************************************************)
(* Every variable keeps its type: in particular the lists of the tracker   *)
(* stay lists of their structs, and mali_fd is never the -1 of an open()   *)
(* that failed.                                                            *)
(***************************************************************************)
THEOREM Typing == Spec => []TypeOK
<1>1. Init => Typed
  BY DEF Init, Typed, TypeOK, ArgInv, TrackerInit, TrackerTypeOK, Ker!KInit,
         Ker!KTypeOK, Ker!FileKinds, Unlocked, Ops, Handles
<1>2. Typed => TypeOK
  BY DEF Typed
<1> QED
  BY <1>1, <1>2, TypedStep, PTL DEF Spec

-----------------------------------------------------------------------------
(* The inductive invariant.  One lemma per action, one step per conjunct.  *)

FdCore ==
  /\ LockInv /\ CallInv /\ CloserAlone
  /\ MaliFdLive /\ ForgottenFirst /\ ChosenIsDevice

\* The kernel part of ioctl() opens and closes nothing.
LEMMA IoctlKernelFiles ==
  ASSUME NEW t, NEW v, IoctlKernel(t, v)
  PROVE  files' = files
BY DEF IoctlKernel, Ker!KAlloc, Ker!KFree, kernel

\* Nor does that of mmap().
LEMMA MmapKernelFiles ==
  ASSUME NEW t, NEW a, MmapKernel(t, a)
  PROVE  files' = files
BY DEF MmapKernel, Ker!KMmapGpu, Ker!KMmapOther, kernel

\* The recorded descriptor is that of the device just opened.
LEMMA FdOpenRecord ==
  ASSUME Typed, FdCore, NEW t \in Threads,
         OpenRecord(t)
  PROVE  FdCore'
<1> USE DEF Typed, TypeOK, LockInv, FdCore, Goto, AtLock, InLock, Unlocked,
            Traced, OpenPcs, ClosePcs
<1>1. LockInv'
  BY DEF LockInv, OpenRecord, Return, Unlock, IsNewDevice, kernel
<1>2. CallInv'
  BY DEF CallInv, CloserAlone, OpenRecord, Return, Unlock, IsNewDevice, kernel
<1>3. CloserAlone'
  BY DEF CloserAlone, CallInv, OpenRecord, Return, Unlock, IsNewDevice, kernel
<1>4. MaliFdLive'
  BY DEF MaliFdLive, CallInv, OpenRecord, Return, Unlock, IsNewDevice, kernel
<1>5. ForgottenFirst'
  BY DEF ForgottenFirst, MaliFdLive, CallInv, CloserAlone, OpenRecord, Return, Unlock, IsNewDevice, kernel
<1>6. ChosenIsDevice'
  BY DEF ChosenIsDevice, CallInv, CloserAlone, MaliFdLive, OpenRecord, Return, Unlock, IsNewDevice, kernel
<1> QED
  BY <1>1, <1>2, <1>3, <1>4, <1>5, <1>6

\* The closer is alone on its descriptor.
LEMMA FdClose ==
  ASSUME Typed, FdCore, NEW t \in Threads,
         NEW f \in Fd, Close(t, f)
  PROVE  FdCore'
<1> USE DEF Typed, TypeOK, LockInv, FdCore, Goto, AtLock, InLock, Unlocked,
            Traced, OpenPcs, ClosePcs
<1>1. LockInv'
  BY DEF LockInv, Close, shared, kernel
<1>2. CallInv'
  BY DEF CallInv, CloserAlone, Usable, Close, shared, kernel
<1>3. CloserAlone'
  BY DEF CloserAlone, CallInv, InCall, Close, shared, kernel
<1>4. MaliFdLive'
  BY DEF MaliFdLive, CallInv, Close, shared, kernel
<1>5. ForgottenFirst'
  BY DEF ForgottenFirst, MaliFdLive, CallInv, CloserAlone, Close, shared, kernel
<1>6. ChosenIsDevice'
  BY DEF ChosenIsDevice, CallInv, CloserAlone, MaliFdLive, Close, shared, kernel
<1> QED
  BY <1>1, <1>2, <1>3, <1>4, <1>5, <1>6

\* A close() that passes on is not about the traced device.
LEMMA FdCloseCheck ==
  ASSUME Typed, FdCore, NEW t \in Threads,
         CloseCheck(t)
  PROVE  FdCore'
<1> USE DEF Typed, TypeOK, LockInv, FdCore, Goto, AtLock, InLock, Unlocked,
            Traced, OpenPcs, ClosePcs
<1>1. LockInv'
  BY DEF LockInv, CloseCheck, shared, kernel, locals
<1>2. CallInv'
  BY DEF CallInv, CloserAlone, CloseCheck, shared, kernel, locals
<1>3. CloserAlone'
  BY DEF CloserAlone, CallInv, CloseCheck, shared, kernel, locals
<1>4. MaliFdLive'
  BY DEF MaliFdLive, CallInv, CloseCheck, shared, kernel, locals
<1>5. ForgottenFirst'
  BY DEF ForgottenFirst, MaliFdLive, CallInv, CloserAlone, CloseCheck, shared, kernel, locals
<1>6. ChosenIsDevice'
  BY DEF ChosenIsDevice, CallInv, CloserAlone, MaliFdLive, CloseCheck, shared, kernel, locals
<1> QED
  BY <1>1, <1>2, <1>3, <1>4, <1>5, <1>6

\* After the locked section the device is not the traced one.
LEMMA FdCloseForget ==
  ASSUME Typed, FdCore, NEW t \in Threads,
         CloseForget(t)
  PROVE  FdCore'
<1> USE DEF Typed, TypeOK, LockInv, FdCore, Goto, AtLock, InLock, Unlocked,
            Traced, OpenPcs, ClosePcs
<1>1. LockInv'
  BY DEF LockInv, CloseForget, Forget, Unlock, kernel, locals
<1>2. CallInv'
  BY DEF CallInv, CloserAlone, CloseForget, Forget, Unlock, kernel, locals
<1>3. CloserAlone'
  BY DEF CloserAlone, CallInv, CloseForget, Forget, Unlock, kernel, locals
<1>4. MaliFdLive'
  BY DEF MaliFdLive, CallInv, CloseForget, Forget, Unlock, kernel, locals
<1>5. ForgottenFirst'
  BY DEF ForgottenFirst, MaliFdLive, CallInv, CloserAlone, CloseForget, Forget, Unlock, kernel, locals
<1>6. ChosenIsDevice'
  BY DEF ChosenIsDevice, CallInv, CloserAlone, MaliFdLive, CloseForget, Forget, Unlock, kernel, locals
<1> QED
  BY <1>1, <1>2, <1>3, <1>4, <1>5, <1>6

\* The kernel closes a descriptor that is not the traced one.
LEMMA FdCloseSys ==
  ASSUME Typed, FdCore, NEW t \in Threads,
         CloseSys(t)
  PROVE  FdCore'
<1> USE DEF Typed, TypeOK, LockInv, FdCore, Goto, AtLock, InLock, Unlocked,
            Traced, OpenPcs, ClosePcs
<1>1. LockInv'
  BY DEF LockInv, CloseSys, Return, shared, Ker!KClose
<1>2. CallInv'
  BY DEF CallInv, CloserAlone, CloseSys, Return, shared, Ker!KClose
<1>3. CloserAlone'
  BY DEF CloserAlone, CallInv, CloseSys, Return, shared, Ker!KClose
<1>4. MaliFdLive'
  BY DEF MaliFdLive, CallInv, ForgottenFirst, CloseSys, Return, shared, Ker!KClose
<1>5. ForgottenFirst'
  BY DEF ForgottenFirst, MaliFdLive, CallInv, CloserAlone, CloseSys, Return, shared, Ker!KClose
<1>6. ChosenIsDevice'
  BY DEF ChosenIsDevice, CallInv, CloserAlone, MaliFdLive, CloseSys, Return, shared, Ker!KClose
<1> QED
  BY <1>1, <1>2, <1>3, <1>4, <1>5, <1>6

\* The descriptor chosen for tracing is that of an open device.
LEMMA FdIoctl ==
  ASSUME Typed, FdCore, NEW t \in Threads,
         NEW f \in Fd, NEW request, NEW v, Ioctl(t, f, request, v)
  PROVE  FdCore'
<1> USE DEF Typed, TypeOK, LockInv, FdCore, Goto, AtLock, InLock, Unlocked,
            Traced, OpenPcs, ClosePcs
<1>1. LockInv'
  BY DEF LockInv, Ioctl, GoesToKernel, shared, kernel, Usable
<1>2. CallInv'
  BY DEF CallInv, CloserAlone, Ioctl, GoesToKernel, shared, kernel, Usable
<1>3. CloserAlone'
  BY DEF CloserAlone, CallInv, Closing, InCall, Ioctl, GoesToKernel, shared, kernel, Usable
<1>4. MaliFdLive'
  BY DEF MaliFdLive, CallInv, Ioctl, GoesToKernel, shared, kernel, Usable
<1>5. ForgottenFirst'
  BY DEF ForgottenFirst, MaliFdLive, CallInv, CloserAlone, Ioctl, GoesToKernel, shared, kernel, Usable
<1>6. ChosenIsDevice'
  BY DEF ChosenIsDevice, CallInv, CloserAlone, MaliFdLive, Ioctl, GoesToKernel, shared, kernel, Usable
<1> QED
  BY <1>1, <1>2, <1>3, <1>4, <1>5, <1>6

\* A call that is not traced changes no descriptor.
LEMMA FdIoctlPass ==
  ASSUME Typed, FdCore, NEW t \in Threads,
         IoctlPass(t)
  PROVE  FdCore'
<1> USE DEF Typed, TypeOK, LockInv, FdCore, Goto, AtLock, InLock, Unlocked,
            Traced, OpenPcs, ClosePcs
<1>0. files' = files
  BY IoctlKernelFiles DEF IoctlPass
<1>1. LockInv'
  BY <1>0 DEF LockInv, IoctlPass, Return, shared
<1>2. CallInv'
  BY <1>0 DEF CallInv, CloserAlone, IoctlPass, Return, shared
<1>3. CloserAlone'
  BY <1>0 DEF CloserAlone, CallInv, IoctlPass, Return, shared
<1>4. MaliFdLive'
  BY <1>0 DEF MaliFdLive, CallInv, IoctlPass, Return, shared
<1>5. ForgottenFirst'
  BY <1>0 DEF ForgottenFirst, MaliFdLive, CallInv, CloserAlone, IoctlPass, Return, shared
<1>6. ChosenIsDevice'
  BY <1>0 DEF ChosenIsDevice, CallInv, CloserAlone, MaliFdLive, IoctlPass, Return, shared
<1> QED
  BY <1>1, <1>2, <1>3, <1>4, <1>5, <1>6

\* Nor does the kernel part of a traced ioctl(),
LEMMA FdIoctlSys ==
  ASSUME Typed, FdCore, NEW t \in Threads,
         IoctlSys(t)
  PROVE  FdCore'
<1> USE DEF Typed, TypeOK, LockInv, FdCore, Goto, AtLock, InLock, Unlocked,
            Traced, OpenPcs, ClosePcs
<1>0. files' = files
  BY IoctlKernelFiles DEF IoctlSys
<1>1. LockInv'
  BY <1>0 DEF LockInv, IoctlSys, shared
<1>2. CallInv'
  BY <1>0 DEF CallInv, CloserAlone, IoctlSys, shared
<1>3. CloserAlone'
  BY <1>0 DEF CloserAlone, CallInv, IoctlSys, shared
<1>4. MaliFdLive'
  BY <1>0 DEF MaliFdLive, CallInv, IoctlSys, shared
<1>5. ForgottenFirst'
  BY <1>0 DEF ForgottenFirst, MaliFdLive, CallInv, CloserAlone, IoctlSys, shared
<1>6. ChosenIsDevice'
  BY <1>0 DEF ChosenIsDevice, CallInv, CloserAlone, MaliFdLive, IoctlSys, shared
<1> QED
  BY <1>1, <1>2, <1>3, <1>4, <1>5, <1>6

\* nor its post handler.
LEMMA FdIoctlPost ==
  ASSUME Typed, FdCore, NEW t \in Threads,
         IoctlPost(t)
  PROVE  FdCore'
<1> USE DEF Typed, TypeOK, LockInv, FdCore, Goto, AtLock, InLock, Unlocked,
            Traced, OpenPcs, ClosePcs
<1>1. LockInv'
  BY DEF LockInv, IoctlPost, Return, Unlock, kernel
<1>2. CallInv'
  BY DEF CallInv, CloserAlone, IoctlPost, Return, Unlock, kernel
<1>3. CloserAlone'
  BY DEF CloserAlone, CallInv, IoctlPost, Return, Unlock, kernel
<1>4. MaliFdLive'
  BY DEF MaliFdLive, CallInv, IoctlPost, Return, Unlock, kernel
<1>5. ForgottenFirst'
  BY DEF ForgottenFirst, MaliFdLive, CallInv, CloserAlone, IoctlPost, Return, Unlock, kernel
<1>6. ChosenIsDevice'
  BY DEF ChosenIsDevice, CallInv, CloserAlone, MaliFdLive, IoctlPost, Return, Unlock, kernel
<1> QED
  BY <1>1, <1>2, <1>3, <1>4, <1>5, <1>6

\* The second read of mali_fd chooses an open device.
LEMMA FdMmapCheck ==
  ASSUME Typed, FdCore, NEW t \in Threads,
         MmapCheck(t)
  PROVE  FdCore'
<1> USE DEF Typed, TypeOK, LockInv, FdCore, Goto, AtLock, InLock, Unlocked,
            Traced, OpenPcs, ClosePcs
<1>1. LockInv'
  BY DEF LockInv, MmapCheck, shared, kernel, locals
<1>2. CallInv'
  BY DEF CallInv, CloserAlone, MmapCheck, shared, kernel, locals
<1>3. CloserAlone'
  BY DEF CloserAlone, CallInv, MmapCheck, shared, kernel, locals
<1>4. MaliFdLive'
  BY DEF MaliFdLive, CallInv, MmapCheck, shared, kernel, locals
<1>5. ForgottenFirst'
  BY DEF ForgottenFirst, MaliFdLive, CallInv, CloserAlone, MmapCheck, shared, kernel, locals
<1>6. ChosenIsDevice'
  BY DEF ChosenIsDevice, CallInv, CloserAlone, MaliFdLive, MmapCheck, shared, kernel, locals
<1> QED
  BY <1>1, <1>2, <1>3, <1>4, <1>5, <1>6

\* A mapping that is not traced changes no descriptor.
LEMMA FdMmapPass ==
  ASSUME Typed, FdCore, NEW t \in Threads,
         MmapPass(t)
  PROVE  FdCore'
<1> USE DEF Typed, TypeOK, LockInv, FdCore, Goto, AtLock, InLock, Unlocked,
            Traced, OpenPcs, ClosePcs
<1>0. files' = files
  BY MmapKernelFiles DEF MmapPass
<1>1. LockInv'
  BY <1>0 DEF LockInv, MmapPass, Return, shared
<1>2. CallInv'
  BY <1>0 DEF CallInv, CloserAlone, MmapPass, Return, shared
<1>3. CloserAlone'
  BY <1>0 DEF CloserAlone, CallInv, MmapPass, Return, shared
<1>4. MaliFdLive'
  BY <1>0 DEF MaliFdLive, CallInv, MmapPass, Return, shared
<1>5. ForgottenFirst'
  BY <1>0 DEF ForgottenFirst, MaliFdLive, CallInv, CloserAlone, MmapPass, Return, shared
<1>6. ChosenIsDevice'
  BY <1>0 DEF ChosenIsDevice, CallInv, CloserAlone, MaliFdLive, MmapPass, Return, shared
<1> QED
  BY <1>1, <1>2, <1>3, <1>4, <1>5, <1>6

\* Nor does the kernel part of a traced mmap(),
LEMMA FdMmapSys ==
  ASSUME Typed, FdCore, NEW t \in Threads,
         MmapSys(t)
  PROVE  FdCore'
<1> USE DEF Typed, TypeOK, LockInv, FdCore, Goto, AtLock, InLock, Unlocked,
            Traced, OpenPcs, ClosePcs
<1>0. files' = files
  BY MmapKernelFiles DEF MmapSys
<1>1. LockInv'
  BY <1>0 DEF LockInv, MmapSys, shared
<1>2. CallInv'
  BY <1>0 DEF CallInv, CloserAlone, MmapSys, shared
<1>3. CloserAlone'
  BY <1>0 DEF CloserAlone, CallInv, MmapSys, shared
<1>4. MaliFdLive'
  BY <1>0 DEF MaliFdLive, CallInv, MmapSys, shared
<1>5. ForgottenFirst'
  BY <1>0 DEF ForgottenFirst, MaliFdLive, CallInv, CloserAlone, MmapSys, shared
<1>6. ChosenIsDevice'
  BY <1>0 DEF ChosenIsDevice, CallInv, CloserAlone, MaliFdLive, MmapSys, shared
<1> QED
  BY <1>1, <1>2, <1>3, <1>4, <1>5, <1>6

\* nor its record.
LEMMA FdMmapTrack ==
  ASSUME Typed, FdCore, NEW t \in Threads,
         MmapTrack(t)
  PROVE  FdCore'
<1> USE DEF Typed, TypeOK, LockInv, FdCore, Goto, AtLock, InLock, Unlocked,
            Traced, OpenPcs, ClosePcs
<1>1. LockInv'
  BY DEF LockInv, MmapTrack, Return, Unlock, kernel
<1>2. CallInv'
  BY DEF CallInv, CloserAlone, MmapTrack, Return, Unlock, kernel
<1>3. CloserAlone'
  BY DEF CloserAlone, CallInv, MmapTrack, Return, Unlock, kernel
<1>4. MaliFdLive'
  BY DEF MaliFdLive, CallInv, MmapTrack, Return, Unlock, kernel
<1>5. ForgottenFirst'
  BY DEF ForgottenFirst, MaliFdLive, CallInv, CloserAlone, MmapTrack, Return, Unlock, kernel
<1>6. ChosenIsDevice'
  BY DEF ChosenIsDevice, CallInv, CloserAlone, MaliFdLive, MmapTrack, Return, Unlock, kernel
<1> QED
  BY <1>1, <1>2, <1>3, <1>4, <1>5, <1>6

\* munmap() uses no descriptor.
LEMMA FdMunmap ==
  ASSUME Typed, FdCore, NEW t \in Threads,
         NEW a, Munmap(t, a)
  PROVE  FdCore'
<1> USE DEF Typed, TypeOK, LockInv, FdCore, Goto, AtLock, InLock, Unlocked,
            Traced, OpenPcs, ClosePcs
<1>1. LockInv'
  BY DEF LockInv, Munmap, shared, kernel
<1>2. CallInv'
  BY DEF CallInv, CloserAlone, Munmap, shared, kernel
<1>3. CloserAlone'
  BY DEF CloserAlone, CallInv, NoFd, Munmap, shared, kernel
<1>4. MaliFdLive'
  BY DEF MaliFdLive, CallInv, Munmap, shared, kernel
<1>5. ForgottenFirst'
  BY DEF ForgottenFirst, MaliFdLive, CallInv, CloserAlone, Munmap, shared, kernel
<1>6. ChosenIsDevice'
  BY DEF ChosenIsDevice, CallInv, CloserAlone, MaliFdLive, Munmap, shared, kernel
<1> QED
  BY <1>1, <1>2, <1>3, <1>4, <1>5, <1>6

\* Nor does its kernel part,
LEMMA FdMunmapSys ==
  ASSUME Typed, FdCore, NEW t \in Threads,
         MunmapSys(t)
  PROVE  FdCore'
<1> USE DEF Typed, TypeOK, LockInv, FdCore, Goto, AtLock, InLock, Unlocked,
            Traced, OpenPcs, ClosePcs
<1>1. LockInv'
  BY DEF LockInv, MunmapSys, Ker!KMunmap, shared, locals
<1>2. CallInv'
  BY DEF CallInv, CloserAlone, MunmapSys, Ker!KMunmap, shared, locals
<1>3. CloserAlone'
  BY DEF CloserAlone, CallInv, MunmapSys, Ker!KMunmap, shared, locals
<1>4. MaliFdLive'
  BY DEF MaliFdLive, CallInv, MunmapSys, Ker!KMunmap, shared, locals
<1>5. ForgottenFirst'
  BY DEF ForgottenFirst, MaliFdLive, CallInv, CloserAlone, MunmapSys, Ker!KMunmap, shared, locals
<1>6. ChosenIsDevice'
  BY DEF ChosenIsDevice, CallInv, CloserAlone, MaliFdLive, MunmapSys, Ker!KMunmap, shared, locals
<1> QED
  BY <1>1, <1>2, <1>3, <1>4, <1>5, <1>6

\* nor its record.
LEMMA FdMunmapUntrack ==
  ASSUME Typed, FdCore, NEW t \in Threads,
         MunmapUntrack(t)
  PROVE  FdCore'
<1> USE DEF Typed, TypeOK, LockInv, FdCore, Goto, AtLock, InLock, Unlocked,
            Traced, OpenPcs, ClosePcs
<1>1. LockInv'
  BY DEF LockInv, MunmapUntrack, Return, UnlockAtOut, Unlock, kernel
<1>2. CallInv'
  BY DEF CallInv, CloserAlone, MunmapUntrack, Return, UnlockAtOut, Unlock, kernel
<1>3. CloserAlone'
  BY DEF CloserAlone, CallInv, MunmapUntrack, Return, UnlockAtOut, Unlock, kernel
<1>4. MaliFdLive'
  BY DEF MaliFdLive, CallInv, MunmapUntrack, Return, UnlockAtOut, Unlock, kernel
<1>5. ForgottenFirst'
  BY DEF ForgottenFirst, MaliFdLive, CallInv, CloserAlone, MunmapUntrack, Return, UnlockAtOut, Unlock, kernel
<1>6. ChosenIsDevice'
  BY DEF ChosenIsDevice, CallInv, CloserAlone, MaliFdLive, MunmapUntrack, Return, UnlockAtOut, Unlock, kernel
<1> QED
  BY <1>1, <1>2, <1>3, <1>4, <1>5, <1>6

\* Taking the mutex changes who holds it and nothing else.
LEMMA FdLock ==
  ASSUME Typed, FdCore, NEW t \in Threads,
         Lock(t)
  PROVE  FdCore'
<1> USE DEF Typed, TypeOK, LockInv, FdCore, Goto, AtLock, InLock, Unlocked,
            Traced, OpenPcs, ClosePcs
<1>1. LockInv'
  BY DEF LockInv, Lock, kernel, locals
<1>2. CallInv'
  BY DEF CallInv, CloserAlone, Lock, kernel, locals
<1>3. CloserAlone'
  BY DEF CloserAlone, CallInv, Lock, kernel, locals
<1>4. MaliFdLive'
  BY DEF MaliFdLive, CallInv, Lock, kernel, locals
<1>5. ForgottenFirst'
  BY DEF ForgottenFirst, MaliFdLive, CallInv, CloserAlone, Lock, kernel, locals
<1>6. ChosenIsDevice'
  BY DEF ChosenIsDevice, CallInv, CloserAlone, MaliFdLive, Lock, kernel, locals
<1> QED
  BY <1>1, <1>2, <1>3, <1>4, <1>5, <1>6

\* mmap() of something the program owns leaves the closers alone.
LEMMA FdMmap ==
  ASSUME Typed, FdCore, NEW t \in Threads,
         NEW f \in Fd \cup {NoFd}, NEW v, Mmap(t, f, v)
  PROVE  FdCore'
<1> USE DEF Typed, TypeOK, LockInv, FdCore, Goto, AtLock, InLock, Unlocked,
            Traced, OpenPcs, ClosePcs
<1>1. /\ pc[t] = "app" /\ fd' = [fd EXCEPT ![t] = f]
      /\ pc' = [pc EXCEPT ![t] = IF mali_fd = 0 THEN "mmap_pass"
                                ELSE "mmap_check"]
      /\ op' = [op EXCEPT ![t] = "mmap"]
      /\ UNCHANGED <<l, mali_fd, files>>
  BY DEF Mmap, shared, kernel
<1>2. f # NoFd => Usable(f)
  BY DEF Mmap
<1>3. NoFd \notin Fd
  BY DEF NoFd
<1>4. LockInv' /\ MaliFdLive' /\ ForgottenFirst' /\ ChosenIsDevice'
  BY <1>1 DEF MaliFdLive, ForgottenFirst, ChosenIsDevice
<1>5. CallInv'
  BY <1>1, <1>2 DEF CallInv, Usable
<1>6. ASSUME NEW u \in Threads, pc[u] \in ClosePcs
      PROVE  fd[u] # f
  <2>1. op[u] = "close" /\ fd[u] \in Fd
    BY <1>6 DEF CallInv
  <2> QED
    BY <1>2, <1>3, <1>6, <2>1 DEF Usable, Closing, InCall
<1>7. CloserAlone'
  BY <1>1, <1>6 DEF CloserAlone
<1> QED
  BY <1>4, <1>5, <1>7

\* The descriptor the kernel gives to open() is in nobody's use.
LEMMA FdOpenSys ==
  ASSUME Typed, FdCore, NEW t \in Threads,
         NEW path \in {"mali", "other"}, OpenSys(t, path)
  PROVE  FdCore'
<1> USE DEF Typed, TypeOK, LockInv, FdCore, Goto, AtLock, InLock, Unlocked,
            Traced, OpenPcs, ClosePcs
<1>1. PICK f \in Fd \cup {NoFd} :
        /\ \/ f \in Fd /\ Ker!KOpen(f, path)
           \/ f = NoFd /\ UNCHANGED kernel
        /\ fd' = [fd EXCEPT ![t] = f]
  BY DEF OpenSys
<1>2. \/ /\ f \in Fd /\ files[f] = "none"
         /\ files' = [files EXCEPT ![f] = path]
      \/ f = NoFd /\ files' = files
  BY <1>1 DEF Ker!KOpen, kernel
<1>3. /\ pc[t] = "app" /\ pc' = [pc EXCEPT ![t] = "open_lock"]
      /\ op' = [op EXCEPT ![t] = path] /\ UNCHANGED <<l, mali_fd>>
  BY DEF OpenSys, shared
<1>4. files \in [Fd -> {"none", "mali", "other", "lib"}] /\ NoFd \notin Fd
  BY DEF Ker!KTypeOK, Ker!FileKinds, NoFd
<1>5. \A u \in Threads :
        u # t /\ pc[u] # "app" /\ fd[u] # NoFd =>
          fd[u] # f /\ files'[fd[u]] = files[fd[u]]
  <2>1. ASSUME NEW u \in Threads, u # t, pc[u] # "app", fd[u] # NoFd
        PROVE  fd[u] # f /\ files'[fd[u]] = files[fd[u]]
    <3>1. fd[u] \in Fd /\ files[fd[u]] \in {"mali", "other"}
      BY <2>1 DEF CallInv
    <3> QED
      BY <1>2, <1>4, <2>1, <3>1
  <2> QED
    BY <2>1
<1>6. LockInv'
  BY <1>3
<1>7. CallInv'
  BY <1>1, <1>2, <1>3, <1>4, <1>5 DEF CallInv
<1>8. CloserAlone'
  BY <1>1, <1>3, <1>4, <1>5 DEF CloserAlone, CallInv
<1>9. MaliFdLive'
  BY <1>2, <1>3, <1>4 DEF MaliFdLive
<1>10. ForgottenFirst'
  BY <1>1, <1>3 DEF ForgottenFirst
<1>11. ChosenIsDevice'
  BY <1>1, <1>2, <1>3, <1>4, <1>5 DEF ChosenIsDevice
<1> QED
  BY <1>6, <1>7, <1>8, <1>9, <1>10, <1>11

(***************************************************************************)
(* A file a system library opens or closes is neither the traced device    *)
(* nor a file of the program, so its close() passes the unlocked check.    *)
(***************************************************************************)
LEMMA FdLibrary ==
  ASSUME Typed, FdCore, NEW t \in Threads, Library(t)
  PROVE  FdCore'
<1> USE DEF Typed, TypeOK, LockInv, FdCore, Goto, AtLock, InLock, Unlocked,
            Traced, OpenPcs, ClosePcs
<1>1. PICK f \in Fd : LibOpen(t, f) \/ LibClose(t, f)
  BY DEF Library
<1>2. ~(~(f <= 0 \/ mali_fd = 0 \/ f # mali_fd) /\ files[f] = "lib")
  BY DEF MaliFdLive
<1>3. /\ files[f] \in {"none", "lib"}
      /\ files' \in [Fd -> Ker!FileKinds]
      /\ \A g \in Fd : g # f => files'[g] = files[g]
      /\ UNCHANGED <<shared, pc, locals>>
  BY <1>1, <1>2 DEF LibOpen, LibClose, Ker!KOpen, Ker!KClose, Ker!KTypeOK,
                    Ker!FileKinds
<1>4. UNCHANGED <<l, mali_fd, pc, fd, op>>
  BY <1>3 DEF shared, locals
<1>5. LockInv' /\ CloserAlone' /\ ForgottenFirst'
  BY <1>4 DEF CloserAlone, ForgottenFirst
<1>6. CallInv'
  <2>1. ASSUME NEW u \in Threads, pc[u] # "app", fd[u] # NoFd
        PROVE  files'[fd[u]] = files[fd[u]]
    <3>1. fd[u] \in Fd /\ files[fd[u]] \in {"mali", "other"}
      BY <2>1 DEF CallInv
    <3> QED
      BY <1>3, <3>1
  <2> QED
    BY <1>4, <2>1 DEF CallInv
<1>7. MaliFdLive'
  BY <1>3, <1>4 DEF MaliFdLive
<1>8. ChosenIsDevice'
  BY <1>3, <1>4 DEF ChosenIsDevice
<1> QED
  BY <1>5, <1>6, <1>7, <1>8
\* The invariant is inductive.
LEMMA FdCoreStep == Typed /\ FdCore /\ [Next]_vars => FdCore'
<1> SUFFICES ASSUME Typed, FdCore, [Next]_vars PROVE FdCore'
  OBVIOUS
<1>1. CASE UNCHANGED vars
  BY <1>1 DEF vars, shared, kernel, locals, FdCore, LockInv, CallInv,
              CloserAlone, MaliFdLive, ForgottenFirst, ChosenIsDevice
<1>2. ASSUME NEW t \in Threads, ThreadNext(t)
      PROVE  FdCore'
  <2>1. CASE Call(t)
    BY <2>1, FdOpenSys, FdClose, FdIoctl, FdMmap, FdMunmap DEF Call
  <2>2. CASE UnlockedStep(t)
    BY <2>2, FdCloseCheck, FdCloseSys, FdIoctlPass, FdMmapCheck, FdMmapPass
    DEF UnlockedStep
  <2>3. CASE LockedStep(t)
    BY <2>3, FdOpenRecord, FdCloseForget, FdIoctlSys, FdIoctlPost, FdMmapSys,
       FdMmapTrack, FdMunmapSys, FdMunmapUntrack
    DEF LockedStep
  <2>4. CASE Lock(t) \/ Library(t)
    BY <2>4, FdLock, FdLibrary
  <2> QED
    BY <1>2, <2>1, <2>2, <2>3, <2>4 DEF ThreadNext
<1> QED
  BY <1>1, <1>2 DEF Next

\* It holds at the start.
LEMMA InvInit == Init => Typed /\ FdCore
<1> SUFFICES ASSUME Init PROVE Typed /\ FdCore
  OBVIOUS
<1>1. Typed
  BY DEF Init, Typed, TypeOK, ArgInv, TrackerInit, TrackerTypeOK, Ker!KInit,
         Ker!KTypeOK, Ker!FileKinds, Unlocked, Ops, Handles
<1>2. FdCore
  BY DEF Init, FdCore, LockInv, CallInv, CloserAlone, MaliFdLive,
         ForgottenFirst, ChosenIsDevice, InLock, OpenPcs, ClosePcs, Traced
<1> QED
  BY <1>1, <1>2

-----------------------------------------------------------------------------
(* What a call may count on while other threads run.                       *)

\* A thread moves itself only.
LEMMA OtherLocals ==
  ASSUME Typed, NEW t \in Threads, ThreadNext(t), NEW u \in Threads, u # t
  PROVE  /\ pc'[u] = pc[u] /\ fd'[u] = fd[u] /\ op'[u] = op[u]
         /\ va'[u] = va[u] /\ addr'[u] = addr[u]
<1> USE DEF Typed, TypeOK, Goto
<1>1. CASE Call(t)
  <2>1. CASE \E path \in {"mali", "other"} : OpenSys(t, path)
    BY <2>1 DEF OpenSys
  <2>2. CASE \E f \in Fd : Close(t, f)
    BY <2>2 DEF Close
  <2>3. CASE \E f \in Fd, request \in {"alloc", "free", "other"},
              v \in Handles : Ioctl(t, f, request, v)
    BY <2>3 DEF Ioctl
  <2>4. CASE \E f \in Fd \cup {NoFd}, v \in Handles : Mmap(t, f, v)
    BY <2>4 DEF Mmap
  <2>5. CASE \E a \in Addrs : Munmap(t, a)
    BY <2>5 DEF Munmap
  <2> QED
    BY <1>1, <2>1, <2>2, <2>3, <2>4, <2>5 DEF Call
<1>2. CASE UnlockedStep(t)
  BY <1>2
  DEF UnlockedStep, CloseCheck, CloseSys, IoctlPass, MmapCheck, MmapPass,
      Return, locals
<1>3. CASE Lock(t)
  BY <1>3 DEF Lock, locals
<1>4. CASE OpenRecord(t) \/ CloseForget(t) \/ IoctlSys(t) \/ IoctlPost(t)
  BY <1>4 DEF OpenRecord, CloseForget, IoctlSys, IoctlPost, Return, locals
<1>5. CASE MmapSys(t) \/ MmapTrack(t) \/ MunmapSys(t) \/ MunmapUntrack(t)
  BY <1>5 DEF MmapSys, MmapTrack, MunmapSys, MunmapUntrack, Return, locals
<1>6. CASE Library(t)
  BY <1>6 DEF Library, LibOpen, LibClose, locals
<1> QED
  BY <1>1, <1>2, <1>3, <1>4, <1>5, <1>6 DEF ThreadNext, LockedStep

\* Nobody closes or replaces the file a call in progress is about.
LEMMA FileStays ==
  ASSUME Typed, FdCore, NEW t \in Threads, ThreadNext(t),
         NEW u \in Threads, u # t, pc[u] # "app",
         fd[u] \in Fd, files[fd[u]] \in {"mali", "other"}
  PROVE  files'[fd[u]] = files[fd[u]]
<1>1. files \in [Fd -> Ker!FileKinds]
  BY DEF Typed, TypeOK, Ker!KTypeOK
<1>2. CASE \E path \in {"mali", "other"} : OpenSys(t, path)
  BY <1>1, <1>2 DEF OpenSys, Ker!KOpen, kernel
<1>3. CASE CloseSys(t)
  <2>1. fd[t] # fd[u]
    BY <1>3 DEF CloseSys, FdCore, CloserAlone, ClosePcs
  <2> QED
    BY <1>1, <1>3, <2>1 DEF CloseSys, Ker!KClose
<1>4. CASE Library(t)
  BY <1>1, <1>4 DEF Library, LibOpen, LibClose, Ker!KOpen, Ker!KClose, kernel
<1>5. CASE IoctlPass(t) \/ IoctlSys(t)
  BY <1>5, IoctlKernelFiles DEF IoctlPass, IoctlSys
<1>6. CASE MmapPass(t) \/ MmapSys(t)
  BY <1>6, MmapKernelFiles DEF MmapPass, MmapSys
<1>7. CASE MunmapSys(t)
  BY <1>7 DEF MunmapSys, Ker!KMunmap
<1>8. CASE \/ \E f \in Fd : Close(t, f)
           \/ \E f \in Fd, request \in {"alloc", "free", "other"},
                 v \in Handles : Ioctl(t, f, request, v)
           \/ \E f \in Fd \cup {NoFd}, v \in Handles : Mmap(t, f, v)
           \/ \E a \in Addrs : Munmap(t, a)
  BY <1>8 DEF Close, Ioctl, Mmap, Munmap, kernel
<1>9. CASE CloseCheck(t) \/ MmapCheck(t) \/ Lock(t) \/ OpenRecord(t)
           \/ CloseForget(t)
  BY <1>9 DEF CloseCheck, MmapCheck, Lock, OpenRecord, CloseForget, kernel
<1>10. CASE IoctlPost(t) \/ MmapTrack(t) \/ MunmapUntrack(t)
  BY <1>10 DEF IoctlPost, MmapTrack, MunmapUntrack, kernel
<1> QED
  BY <1>2, <1>3, <1>4, <1>5, <1>6, <1>7, <1>8, <1>9, <1>10
  DEF ThreadNext, Call, UnlockedStep, LockedStep

-----------------------------------------------------------------------------
(* The theorems.                                                           *)

(***************************************************************************)
(* Who holds the mutex, which descriptors are open and for whom, and that  *)
(* no close() in progress is about to close the traced device under its    *)
(* number: at every step, whatever the threads do.                         *)
(***************************************************************************)
THEOREM DescriptorInvariant == Spec => []FdInv
<1>1. Typed /\ FdCore => FdInv
  BY DEF Typed, FdCore, FdInv
<1> QED
  BY <1>1, InvInit, TypedStep, FdCoreStep, PTL DEF Spec

(***************************************************************************)
(* mali_fd never names a file that is not the device.                      *)
(***************************************************************************)
THEOREM TracedDeviceIsOpen == Spec => []MaliFdLive
<1>1. FdInv => MaliFdLive
  BY DEF FdInv
<1> QED
  BY <1>1, DescriptorInvariant, PTL

(***************************************************************************)
(* ioctl() and mmap() trace only calls on devices, descriptor 0 apart,     *)
(* although they choose before they take the mutex.                        *)
(***************************************************************************)
THEOREM OnlyDevicesTraced == Spec => []TracedIsDevice
<1>1. FdInv => TracedIsDevice
  BY DEF FdInv, TracedIsDevice, ChosenIsDevice
<1> QED
  BY <1>1, DescriptorInvariant, PTL

(***************************************************************************)
(* No thread waits for the mutex it holds: what the racy test of close()   *)
(* is for.                                                                 *)
(***************************************************************************)
THEOREM NeverSelfDeadlocked == Spec => []NoSelfDeadlock
<1>1. FdInv => NoSelfDeadlock
  BY DEF FdInv, LockInv, NoSelfDeadlock, AtLock, InLock
<1> QED
  BY <1>1, DescriptorInvariant, PTL

\* What a step does to mali_fd.
LEMMA OwnerSteps == TypeOK /\ [Next]_vars => [OwnerStep]_vars
<1> SUFFICES ASSUME TypeOK, Next PROVE OwnerStep
  BY DEF vars, shared, OwnerStep
<1>1. PICK t \in Threads : ThreadNext(t)
  BY DEF Next
<1>2. CASE OpenRecord(t)
  BY <1>2 DEF OpenRecord, IsNewDevice, OwnerStep
<1>3. CASE CloseForget(t)
  BY <1>3 DEF CloseForget, Forget, OwnerStep
<1>4. CASE ~OpenRecord(t) /\ ~CloseForget(t)
  <2>1. mali_fd' = mali_fd
    BY <1>1, <1>4
    DEF ThreadNext, Call, UnlockedStep, LockedStep, Library, Lock, shared,
        OpenSys, Close, CloseCheck, CloseSys, Ioctl, IoctlPass, IoctlSys,
        IoctlPost, Mmap, MmapCheck, MmapPass, MmapSys, MmapTrack, Munmap,
        MunmapSys, MunmapUntrack, LibOpen, LibClose
  <2> QED
    BY <2>1 DEF OwnerStep
<1> QED
  BY <1>2, <1>3, <1>4

(***************************************************************************)
(* The traced device is forgotten by its own close() only, and replaced by *)
(* the open() of a device only.                                            *)
(***************************************************************************)
THEOREM OwnDeviceForgotten == Spec => ForgetOnlyOwn
BY OwnerSteps, Typing, PTL DEF Spec, ForgetOnlyOwn

-----------------------------------------------------------------------------
(* A signal handler which calls close(), ioctl() and mmap() on files that  *)
(* are not the device never comes to the mutex: what panwrap decides       *)
(* before it takes the mutex follows from the invariant above, which       *)
(* handlers cannot break.                                                  *)

\* Where the call of a handler can be: never at the mutex or behind it.
HandlerPcs == {"app", "close_check", "close_sys", "ioctl_pass", "mmap_check",
               "mmap_pass"}

\* Its descriptor stays that of a file which is not the device.
NotDevice(t) == fd[t] = NoFd \/ (fd[t] \in Fd /\ files[fd[t]] = "other")

HandlerInv ==
  \A h \in Handlers : pc[h] \in HandlerPcs /\ (pc[h] # "app" => NotDevice(h))

\* A handler that starts a call decides that it is not about the device.
LEMMA HandlerStarts ==
  ASSUME Entries \cap {"open_lock", "munmap_lock"} = {}, 0 \notin Fd,
         Typed, FdCore, NEW h \in Handlers, h \in Threads, pc[h] = "app",
         ThreadNext(h), HandlerCall(h)
  PROVE  pc'[h] \in HandlerPcs /\ NotDevice(h)'
<1> USE DEF Typed, TypeOK, Goto, HandlerPcs
<1>1. NoFd \notin Fd
  BY FdAssumption DEF NoFd
<1>2. Call(h)
  BY DEF ThreadNext, UnlockedStep, LockedStep, Library, CloseCheck, CloseSys,
         IoctlPass, MmapCheck, MmapPass, Lock, AtLock, OpenRecord, CloseForget,
         IoctlSys, IoctlPost, MmapSys, MmapTrack, MunmapSys, MunmapUntrack,
         LibOpen, LibClose, InLock
<1>3. ~ \E path \in {"mali", "other"} : OpenSys(h, path)
  BY DEF OpenSys, HandlerCall
<1>4. ~ \E a \in Addrs : Munmap(h, a)
  BY DEF Munmap, HandlerCall
<1>5. CASE \E f \in Fd : Close(h, f)
  BY <1>1, <1>5 DEF Close, HandlerCall, NotDevice
<1>6. ASSUME NEW f \in Fd, NEW request \in {"alloc", "free", "other"},
             NEW v \in Handles, Ioctl(h, f, request, v)
      PROVE  pc'[h] \in HandlerPcs /\ NotDevice(h)'
  <2>1. fd'[h] = f /\ files' = files
    BY <1>6 DEF Ioctl, kernel
  <2>2. files[f] = "other"
    BY <1>1, <2>1 DEF HandlerCall
  <2>3. GoesToKernel(f)
    BY <2>2 DEF FdCore, MaliFdLive, GoesToKernel
  <2> QED
    BY <1>6, <2>1, <2>2, <2>3 DEF Ioctl, NotDevice
<1>7. CASE \E f \in Fd \cup {NoFd}, v \in Handles : Mmap(h, f, v)
  BY <1>7 DEF Mmap, HandlerCall, NotDevice
<1> QED
  BY <1>2, <1>3, <1>4, <1>5, <1>6, <1>7 DEF Call

\* A call in progress goes on to the kernel and back.
LEMMA HandlerGoesOn ==
  ASSUME 0 \notin Fd, Typed, FdCore, NEW h \in Handlers, h \in Threads,
         pc[h] \in HandlerPcs \ {"app"}, NotDevice(h), ThreadNext(h)
  PROVE  pc'[h] \in HandlerPcs /\ (pc'[h] # "app" => NotDevice(h)')
<1> USE DEF Typed, TypeOK, Goto, HandlerPcs
<1>1. fd[h] # mali_fd
  BY FdAssumption DEF NotDevice, FdCore, MaliFdLive, NoFd
<1>2. UnlockedStep(h)
  BY DEF ThreadNext, Call, LockedStep, Library, OpenSys, Close, Ioctl, Mmap,
         Munmap, Lock, AtLock, OpenRecord, CloseForget, IoctlSys, IoctlPost,
         MmapSys, MmapTrack, MunmapSys, MunmapUntrack, LibOpen, LibClose,
         InLock
<1>3. CASE CloseSys(h) \/ IoctlPass(h) \/ MmapPass(h)
  BY <1>3 DEF CloseSys, IoctlPass, MmapPass, Return
<1>4. CASE CloseCheck(h)
  BY <1>1, <1>4 DEF CloseCheck, kernel, locals, NotDevice
<1>5. CASE MmapCheck(h)
  BY <1>1, <1>5 DEF MmapCheck, kernel, locals, NotDevice
<1> QED
  BY <1>2, <1>3, <1>4, <1>5 DEF UnlockedStep

LEMMA HandlerStep ==
  ASSUME Entries \cap {"open_lock", "munmap_lock"} = {}, 0 \notin Fd,
         Typed, FdCore, HandlerInv, [SignalNext]_vars
  PROVE  HandlerInv'
<1>1. CASE UNCHANGED vars
  BY <1>1 DEF HandlerInv, NotDevice, vars, kernel, locals
<1>2. ASSUME NEW t \in Threads, ThreadNext(t), ~Suspended(t),
             t \in Handlers /\ pc[t] = "app" => HandlerCall(t),
             NEW h \in Handlers
      PROVE  pc'[h] \in HandlerPcs /\ (pc'[h] # "app" => NotDevice(h)')
  <2>1. h \in Threads /\ pc[h] \in HandlerPcs /\ (pc[h] # "app" => NotDevice(h))
    BY HostAssumption DEF HandlerInv
  <2>2. CASE h # t
    BY <1>2, <2>1, <2>2, OtherLocals, FileStays DEF NotDevice
  <2>3. CASE h = t /\ pc[h] = "app"
    BY <1>2, <2>1, <2>3, HandlerStarts
  <2>4. CASE h = t /\ pc[h] # "app"
    BY <1>2, <2>1, <2>4, HandlerGoesOn
  <2> QED
    BY <2>2, <2>3, <2>4
<1> QED
  BY <1>1, <1>2 DEF SignalNext, HandlerInv

(***************************************************************************)
(* A handler that calls close(), ioctl() and mmap() for files other than   *)
(* the device never waits for the mutex, so not for the thread it          *)
(* interrupted: the tests panwrap makes without the mutex keep it out.     *)
(* open() and munmap() have no such test, and ioctl() lets descriptor 0    *)
(* through, so those are assumed away.                                     *)
(***************************************************************************)
THEOREM HandlersKeptOut ==
  ASSUME Entries \cap {"open_lock", "munmap_lock"} = {}, 0 \notin Fd
  PROVE  SignalSpec => []HandlerNotStuck
<1>1. Init => Typed /\ FdCore /\ HandlerInv
  <2>1. Init => HandlerInv
    BY HostAssumption DEF Init, HandlerInv, HandlerPcs
  <2> QED
    BY <2>1, InvInit
<1>2. [SignalNext]_vars => [Next]_vars
  BY DEF SignalNext, Next
<1>3. Typed /\ FdCore /\ HandlerInv /\ [SignalNext]_vars
        => Typed' /\ FdCore' /\ HandlerInv'
  BY <1>2, TypedStep, FdCoreStep, HandlerStep
<1>4. HandlerInv => HandlerNotStuck
  BY DEF HandlerInv, HandlerNotStuck, HandlerPcs, AtLock
<1> QED
  BY <1>1, <1>3, <1>4, PTL DEF SignalSpec

-----------------------------------------------------------------------------
(* The traced device and its memory, in a program that has at most one     *)
(* device open at a time: the device is the traced one, and what the       *)
(* tracker records of its memory agrees with the kernel whenever nobody is *)
(* between a kernel call and the record of it.                             *)

(* One device at a time.                                                   *)

OneDevice == Cardinality(Ker!Devices) <= 1

\* The program does not use a descriptor before open() has returned it.
OpenerAlone ==
  \A t, u \in Threads :
    t # u /\ pc[t] \in OpenPcs /\ fd[t] # NoFd /\ pc[u] # "app"
      => fd[u] # fd[t]

\* The device is the traced one, but for the time between the kernel's open()
\* or close() and what panwrap records of it.
Recorded ==
  \A f \in Fd :
    files[f] = "mali" /\ f # 0 =>
      \/ mali_fd = f
      \/ \E t \in Threads : pc[t] \in OpenPcs \cup {"close_sys"} /\ fd[t] = f

DeviceInv == IsFiniteSet(Ker!Devices) /\ OpenerAlone /\ Recorded

AtMostOne == \A f, g \in Fd : files[f] = "mali" /\ files[g] = "mali" => f = g

\* A finite set with less than two elements has no two.
LEMMA OneElement ==
  ASSUME NEW S, IsFiniteSet(S), Cardinality(S) <= 1, NEW x \in S, NEW y \in S
  PROVE  x = y
<1>1. Cardinality(S) \in Nat
  BY FS_CardinalityType
<1>2. IsFiniteSet(S \ {x}) /\ Cardinality(S \ {x}) = Cardinality(S) - 1
  BY FS_RemoveElement
<1>3. Cardinality(S \ {x}) = 0
  BY <1>1, <1>2, FS_CardinalityType
<1>4. S \ {x} = {}
  BY <1>2, <1>3, FS_EmptySet
<1> QED
  BY <1>4

LEMMA OneDeviceIsOne == DeviceInv /\ OneDevice => AtMostOne
<1> SUFFICES ASSUME DeviceInv, OneDevice,
                    NEW f \in Ker!Devices, NEW g \in Ker!Devices
             PROVE  f = g
  BY DEF AtMostOne, Ker!Devices
<1> QED
  BY OneElement DEF DeviceInv, OneDevice

\* How a step changes what the descriptors refer to.
LEMMA FilesStep ==
  ASSUME Typed, FdCore, NEW t \in Threads, ThreadNext(t)
  PROVE  \/ files' = files
         \/ /\ pc[t] = "app" /\ pc'[t] = "open_lock"
            /\ fd'[t] \in Fd /\ files[fd'[t]] = "none"
            /\ op'[t] \in {"mali", "other"}
            /\ files' = [files EXCEPT ![fd'[t]] = op'[t]]
         \/ CloseSys(t) /\ files' = [files EXCEPT ![fd[t]] = "none"]
         \/ /\ pc' = pc /\ locals' = locals /\ mali_fd' = mali_fd
            /\ \E f \in Fd : /\ files[f] \in {"none", "lib"}
                             /\ \/ files' = [files EXCEPT ![f] = "lib"]
                                \/ files' = [files EXCEPT ![f] = "none"]
<1> USE DEF Typed, TypeOK
<1>1. CASE \E path \in {"mali", "other"} : OpenSys(t, path)
  <2>1. PICK path \in {"mali", "other"} : OpenSys(t, path)
    BY <1>1
  <2>2. /\ pc[t] = "app" /\ pc'[t] = "open_lock" /\ op'[t] = path
        /\ \E f \in Fd \cup {NoFd} :
             /\ \/ f \in Fd /\ Ker!KOpen(f, path)
                \/ f = NoFd /\ UNCHANGED kernel
             /\ fd'[t] = f
    BY <2>1 DEF OpenSys, Goto
  <2> QED
    BY <2>2 DEF Ker!KOpen, kernel
<1>2. CASE CloseSys(t)
  BY <1>2 DEF CloseSys, Ker!KClose
<1>3. CASE Library(t)
  <2>1. PICK f \in Fd : LibOpen(t, f) \/ LibClose(t, f)
    BY <1>3 DEF Library
  <2>2. ~(~(f <= 0 \/ mali_fd = 0 \/ f # mali_fd) /\ files[f] = "lib")
    BY DEF FdCore, MaliFdLive
  <2> QED
    BY <2>1, <2>2
    DEF LibOpen, LibClose, Ker!KOpen, Ker!KClose, shared
<1>4. CASE IoctlPass(t) \/ IoctlSys(t)
  BY <1>4, IoctlKernelFiles DEF IoctlPass, IoctlSys
<1>5. CASE MmapPass(t) \/ MmapSys(t)
  BY <1>5, MmapKernelFiles DEF MmapPass, MmapSys
<1>6. CASE MunmapSys(t)
  BY <1>6 DEF MunmapSys, Ker!KMunmap
<1>7. CASE \/ \E f \in Fd : Close(t, f)
           \/ \E f \in Fd, request \in {"alloc", "free", "other"},
                 v \in Handles : Ioctl(t, f, request, v)
           \/ \E f \in Fd \cup {NoFd}, v \in Handles : Mmap(t, f, v)
           \/ \E a \in Addrs : Munmap(t, a)
  BY <1>7 DEF Close, Ioctl, Mmap, Munmap, kernel
<1>8. CASE CloseCheck(t) \/ MmapCheck(t) \/ Lock(t) \/ OpenRecord(t)
           \/ CloseForget(t)
  BY <1>8 DEF CloseCheck, MmapCheck, Lock, OpenRecord, CloseForget, kernel
<1>9. CASE IoctlPost(t) \/ MmapTrack(t) \/ MunmapUntrack(t)
  BY <1>9 DEF IoctlPost, MmapTrack, MunmapUntrack, kernel
<1> QED
  BY <1>1, <1>2, <1>3, <1>4, <1>5, <1>6, <1>7, <1>8, <1>9
  DEF ThreadNext, Call, UnlockedStep, LockedStep

\* Opening and closing files keeps the number of open devices finite.
LEMMA DevicesFinite ==
  ASSUME Typed, FdCore, NEW t \in Threads, ThreadNext(t),
         IsFiniteSet(Ker!Devices)
  PROVE  IsFiniteSet(Ker!Devices)'
<1>1. PICK f : Ker!Devices' \subseteq Ker!Devices \cup {f}
  <2>1. files \in [Fd -> Ker!FileKinds]
    BY DEF Typed, TypeOK, Ker!KTypeOK
  <2>2. files' = files \/ \E g, kind : files' = [files EXCEPT ![g] = kind]
    BY FilesStep
  <2>3. ASSUME NEW g, NEW kind, files' = [files EXCEPT ![g] = kind]
        PROVE  Ker!Devices' \subseteq Ker!Devices \cup {g}
    BY <2>1, <2>3 DEF Ker!Devices
  <2> QED
    BY <2>2, <2>3 DEF Ker!Devices
<1>2. IsFiniteSet(Ker!Devices \cup {f})
  BY FS_AddElement
<1> QED
  BY <1>1, <1>2, FS_Subset

\* What a system library does is no call of the program.
LEMMA LibraryStep ==
  ASSUME Typed, FdCore, NEW t \in Threads, Library(t)
  PROVE  /\ l = t /\ pc[t] \in InLock
         /\ UNCHANGED <<l, mali_fd, pc, fd, op, va, addr, allocations, mmaps>>
         /\ \E f \in Fd : /\ files[f] \in {"none", "lib"}
                          /\ Ker!KOpen(f, "lib") \/ Ker!KClose(f)
<1>1. PICK f \in Fd : LibOpen(t, f) \/ LibClose(t, f)
  BY DEF Library
<1>2. ~(~(f <= 0 \/ mali_fd = 0 \/ f # mali_fd) /\ files[f] = "lib")
  BY DEF FdCore, MaliFdLive
<1> QED
  BY <1>1, <1>2
  DEF LibOpen, LibClose, Ker!KOpen, locals, shared, tracker

\* How a step of a thread changes the descriptor its call is about.
LEMMA FdStep ==
  ASSUME Typed, FdCore, NEW t \in Threads, ThreadNext(t), pc'[t] # "app"
  PROVE  \/ /\ pc[t] # "app" /\ fd'[t] = fd[t]
            /\ pc'[t] \in OpenPcs => pc[t] \in OpenPcs
         \/ /\ pc[t] = "app" /\ pc'[t] \notin OpenPcs
            /\ fd'[t] = NoFd \/ (fd'[t] \in Fd /\ Usable(fd'[t]))
         \/ /\ pc[t] = "app"
            /\ \/ fd'[t] = NoFd
               \/ fd'[t] \in Fd /\ files[fd'[t]] = "none"
<1> USE DEF Typed, TypeOK, Goto, OpenPcs
<1>1. CASE \E path \in {"mali", "other"} : OpenSys(t, path)
  BY <1>1 DEF OpenSys, Ker!KOpen
<1>2. CASE \/ \E f \in Fd : Close(t, f)
           \/ \E f \in Fd, request \in {"alloc", "free", "other"},
                 v \in Handles : Ioctl(t, f, request, v)
           \/ \E f \in Fd \cup {NoFd}, v \in Handles : Mmap(t, f, v)
  <2>1. /\ pc[t] = "app" /\ pc'[t] \notin OpenPcs
        /\ \E f \in Fd \cup {NoFd} : fd'[t] = f /\ (f # NoFd => Usable(f))
    <3>1. CASE \E f \in Fd : Close(t, f)
      BY <3>1 DEF Close
    <3>2. CASE \E f \in Fd, request \in {"alloc", "free", "other"},
                v \in Handles : Ioctl(t, f, request, v)
      BY <3>2 DEF Ioctl
    <3>3. CASE \E f \in Fd \cup {NoFd}, v \in Handles : Mmap(t, f, v)
      BY <3>3 DEF Mmap
    <3> QED
      BY <1>2, <3>1, <3>2, <3>3
  <2> QED
    BY <2>1
<1>3. CASE \E a \in Addrs : Munmap(t, a)
  BY <1>3 DEF Munmap, FdCore, CallInv
<1>4. CASE UnlockedStep(t)
  BY <1>4
  DEF UnlockedStep, CloseCheck, CloseSys, IoctlPass, MmapCheck, MmapPass,
      Return, locals
<1>5. CASE LockedStep(t)
  BY <1>5
  DEF LockedStep, OpenRecord, CloseForget, IoctlSys, IoctlPost, MmapSys,
      MmapTrack, MunmapSys, MunmapUntrack, Return, locals
<1>6. CASE Lock(t)
  BY <1>6 DEF Lock, AtLock, locals
<1>7. CASE Library(t)
  BY <1>7, LibraryStep DEF InLock
<1> QED
  BY <1>1, <1>2, <1>3, <1>4, <1>5, <1>6, <1>7 DEF ThreadNext, Call

\* A descriptor open() is about to return is named by no other call.
LEMMA OpenerStaysAlone ==
  ASSUME Typed, FdCore, OpenerAlone, NEW w \in Threads, ThreadNext(w)
  PROVE  OpenerAlone'
<1> SUFFICES ASSUME NEW t \in Threads, NEW u \in Threads, t # u,
                    pc'[t] \in OpenPcs, fd'[t] # NoFd, pc'[u] # "app"
             PROVE  fd'[u] # fd'[t]
  BY DEF OpenerAlone
<1>1. \A v \in Threads : v # w => pc'[v] = pc[v] /\ fd'[v] = fd[v]
  BY OtherLocals
<1>2. \A v \in Threads :
        pc[v] # "app" /\ fd[v] # NoFd => files[fd[v]] \in {"mali", "other"}
  BY DEF FdCore, CallInv
<1>3. CASE w # t /\ w # u
  BY <1>1, <1>3 DEF OpenerAlone
<1>4. CASE w = t
  <2>1. pc'[u] = pc[u] /\ fd'[u] = fd[u] /\ pc'[w] # "app"
    BY <1>1, <1>4 DEF OpenPcs
  <2> QED
    BY <1>2, <1>4, <2>1, FdStep DEF OpenerAlone
<1>5. CASE w = u
  <2>1. pc[t] \in OpenPcs /\ pc'[t] = pc[t] /\ fd'[t] = fd[t]
    BY <1>1, <1>5
  <2>2. pc[t] # "app" /\ files[fd[t]] \in {"mali", "other"}
    BY <1>2, <2>1 DEF OpenPcs
  <2>3. Usable(fd[t]) => FALSE
    BY <2>1 DEF Usable, InCall, OpenPcs
  <2> QED
    BY <1>5, <2>1, <2>2, <2>3, FdStep DEF OpenerAlone
<1> QED
  BY <1>3, <1>4, <1>5

\* The device stays recorded, by its descriptor or by the call that opens or
\* closes it.
LEMMA StaysRecorded ==
  ASSUME Typed, FdCore, Recorded, AtMostOne, NEW w \in Threads, ThreadNext(w)
  PROVE  Recorded'
<1> SUFFICES ASSUME NEW f \in Fd, files'[f] = "mali", f # 0, mali_fd' # f
             PROVE  \E t \in Threads :
                      pc'[t] \in OpenPcs \cup {"close_sys"} /\ fd'[t] = f
  BY DEF Recorded
<1> USE DEF Typed, TypeOK
<1>1. \A v \in Threads : v # w => pc'[v] = pc[v] /\ fd'[v] = fd[v]
  BY OtherLocals
<1>2. CASE files[f] # "mali"
  <2>1. files \in [Fd -> Ker!FileKinds]
    BY DEF Ker!KTypeOK
  <2>2. pc'[w] = "open_lock" /\ fd'[w] = f
    BY <1>2, <2>1, FilesStep
  <2> QED
    BY <2>2 DEF OpenPcs
<1>3. CASE files[f] = "mali" /\ mali_fd = f
  <2>1. mali_fd # 0 /\ mali_fd' # mali_fd
    BY <1>3
  <2>2. CASE CloseForget(w)
    BY <1>3, <2>1, <2>2 DEF CloseForget, Forget, locals, Goto
  <2>3. CASE OpenRecord(w)
    <3>1. fd[w] # NoFd /\ op[w] = "mali" /\ pc[w] = "open_body"
          /\ mali_fd' = fd[w]
      BY <2>1, <2>3 DEF OpenRecord, IsNewDevice
    <3>2. fd[w] \in Fd /\ files[fd[w]] = "mali"
      BY <3>1 DEF FdCore, CallInv, OpenPcs
    <3> QED
      BY <1>3, <3>1, <3>2 DEF AtMostOne
  <2>4. CASE ~CloseForget(w) /\ ~OpenRecord(w)
    <3>1. mali_fd' = mali_fd
      BY <2>4, LibraryStep
      DEF ThreadNext, Call, UnlockedStep, LockedStep, Lock, shared,
          OpenSys, Close, CloseCheck, CloseSys, Ioctl, IoctlPass, IoctlSys,
          IoctlPost, Mmap, MmapCheck, MmapPass, MmapSys, MmapTrack, Munmap,
          MunmapSys, MunmapUntrack
    <3> QED
      BY <2>1, <3>1
  <2> QED
    BY <2>2, <2>3, <2>4
<1>4. CASE files[f] = "mali" /\ mali_fd # f
  <2>1. PICK t \in Threads :
          pc[t] \in OpenPcs \cup {"close_sys"} /\ fd[t] = f
    BY <1>4 DEF Recorded
  <2>2. CASE t # w
    BY <1>1, <2>1, <2>2
  <2>3. CASE t = w
    <3>1. CASE CloseSys(w)
      BY <2>1, <2>3, <3>1 DEF CloseSys, Ker!KClose, Ker!KTypeOK
    <3>2. CASE OpenRecord(w)
      <4>1. f # NoFd
        BY FdAssumption DEF NoFd
      <4>2. fd[w] # NoFd /\ op[w] = "mali"
        BY <1>4, <2>1, <2>3, <3>2, <4>1 DEF OpenRecord, FdCore, CallInv, OpenPcs
      <4> QED
        BY <2>1, <2>3, <3>2, <4>2 DEF OpenRecord, IsNewDevice
    <3>3. CASE Lock(w)
      BY <2>1, <2>3, <3>3 DEF Lock, Goto, AtLock, locals, OpenPcs
    <3>4. CASE Library(w)
      BY <2>1, <2>3, <3>4, LibraryStep
    <3>5. CASE ~CloseSys(w) /\ ~OpenRecord(w) /\ ~Lock(w) /\ ~Library(w)
      BY <2>1, <2>3, <3>5
      DEF OpenPcs, ThreadNext, Call, UnlockedStep, LockedStep,
          OpenSys, Close, CloseCheck, Ioctl, IoctlPass, IoctlSys,
          IoctlPost, Mmap, MmapCheck, MmapPass, MmapSys, MmapTrack, Munmap,
          MunmapSys, MunmapUntrack, CloseForget
    <3> QED
      BY <3>1, <3>2, <3>3, <3>4, <3>5
  <2> QED
    BY <2>2, <2>3
<1> QED
  BY <1>2, <1>3, <1>4

LEMMA DeviceInit == Init => DeviceInv
<1> SUFFICES ASSUME Init PROVE DeviceInv
  OBVIOUS
<1>1. Ker!Devices = {}
  BY DEF Init, Ker!KInit, Ker!Devices
<1> QED
  BY <1>1, FS_EmptySet
  DEF DeviceInv, OpenerAlone, Recorded, Init, Ker!KInit, Ker!Devices

LEMMA DeviceStep ==
  Typed /\ FdCore /\ DeviceInv /\ OneDevice /\ [Next]_vars => DeviceInv'
<1> SUFFICES ASSUME Typed, FdCore, DeviceInv, OneDevice, [Next]_vars
             PROVE  DeviceInv'
  OBVIOUS
<1>1. CASE UNCHANGED vars
  BY <1>1
  DEF DeviceInv, OpenerAlone, Recorded, Ker!Devices, vars, shared, kernel,
      locals
<1>2. ASSUME NEW t \in Threads, ThreadNext(t) PROVE DeviceInv'
  BY <1>2, DevicesFinite, OpenerStaysAlone, StaysRecorded, OneDeviceIsOne
  DEF DeviceInv
<1> QED
  BY <1>1, <1>2 DEF Next

\* A device the program can use has been recorded and is not being closed.
LEMMA UsableIsTraced == Typed /\ FdCore /\ DeviceInv => DeviceTraced
<1> SUFFICES ASSUME Typed, FdCore, DeviceInv, NEW f \in Fd, f # 0,
                    files[f] = "mali", Usable(f), mali_fd # f
             PROVE  FALSE
  BY DEF DeviceTraced
<1>1. PICK t \in Threads : pc[t] \in OpenPcs \cup {"close_sys"} /\ fd[t] = f
  BY DEF DeviceInv, Recorded
<1>2. CASE pc[t] \in OpenPcs
  BY <1>1, <1>2 DEF Usable, InCall, OpenPcs
<1>3. CASE pc[t] = "close_sys"
  BY <1>1, <1>3 DEF Usable, Closing, InCall, FdCore, CallInv, ClosePcs
<1> QED
  BY <1>1, <1>2, <1>3

(***************************************************************************)
(* A program that has at most one device open at a time has it traced,     *)
(* whatever its threads do: the descriptor is recorded before open()       *)
(* returns it and forgotten only when the device is being closed, although *)
(* close() reads mali_fd without the mutex.                                *)
(***************************************************************************)
THEOREM OneDeviceIsTraced == Spec => OneDeviceTraced
<1>1. Spec => [](Typed /\ FdCore)
  BY InvInit, TypedStep, FdCoreStep, PTL DEF Spec
<1>2. Spec => ([]OneDevice => []DeviceInv)
  BY <1>1, DeviceInit, DeviceStep, PTL DEF Spec
<1>3. Spec => ([]OneDevice => []DeviceTraced)
  BY <1>1, <1>2, UsableIsTraced, PTL
<1> QED
  BY <1>3 DEF OneDeviceTraced, OneDevice

-----------------------------------------------------------------------------
(* The calls in progress.                                                  *)

\* Calls that change the device's memory are never passed on untraced.
TracedCall(t) ==
  /\ pc[t] = "ioctl_pass" => op[t] = "other"
  /\ pc[t] = "mmap_pass" => va[t] = NullPtr
  /\ pc[t] \in {"mmap_check", "mmap_lock", "mmap_sys", "mmap_track"} =>
       IF va[t] = NullPtr
       THEN fd[t] = NoFd \/ files[fd[t]] = "other"
       ELSE fd[t] \in Fd /\ files[fd[t]] = "mali" /\ mali_fd = fd[t]

TracedCalls == \A t \in Threads : TracedCall(t)

\* The kernel's allocations are those of open devices.
AllocsOpen == \A k \in kalloc : files[k.fd] = "mali"

\* While a call on the traced device is in progress, nobody else makes
\* panwrap forget it or trace another.
LEMMA TracedStays ==
  ASSUME 0 \notin Fd, Typed, FdCore, OpenerAlone, AtMostOne,
         NEW w \in Threads, ThreadNext(w),
         NEW t \in Threads, t # w, pc[t] # "app",
         fd[t] \in Fd, files[fd[t]] = "mali", mali_fd = fd[t]
  PROVE  mali_fd' = mali_fd
<1> SUFFICES ASSUME mali_fd' # mali_fd PROVE FALSE
  OBVIOUS
<1>1. CASE CloseForget(w)
  <2>1. pc[w] = "close_body" /\ fd[w] = mali_fd
    BY <1>1 DEF CloseForget, Forget
  <2> QED
    BY <2>1 DEF FdCore, CloserAlone, ClosePcs
<1>2. CASE OpenRecord(w)
  <2>1. pc[w] = "open_body" /\ fd[w] # NoFd /\ op[w] = "mali"
        /\ mali_fd' = fd[w]
    BY <1>2 DEF OpenRecord, IsNewDevice
  <2>2. files[fd[w]] = "mali" /\ fd[w] \in Fd
    BY <2>1 DEF FdCore, CallInv, OpenPcs, Typed, TypeOK
  <2> QED
    BY <2>1, <2>2 DEF AtMostOne
<1>3. CASE ~CloseForget(w) /\ ~OpenRecord(w)
  BY <1>3, LibraryStep
  DEF ThreadNext, Call, UnlockedStep, LockedStep, Lock, shared, OpenSys, Close,
      CloseCheck, CloseSys, Ioctl, IoctlPass, IoctlSys, IoctlPost, Mmap,
      MmapCheck, MmapPass, MmapSys, MmapTrack, Munmap, MunmapSys,
      MunmapUntrack
<1> QED
  BY <1>1, <1>2, <1>3

\* The other threads' calls stay traced.
LEMMA OthersStayTraced ==
  ASSUME 0 \notin Fd, Typed, FdCore, OpenerAlone, AtMostOne,
         NEW w \in Threads, ThreadNext(w),
         NEW t \in Threads, t # w, TracedCall(t)
  PROVE  TracedCall(t)'
<1>1. /\ pc'[t] = pc[t] /\ fd'[t] = fd[t] /\ op'[t] = op[t]
      /\ va'[t] = va[t]
  BY OtherLocals
<1>2. CASE pc[t] = "app"
  BY <1>1, <1>2 DEF TracedCall
<1>3. CASE pc[t] # "app" /\ fd[t] = NoFd
  <2>1. NoFd \notin Fd
    BY FdAssumption DEF NoFd
  <2> QED
    BY <1>1, <1>3, <2>1 DEF TracedCall
<1>4. CASE pc[t] # "app" /\ fd[t] \in Fd
  <2>0. fd[t] # NoFd
    BY <1>4, FdAssumption DEF NoFd
  <2>1. files[fd[t]] \in {"mali", "other"}
    BY <1>4, <2>0 DEF FdCore, CallInv
  <2>2. files'[fd[t]] = files[fd[t]]
    BY <1>4, <2>1, FileStays
  <2>3. files[fd[t]] = "mali" /\ mali_fd = fd[t] => mali_fd' = mali_fd
    BY <1>4, TracedStays
  <2> QED
    BY <1>1, <1>4, <2>0, <2>2, <2>3 DEF TracedCall
<1> QED
  BY <1>2, <1>3, <1>4 DEF Typed, TypeOK

\* A call that starts, or goes on, is traced when it concerns the device.
LEMMA OwnStaysTraced ==
  ASSUME 0 \notin Fd, Typed, FdCore, DeviceInv, AllocsOpen,
         NEW t \in Threads, ThreadNext(t), TracedCall(t)
  PROVE  TracedCall(t)'
<1> USE DEF Typed, TypeOK, Goto, TracedCall
<1>1. \A f \in Fd : files[f] = "mali" /\ Usable(f) => mali_fd = f /\ f # 0
  BY UsableIsTraced DEF DeviceTraced
<1>2. ASSUME NEW f \in Fd, NEW request \in {"alloc", "free", "other"},
             NEW v \in Handles, Ioctl(t, f, request, v)
      PROVE  TracedCall(t)'
  <2>1. GoesToKernel(f) => request = "other"
    BY <1>1, <1>2 DEF Ioctl, Request, GoesToKernel, AllocsOpen
  <2> QED
    BY <1>2, <2>1 DEF Ioctl
<1>3. ASSUME NEW f \in Fd \cup {NoFd}, NEW v \in Handles, Mmap(t, f, v)
      PROVE  TracedCall(t)'
  <2>1. files' = files /\ mali_fd' = mali_fd /\ va'[t] = v /\ fd'[t] = f
        /\ pc'[t] = IF mali_fd = 0 THEN "mmap_pass" ELSE "mmap_check"
    BY <1>3 DEF Mmap, shared, kernel
  <2>2. CASE v = NullPtr
    BY <1>3, <2>1, <2>2 DEF Mmap
  <2>3. CASE v # NullPtr
    <3>1. f \in Fd /\ Usable(f) /\ files[f] = "mali"
      BY <1>3, <2>3 DEF Mmap, AllocsOpen
    <3> QED
      BY <1>1, <2>1, <2>3, <3>1
  <2> QED
    BY <2>2, <2>3
<1>4. CASE MmapCheck(t)
  BY <1>4 DEF MmapCheck, shared, kernel, locals
<1>5. CASE MmapSys(t)
  <2>1. files' = files
    BY <1>5, MmapKernelFiles DEF MmapSys
  <2> QED
    BY <1>5, <2>1 DEF MmapSys, shared
<1>6. CASE Lock(t)
  BY <1>6 DEF Lock, AtLock, kernel, locals
<1>7. CASE Library(t)
  <2>1. \A f \in Fd : files[f] \in {"mali", "other"} => files'[f] = files[f]
    BY <1>7, LibraryStep DEF Ker!KOpen, Ker!KClose, Ker!KTypeOK
  <2>2. /\ pc' = pc /\ op' = op /\ va' = va /\ fd' = fd /\ mali_fd' = mali_fd
        /\ fd[t] \in Fd \cup {NoFd}
    BY <1>7, LibraryStep
  <2>3. files'[fd[t]] = "other" \/ fd[t] \notin Fd \/ files[fd[t]] # "other"
    BY <2>1
  <2>4. files'[fd[t]] = "mali" \/ fd[t] \notin Fd \/ files[fd[t]] # "mali"
    BY <2>1
  <2>5. NoFd \notin Fd
    BY FdAssumption DEF NoFd
  <2> QED
    BY <2>2, <2>3, <2>4, <2>5, SMTT(30)
<1>8. CASE \/ \E path \in {"mali", "other"} : OpenSys(t, path)
           \/ \E f \in Fd : Close(t, f)
           \/ \E a \in Addrs : Munmap(t, a)
  BY <1>8 DEF OpenSys, Close, Munmap
<1>9. CASE CloseCheck(t) \/ CloseSys(t) \/ IoctlPass(t) \/ MmapPass(t)
  BY <1>9 DEF CloseCheck, CloseSys, IoctlPass, MmapPass, Return
<1>10. CASE OpenRecord(t) \/ CloseForget(t) \/ IoctlSys(t) \/ IoctlPost(t)
  BY <1>10 DEF OpenRecord, CloseForget, IoctlSys, IoctlPost, Return
<1>11. CASE MmapTrack(t) \/ MunmapSys(t) \/ MunmapUntrack(t)
  BY <1>11 DEF MmapTrack, MunmapSys, MunmapUntrack, Return
<1> QED
  BY <1>2, <1>3, <1>4, <1>5, <1>6, <1>7, <1>8, <1>9, <1>10, <1>11
  DEF ThreadNext, Call, UnlockedStep, LockedStep

LEMMA TracedStep ==
  ASSUME 0 \notin Fd, Typed, FdCore, DeviceInv, AtMostOne, AllocsOpen,
         TracedCalls, NEW t \in Threads, ThreadNext(t)
  PROVE  TracedCalls'
BY OthersStayTraced, OwnStaysTraced DEF TracedCalls, DeviceInv

-----------------------------------------------------------------------------
(* The memory of the device, as the kernel has it.                         *)

LiveOpen == \A m \in gmaps : m.live => files[m.fd] = "mali"

AllocsDiffer ==
  \A k1, k2 \in kalloc : k1.fd = k2.fd /\ k1.va = k2.va => k1 = k2

PendingHandles == \A k \in kalloc : ~k.mapped => k.va \in GpuVas \cup Cookies

\* A SAME_VA allocation lasts no longer than its mapping.
SameVaMapped ==
  \A k \in kalloc : k.va \in Addrs => \E m \in gmaps : m.addr = k.va

AddrsDiffer == \A m1, m2 \in gmaps : m1.addr = m2.addr => m1 = m2

KernelInv ==
  /\ AllocsOpen /\ LiveOpen /\ AllocsDiffer /\ PendingHandles
  /\ SameVaMapped /\ AddrsDiffer

-----------------------------------------------------------------------------
(* The memory of the device, as the tracker has it.                        *)

\* Where a thread is between a kernel call and the record of it.
Recording == {"ioctl_post", "mmap_track", "munmap_untrack"}

Posting(t, v) == pc[t] = "ioctl_post" /\ op[t] = "alloc" /\ va[t] = v
NewlyMapped(t, a) == pc[t] = "mmap_track" /\ addr[t] = a
Unmapping(t, a) == pc[t] = "munmap_untrack" /\ addr[t] = a

KindKept ==
  \A i \in 1..Len(allocations) :
    allocations[i].same_va = (allocations[i].gpu_va \in Cookies)

Pending(v) == \E i \in 1..Len(allocations) : allocations[i].gpu_va = v

Found(a, v) == \E i \in 1..Len(mmaps) : mmaps[i].addr = a /\ mmaps[i].gpu_va = v

PendingKept ==
  \A k \in kalloc :
    ~k.mapped => Pending(k.va) \/ \E t \in Threads : Posting(t, k.va)

EntriesDiffer ==
  \A i, j \in 1..Len(mmaps) : mmaps[i].addr = mmaps[j].addr => i = j

EntriesCurrent ==
  \A i \in 1..Len(mmaps) :
    \/ \E m \in gmaps : m.addr = mmaps[i].addr /\ m.va = mmaps[i].gpu_va
    \/ \E t \in Threads : Unmapping(t, mmaps[i].addr)

MappingsKept ==
  \A m \in gmaps :
    m.first => Found(m.addr, m.va) \/ \E t \in Threads : NewlyMapped(t, m.addr)

\* The mapping about to be recorded.
ToRecord ==
  \A t \in Threads :
    pc[t] = "mmap_track" =>
      /\ \E m \in gmaps :
           /\ m.addr = addr[t] /\ m.fd = fd[t] /\ m.live
           /\ m.va = IF va[t] \in Cookies THEN addr[t] ELSE va[t]
           /\ m.first => Pending(va[t])
      /\ \A i \in 1..Len(mmaps) : mmaps[i].addr # addr[t]
      /\ \A k \in kalloc : k.va = va[t] => k.mapped

\* The mapping about to be forgotten is gone.
ToForget ==
  \A t \in Threads :
    pc[t] = "munmap_untrack" => \A m \in gmaps : m.addr # addr[t]

\* An entry in front of the one of a live mapping that has the same GPU
\* address is a live mapping of the same allocation.
NewestFirst ==
  \A m \in gmaps : m.live /\ m.first =>
    \A i \in 1..Len(mmaps) : mmaps[i].addr = m.addr =>
      \A j \in 1..i : mmaps[j].gpu_va = m.va =>
        \/ \E n \in gmaps : /\ n.live /\ n.fd = m.fd /\ n.va = m.va
                            /\ n.addr = mmaps[j].addr
        \/ \E t \in Threads : Unmapping(t, mmaps[j].addr)

TrackerInv ==
  /\ KindKept /\ PendingKept /\ EntriesDiffer /\ EntriesCurrent
  /\ MappingsKept /\ ToRecord /\ ToForget /\ NewestFirst

MemoryInv == TracedCalls /\ KernelInv /\ TrackerInv

-----------------------------------------------------------------------------
(* Steps that do not concern the device's memory.                          *)

Undisturbed ==
  /\ UNCHANGED <<allocations, mmaps, kalloc, gmaps>>
  /\ \A f \in Fd : files[f] = "mali" => files'[f] = "mali"
  /\ \A u \in Threads :
       pc[u] \in Recording \/ pc'[u] \in Recording =>
         /\ pc'[u] = pc[u] /\ fd'[u] = fd[u] /\ op'[u] = op[u]
         /\ va'[u] = va[u] /\ addr'[u] = addr[u]

LEMMA UndisturbedKeeps ==
  ASSUME Ker!KTypeOK, KernelInv, TrackerInv, Undisturbed
  PROVE  KernelInv' /\ TrackerInv'
<1> USE DEF Undisturbed, Recording
<1>1. KernelInv'
  BY DEF KernelInv, AllocsOpen, LiveOpen, AllocsDiffer, PendingHandles,
         SameVaMapped, AddrsDiffer, Ker!KTypeOK, Ker!GpuAlloc, Ker!GpuMap
<1>2. \A v : Pending(v)' = Pending(v)
  BY DEF Pending
<1>3. \A a, v : Found(a, v)' = Found(a, v)
  BY DEF Found
<1>4. \A v : \A t \in Threads : Posting(t, v) => Posting(t, v)'
  BY DEF Posting
<1>5. \A a : \A t \in Threads : NewlyMapped(t, a) => NewlyMapped(t, a)'
  BY DEF NewlyMapped
<1>6. \A a : \A t \in Threads : Unmapping(t, a) => Unmapping(t, a)'
  BY DEF Unmapping
<1>7. KindKept' /\ EntriesDiffer'
  BY DEF TrackerInv, KindKept, EntriesDiffer
<1>8. PendingKept'
  BY <1>2, <1>4 DEF TrackerInv, PendingKept
<1>9. EntriesCurrent'
  BY <1>6 DEF TrackerInv, EntriesCurrent
<1>10. MappingsKept'
  BY <1>3, <1>5 DEF TrackerInv, MappingsKept
<1>11. ToRecord'
  BY <1>2 DEF TrackerInv, ToRecord
<1>12. ToForget'
  BY DEF TrackerInv, ToForget
<1>13. NewestFirst'
  BY <1>6 DEF TrackerInv, NewestFirst
<1> QED
  BY <1>1, <1>7, <1>8, <1>9, <1>10, <1>11, <1>12, <1>13 DEF TrackerInv

\* What the thread itself does does not bring it to or from such a place.
LEMMA Elsewhere ==
  ASSUME Typed, FdCore, NEW t \in Threads, ThreadNext(t),
         pc[t] \notin Recording, pc'[t] \notin Recording,
         UNCHANGED <<allocations, mmaps, kalloc, gmaps>>,
         \A f \in Fd : files[f] = "mali" => files'[f] = "mali"
  PROVE  Undisturbed
BY OtherLocals DEF Undisturbed

\* Only one thread at a time is in a locked section.
LEMMA AloneInLock ==
  ASSUME Typed, FdCore, NEW t \in Threads, ThreadNext(t), pc[t] \in InLock,
         NEW u \in Threads, u # t
  PROVE  pc[u] \notin Recording /\ pc'[u] \notin Recording
BY OtherLocals DEF FdCore, LockInv, InLock, Recording

\* Closing a file that is not the device changes nothing of its memory.
LEMMA KCloseOther ==
  ASSUME Ker!KTypeOK, AllocsOpen, LiveOpen,
         NEW f \in Fd, files[f] # "mali", Ker!KClose(f)
  PROVE  kalloc' = kalloc /\ gmaps' = gmaps
<1>1. kalloc' = kalloc
  BY DEF Ker!KClose, AllocsOpen
<1>2. ASSUME NEW m \in gmaps
      PROVE  (IF m.fd = f THEN [m EXCEPT !.live = FALSE] ELSE m) = m
  <2>1. m \in Ker!GpuMap /\ (m.fd = f => m.live = FALSE)
    BY DEF LiveOpen, Ker!KTypeOK, Ker!GpuMap
  <2> QED
    BY <2>1 DEF Ker!GpuMap
<1>3. gmaps' = {IF m.fd = f THEN [m EXCEPT !.live = FALSE] ELSE m : m \in gmaps}
  BY DEF Ker!KClose
<1> QED
  BY <1>1, <1>2, <1>3

\* Only close() takes the device away.
LEMMA DevicesStay ==
  ASSUME Typed, FdCore, NEW t \in Threads, ThreadNext(t), ~CloseSys(t)
  PROVE  \A f \in Fd : files[f] = "mali" => files'[f] = "mali"
BY FilesStep DEF Typed, TypeOK, Ker!KTypeOK

\* Calls that change nothing of the device's memory.
LEMMA OtherCallsKeep ==
  ASSUME Typed, FdCore, MemoryInv, NEW t \in Threads, ThreadNext(t),
         \/ \E path \in {"mali", "other"} : OpenSys(t, path)
         \/ \E f \in Fd : Close(t, f)
         \/ \E f \in Fd, request \in {"alloc", "free", "other"},
               v \in Handles : Ioctl(t, f, request, v)
         \/ \E f \in Fd \cup {NoFd}, v \in Handles : Mmap(t, f, v)
         \/ \E a \in Addrs : Munmap(t, a)
         \/ OpenRecord(t) \/ CloseForget(t) \/ CloseCheck(t) \/ IoctlPass(t)
         \/ MmapCheck(t) \/ MmapPass(t) \/ Lock(t)
  PROVE  KernelInv' /\ TrackerInv'
<1> USE DEF Typed, TypeOK, Goto, Recording, tracker, kernel
<1>1. /\ UNCHANGED <<allocations, mmaps, kalloc, gmaps>>
      /\ pc[t] \notin Recording /\ pc'[t] \notin Recording /\ pc[t] # "close_sys"
  <2>1. CASE \E path \in {"mali", "other"} : OpenSys(t, path)
    BY <2>1 DEF OpenSys, Ker!KOpen
  <2>2. CASE \/ \E f \in Fd : Close(t, f)
             \/ \E f \in Fd, request \in {"alloc", "free", "other"},
                   v \in Handles : Ioctl(t, f, request, v)
             \/ \E f \in Fd \cup {NoFd}, v \in Handles : Mmap(t, f, v)
             \/ \E a \in Addrs : Munmap(t, a)
    <3>1. CASE \E f \in Fd : Close(t, f)
      BY <3>1 DEF Close
    <3>2. CASE \E f \in Fd, request \in {"alloc", "free", "other"},
                v \in Handles : Ioctl(t, f, request, v)
      BY <3>2 DEF Ioctl
    <3>3. CASE \E f \in Fd \cup {NoFd}, v \in Handles : Mmap(t, f, v)
      BY <3>3 DEF Mmap
    <3>4. CASE \E a \in Addrs : Munmap(t, a)
      BY <3>4 DEF Munmap
    <3> QED
      BY <2>2, <3>1, <3>2, <3>3, <3>4
  <2>3. CASE OpenRecord(t) \/ CloseForget(t) \/ CloseCheck(t) \/ MmapCheck(t)
    BY <2>3 DEF OpenRecord, CloseForget, CloseCheck, MmapCheck, Return
  <2>4. CASE IoctlPass(t)
    BY <2>4
    DEF IoctlPass, Return, IoctlKernel, MemoryInv, TracedCalls, TracedCall
  <2>5. CASE MmapPass(t)
    BY <2>5
    DEF MmapPass, Return, MmapKernel, Ker!KMmapOther, MemoryInv, TracedCalls,
        TracedCall
  <2>6. CASE Lock(t)
    BY <2>6 DEF Lock, AtLock
  <2> QED
    BY <2>1, <2>2, <2>3, <2>4, <2>5, <2>6
<1>2. ~CloseSys(t)
  BY <1>1 DEF CloseSys
<1>3. Undisturbed
  BY <1>1, <1>2, DevicesStay, Elsewhere
<1> QED
  BY <1>3, UndisturbedKeeps DEF MemoryInv

\* What system libraries do for themselves.
LEMMA LibraryKeeps ==
  ASSUME Typed, FdCore, MemoryInv, NEW t \in Threads, ThreadNext(t), Library(t)
  PROVE  KernelInv' /\ TrackerInv'
<1>1. PICK f \in Fd : /\ files[f] \in {"none", "lib"}
                      /\ Ker!KOpen(f, "lib") \/ Ker!KClose(f)
  BY LibraryStep
<1>2. kalloc' = kalloc /\ gmaps' = gmaps
  BY <1>1, KCloseOther
  DEF Ker!KOpen, MemoryInv, KernelInv, Typed, TypeOK
<1>3. \A g \in Fd : files[g] = "mali" => files'[g] = "mali"
  BY <1>1 DEF Ker!KOpen, Ker!KClose, Typed, TypeOK, Ker!KTypeOK
<1>4. Undisturbed
  BY <1>2, <1>3, LibraryStep DEF Undisturbed
<1> QED
  BY <1>4, UndisturbedKeeps DEF MemoryInv, Typed, TypeOK

-----------------------------------------------------------------------------
(* Closing the device and freeing memory.                                  *)

Same(n, m) ==
  n.addr = m.addr /\ n.va = m.va /\ n.fd = m.fd /\ n.first = m.first

\* The mappings are what they were, but some no longer have their allocation.
SomeDie ==
  /\ \A n \in gmaps' : \E m \in gmaps : Same(n, m) /\ (n.live => m.live)
  /\ \A m \in gmaps : \E n \in gmaps' : Same(n, m)

LEMMA KCloseMaps ==
  ASSUME Ker!KTypeOK, AddrsDiffer, NEW f, Ker!KClose(f)
  PROVE  /\ SomeDie /\ AddrsDiffer'
         /\ \A n \in gmaps' : n.fd = f => ~n.live
<1> DEFINE Kill(m) == IF m.fd = f THEN [m EXCEPT !.live = FALSE] ELSE m
<1>1. ASSUME NEW m \in gmaps
      PROVE  /\ Same(Kill(m), m) /\ (Kill(m).live => m.live)
             /\ Kill(m).fd = f => ~Kill(m).live
  BY DEF Same, Ker!KTypeOK, Ker!GpuMap
<1>2. gmaps' = {Kill(m) : m \in gmaps}
  BY DEF Ker!KClose
<1> HIDE DEF Kill
<1>3. SomeDie
  BY <1>1, <1>2 DEF SomeDie
<1>4. AddrsDiffer'
  BY <1>1, <1>2 DEF AddrsDiffer, Same
<1> QED
  BY <1>1, <1>2, <1>3, <1>4

LEMMA KFreeMaps ==
  ASSUME Ker!KTypeOK, AddrsDiffer, NEW f, NEW v, Ker!KFree(f, v)
  PROVE  /\ SomeDie /\ AddrsDiffer'
         /\ \A n \in gmaps' : n.fd = f /\ n.va = v => ~n.live
         /\ \A m \in gmaps : m.live /\ ~(m.fd = f /\ m.va = v) => m \in gmaps'
<1> DEFINE Kill(m) == IF m.fd = f /\ m.va = v THEN [m EXCEPT !.live = FALSE]
                      ELSE m
<1>1. ASSUME NEW m \in gmaps
      PROVE  /\ Same(Kill(m), m) /\ (Kill(m).live => m.live)
             /\ Kill(m).fd = f /\ Kill(m).va = v => ~Kill(m).live
             /\ ~(m.fd = f /\ m.va = v) => Kill(m) = m
  BY DEF Same, Ker!KTypeOK, Ker!GpuMap
<1>2. gmaps' = {Kill(m) : m \in gmaps}
  BY DEF Ker!KFree
<1> HIDE DEF Kill
<1>3. SomeDie
  BY <1>1, <1>2 DEF SomeDie
<1>4. AddrsDiffer'
  BY <1>1, <1>2 DEF AddrsDiffer, Same
<1> QED
  BY <1>1, <1>2, <1>3, <1>4

\* What the tracker has of mappings does not depend on their allocations.
LEMMA DeadMappingsKept ==
  ASSUME TrackerInv, SomeDie, UNCHANGED mmaps,
         \A a : \A u \in Threads : NewlyMapped(u, a) => NewlyMapped(u, a)',
         \A a : \A u \in Threads : Unmapping(u, a) => Unmapping(u, a)'
  PROVE  EntriesDiffer' /\ EntriesCurrent' /\ MappingsKept'
<1>1. EntriesDiffer'
  BY DEF TrackerInv, EntriesDiffer
<1>2. EntriesCurrent'
  BY DEF TrackerInv, EntriesCurrent, SomeDie, Same
<1>3. MappingsKept'
  <2>1. ASSUME NEW n \in gmaps', n.first
        PROVE  Found(n.addr, n.va)' \/ \E u \in Threads : NewlyMapped(u, n.addr)'
    <3>1. PICK m \in gmaps : Same(n, m)
      BY DEF SomeDie
    <3>2. Found(m.addr, m.va) \/ \E u \in Threads : NewlyMapped(u, m.addr)
      BY <2>1, <3>1 DEF TrackerInv, MappingsKept, Same
    <3>3. n.addr = m.addr /\ n.va = m.va
      BY <3>1 DEF Same
    <3> QED
      BY <3>2, <3>3 DEF Found
  <2> QED
    BY <2>1 DEF MappingsKept
<1> QED
  BY <1>1, <1>2, <1>3

\* close() of the device: all of its memory is gone, its mappings stay.
LEMMA CloseSysKeeps ==
  ASSUME Typed, FdCore, AtMostOne, MemoryInv,
         NEW t \in Threads, ThreadNext(t), CloseSys(t)
  PROVE  KernelInv' /\ TrackerInv'
<1> USE DEF Typed, TypeOK, MemoryInv, KernelInv
<1>1. /\ pc[t] = "close_sys" /\ pc'[t] = "app" /\ Ker!KClose(fd[t])
      /\ allocations' = allocations /\ mmaps' = mmaps
  BY DEF CloseSys, Return, Goto, tracker
<1>2. fd[t] \in Fd
  BY <1>1 DEF FdCore, CallInv, ClosePcs
<1>3. CASE files[fd[t]] # "mali"
  <2>1. kalloc' = kalloc /\ gmaps' = gmaps
    BY <1>1, <1>2, <1>3, KCloseOther
  <2>2. \A g \in Fd : files[g] = "mali" => files'[g] = "mali"
    BY <1>1, <1>2, <1>3 DEF Ker!KClose, Ker!KTypeOK
  <2> QED
    BY <1>1, <2>1, <2>2, Elsewhere, UndisturbedKeeps DEF Recording
<1>4. CASE files[fd[t]] = "mali"
  <2>1. \A k \in kalloc : k.fd = fd[t]
    BY <1>2, <1>4 DEF AllocsOpen, AtMostOne, Ker!KTypeOK, Ker!GpuAlloc
  <2>2. kalloc' = {}
    BY <1>1, <2>1 DEF Ker!KClose
  <2>3. SomeDie /\ AddrsDiffer' /\ \A n \in gmaps' : n.fd = fd[t] => ~n.live
    BY <1>1, KCloseMaps
  <2>4. \A n \in gmaps' : ~n.live
    <3>1. ASSUME NEW n \in gmaps', n.live PROVE FALSE
      <4>1. PICK m \in gmaps : Same(n, m) /\ m.live
        BY <2>3, <3>1 DEF SomeDie
      <4>2. m.fd = fd[t]
        BY <1>2, <1>4, <4>1 DEF LiveOpen, AtMostOne, Ker!KTypeOK, Ker!GpuMap
      <4> QED
        BY <2>3, <3>1, <4>1, <4>2 DEF Same
    <3> QED
      BY <3>1
  <2>5. KernelInv'
    BY <2>2, <2>3, <2>4
    DEF AllocsOpen, LiveOpen, AllocsDiffer, PendingHandles, SameVaMapped
  <2>6. \A u \in Threads :
          /\ u # t => /\ pc'[u] = pc[u] /\ fd'[u] = fd[u]
                      /\ addr'[u] = addr[u]
          /\ pc[u] # "mmap_track"
    <3>1. ASSUME NEW u \in Threads, pc[u] = "mmap_track" PROVE FALSE
      <4>1. PICK m \in gmaps : m.fd = fd[u] /\ m.live
        BY <3>1 DEF TrackerInv, ToRecord
      <4>2. fd[u] = fd[t]
        BY <1>2, <1>4, <4>1 DEF LiveOpen, AtMostOne, Ker!KTypeOK, Ker!GpuMap
      <4> QED
        BY <1>1, <3>1, <4>2 DEF FdCore, CloserAlone, ClosePcs
    <3> QED
      BY <3>1, OtherLocals
  <2>7. \A a : \A u \in Threads : /\ ~NewlyMapped(u, a)
                                  /\ Unmapping(u, a) => Unmapping(u, a)'
    BY <1>1, <2>6 DEF NewlyMapped, Unmapping
  <2>8. KindKept' /\ PendingKept'
    BY <1>1, <2>2 DEF TrackerInv, KindKept, PendingKept
  <2>9. EntriesDiffer' /\ EntriesCurrent' /\ MappingsKept'
    BY <1>1, <2>3, <2>7, DeadMappingsKept
  <2>10. ToRecord'
    BY <1>1, <2>6 DEF ToRecord
  <2>11. ToForget'
    BY <1>1, <2>3, <2>6 DEF TrackerInv, ToForget, SomeDie, Same
  <2>12. NewestFirst'
    BY <2>4 DEF NewestFirst
  <2> QED
    BY <2>5, <2>8, <2>9, <2>10, <2>11, <2>12 DEF TrackerInv
<1> QED
  BY <1>3, <1>4

\* The kernel's part of ioctl(): an allocation is on its way to the list of
\* pending ones, a freed one leaves its entries behind.
LEMMA IoctlSysKeeps ==
  ASSUME 0 \notin Fd, Typed, FdCore, MemoryInv,
         NEW t \in Threads, ThreadNext(t), IoctlSys(t)
  PROVE  KernelInv' /\ TrackerInv'
<1> USE DEF Typed, TypeOK, MemoryInv, KernelInv
<1>1. PICK v \in Handles : IoctlKernel(t, v) /\ va' = [va EXCEPT ![t] = v]
  BY DEF IoctlSys
<1>2. /\ pc[t] = "ioctl_sys" /\ pc' = [pc EXCEPT ![t] = "ioctl_post"]
      /\ UNCHANGED <<allocations, mmaps, fd, op, addr>> /\ va'[t] = v
  BY <1>1 DEF IoctlSys, Goto, tracker
<1>3. fd[t] \in Fd /\ files[fd[t]] = "mali" /\ files' = files
  BY <1>1, <1>2, IoctlKernelFiles DEF FdCore, ChosenIsDevice, Traced, ArgInv
<1>4. \A u \in Threads : pc[u] \notin Recording
  BY <1>2, AloneInLock DEF InLock, Recording
<1>5. \A u \in Threads : u # t => pc'[u] \notin Recording
  BY <1>2, AloneInLock DEF InLock
<1>6. /\ \A v1 : Pending(v1)' = Pending(v1)
      /\ \A a, v1 : Found(a, v1)' = Found(a, v1)
      /\ \A k \in kalloc : ~k.mapped => Pending(k.va)
      /\ \A a : \A u \in Threads : ~NewlyMapped(u, a) /\ ~Unmapping(u, a)
  BY <1>2, <1>4
  DEF Pending, Found, TrackerInv, PendingKept, Posting, NewlyMapped, Unmapping,
      Recording
<1>7. KindKept' /\ EntriesDiffer' /\ ToRecord' /\ ToForget'
  BY <1>2, <1>5
  DEF TrackerInv, KindKept, EntriesDiffer, ToRecord, ToForget, Recording
<1>8. CASE UNCHANGED kernel
  <2>1. kalloc' = kalloc /\ gmaps' = gmaps
    BY <1>8 DEF kernel
  <2>2. KernelInv'
    BY <1>3, <2>1
    DEF AllocsOpen, LiveOpen, AllocsDiffer, PendingHandles, SameVaMapped,
        AddrsDiffer
  <2>3. PendingKept'
    BY <1>6, <2>1 DEF PendingKept
  <2>4. EntriesCurrent' /\ MappingsKept'
    BY <1>2, <1>6, <2>1 DEF TrackerInv, EntriesCurrent, MappingsKept
  <2>5. NewestFirst'
    BY <1>2, <1>6, <2>1 DEF TrackerInv, NewestFirst
  <2> QED
    BY <1>7, <2>2, <2>3, <2>4, <2>5 DEF TrackerInv
<1>9. CASE op[t] = "alloc" /\ v \in GpuVas \cup Cookies /\ Ker!KAlloc(fd[t], v)
  <2> DEFINE k0 == [fd |-> fd[t], va |-> v, mapped |-> FALSE]
  <2>1. /\ kalloc' = kalloc \cup {k0} /\ gmaps' = gmaps
        /\ \A k \in kalloc : k.fd = fd[t] => k.va # v
    BY <1>9 DEF Ker!KAlloc
  <2>2. k0.fd = fd[t] /\ k0.va = v /\ k0.mapped = FALSE
    OBVIOUS
  <2> HIDE DEF k0
  <2>3. KernelInv'
    BY <1>3, <1>9, <2>1, <2>2, HandleAssumption
    DEF AllocsOpen, LiveOpen, AllocsDiffer, PendingHandles, SameVaMapped,
        AddrsDiffer
  <2>4. Posting(t, v)'
    BY <1>2, <1>9 DEF Posting
  <2>5. PendingKept'
    BY <1>6, <2>1, <2>2, <2>4 DEF PendingKept
  <2>6. EntriesCurrent' /\ MappingsKept'
    BY <1>2, <1>6, <2>1 DEF TrackerInv, EntriesCurrent, MappingsKept
  <2>7. NewestFirst'
    BY <1>2, <1>6, <2>1 DEF TrackerInv, NewestFirst
  <2> QED
    BY <1>7, <2>3, <2>5, <2>6, <2>7 DEF TrackerInv
<1>10. CASE op[t] = "free" /\ Ker!KFree(fd[t], v)
  <2>1. kalloc' \subseteq kalloc
    BY <1>10 DEF Ker!KFree
  <2>2. /\ SomeDie /\ AddrsDiffer'
        /\ \A n \in gmaps' : n.fd = fd[t] /\ n.va = v => ~n.live
        /\ \A m \in gmaps :
             m.live /\ ~(m.fd = fd[t] /\ m.va = v) => m \in gmaps'
    BY <1>10, KFreeMaps
  <2>3. AllocsOpen' /\ LiveOpen' /\ AllocsDiffer' /\ PendingHandles'
    BY <1>3, <2>1, <2>2
    DEF AllocsOpen, LiveOpen, AllocsDiffer, PendingHandles, SomeDie, Same
  <2>4. SameVaMapped'
    BY <2>1, <2>2 DEF SameVaMapped, SomeDie, Same
  <2>5. PendingKept'
    BY <1>6, <2>1 DEF PendingKept
  <2>6. EntriesCurrent' /\ MappingsKept'
    BY <1>2, <1>6, <2>2, DeadMappingsKept
  <2>7. NewestFirst'
    <3>1. ASSUME NEW n \in gmaps', n.live, n.first,
                 NEW i \in 1..Len(mmaps), mmaps[i].addr = n.addr,
                 NEW j \in 1..i, mmaps[j].gpu_va = n.va
          PROVE  \E n2 \in gmaps' : /\ n2.live /\ n2.fd = n.fd /\ n2.va = n.va
                                    /\ n2.addr = mmaps[j].addr
      <4>1. PICK m \in gmaps : Same(n, m) /\ m.live
        BY <2>2, <3>1 DEF SomeDie
      <4>2. PICK n2 \in gmaps : /\ n2.live /\ n2.fd = m.fd /\ n2.va = m.va
                                /\ n2.addr = mmaps[j].addr
        BY <1>6, <3>1, <4>1 DEF TrackerInv, NewestFirst, Same
      <4>3. ~(n2.fd = fd[t] /\ n2.va = v)
        BY <2>2, <3>1, <4>1, <4>2 DEF Same
      <4> QED
        BY <2>2, <4>1, <4>2, <4>3 DEF Same
    <3> QED
      BY <1>2, <3>1 DEF NewestFirst
  <2> QED
    BY <1>7, <2>2, <2>3, <2>4, <2>5, <2>6, <2>7 DEF TrackerInv
<1> QED
  BY <1>1, <1>8, <1>9, <1>10 DEF IoctlKernel

\* The record of an allocation.
LEMMA IoctlPostKeeps ==
  ASSUME Typed, FdCore, MemoryInv,
         NEW t \in Threads, ThreadNext(t), IoctlPost(t)
  PROVE  KernelInv' /\ TrackerInv'
<1> USE DEF Typed, TypeOK, MemoryInv, KernelInv
<1>1. /\ pc[t] = "ioctl_post" /\ pc'[t] = "app"
      /\ UNCHANGED <<files, kalloc, gmaps>>
  BY DEF IoctlPost, Return, Goto, kernel
<1>2. \A u \in Threads : pc'[u] \notin Recording
                         /\ (u # t => pc[u] \notin Recording)
  BY <1>1, AloneInLock DEF InLock, Recording
<1>3. KernelInv'
  BY <1>1
  DEF AllocsOpen, LiveOpen, AllocsDiffer, PendingHandles, SameVaMapped,
      AddrsDiffer
<1>4. mmaps' = mmaps
  BY DEF IoctlPost, DecodePost, TrackAllocation, tracker
<1>5. \A a : \A u \in Threads : ~NewlyMapped(u, a) /\ ~Unmapping(u, a)
  BY <1>1, <1>2 DEF NewlyMapped, Unmapping, Recording
<1>6. EntriesDiffer' /\ ToRecord' /\ ToForget'
  BY <1>2, <1>4 DEF TrackerInv, EntriesDiffer, ToRecord, ToForget, Recording
<1>7. EntriesCurrent'
  BY <1>1, <1>4, <1>5 DEF TrackerInv, EntriesCurrent
<1>8. MappingsKept'
  BY <1>1, <1>4, <1>5 DEF TrackerInv, MappingsKept, Found
<1>9. NewestFirst'
  BY <1>1, <1>4, <1>5 DEF TrackerInv, NewestFirst
<1>10. KindKept' /\ \A v : Pending(v) \/ Posting(t, v) => Pending(v)'
  <2>1. CASE op[t] # "alloc"
    BY <2>1
    DEF IoctlPost, DecodePost, TrackAllocation, tracker, TrackerInv, KindKept,
        Pending, Posting
  <2>2. CASE op[t] = "alloc"
    <3>1. PICK e \in Allocation : e = [gpu_va |-> va[t],
                                       same_va |-> va[t] \in Cookies]
      <4>1. va[t] \in Handles /\ (va[t] \in Cookies) \in BOOLEAN
        OBVIOUS
      <4> QED
        BY <4>1 DEF Allocation
    <3>2. e.gpu_va = va[t] /\ e.same_va = (va[t] \in Cookies)
      BY <3>1
    <3>3. allocations' = Cons(e, allocations)
      BY <2>2, <3>1 DEF IoctlPost, DecodePost, TrackAllocation, AddEntry
    <3>4. /\ 1 \in 1..Len(allocations') /\ allocations'[1] = e
          /\ \A i \in 1..Len(allocations') :
               \/ i = 1
               \/ /\ i - 1 \in 1..Len(allocations)
                  /\ allocations'[i] = allocations[i - 1]
          /\ \A j \in 1..Len(allocations) :
               /\ j + 1 \in 1..Len(allocations')
               /\ allocations'[j + 1] = allocations[j]
      <4>1. allocations \in Seq(Allocation)
        BY DEF TrackerTypeOK
      <4>2. Added(allocations, e, allocations')
        BY <3>3, <4>1, EntriesAdded
      <4> QED
        BY <4>2 DEF Added
    <3>5. KindKept'
      BY <3>2, <3>4 DEF TrackerInv, KindKept
    <3>6. ASSUME NEW v, Pending(v) \/ Posting(t, v)
          PROVE  Pending(v)'
      BY <3>2, <3>4, <3>6 DEF Pending, Posting
    <3> QED
      BY <3>5, <3>6
  <2> QED
    BY <2>1, <2>2
<1>11. PendingKept'
  <2>1. ASSUME NEW k \in kalloc', ~k.mapped PROVE Pending(k.va)'
    <3>1. Pending(k.va) \/ \E u \in Threads : Posting(u, k.va)
      BY <1>1, <2>1 DEF TrackerInv, PendingKept
    <3>2. \A u \in Threads : Posting(u, k.va) => u = t
      BY <1>2 DEF Posting, Recording
    <3> QED
      BY <1>10, <3>1, <3>2
  <2> QED
    BY <2>1 DEF PendingKept
<1> QED
  BY <1>3, <1>6, <1>7, <1>8, <1>9, <1>10, <1>11 DEF TrackerInv

-----------------------------------------------------------------------------
(* Mapping memory.                                                         *)

\* The kernel's part of mmap(): the mapping is new, its allocation is pending
\* when this is the first mapping, and of no other allocation of its address.
LEMMA MmapSysKeeps ==
  ASSUME 0 \notin Fd, MmapMayFail = FALSE, Typed, FdCore, AtMostOne, MemoryInv,
         NEW t \in Threads, ThreadNext(t), MmapSys(t)
  PROVE  KernelInv' /\ TrackerInv'
<1> USE DEF Typed, TypeOK, MemoryInv, KernelInv
<1>1. /\ pc[t] = "mmap_sys" /\ pc' = [pc EXCEPT ![t] = "mmap_track"]
      /\ UNCHANGED <<allocations, mmaps, fd, op, va>>
  BY DEF MmapSys, Goto, tracker
<1>2. fd[t] \in Fd /\ files[fd[t]] = "mali" /\ va[t] # NullPtr
  BY <1>1, FdAssumption
  DEF FdCore, ChosenIsDevice, Traced, TracedCalls, TracedCall, NoFd
<1>3. PICK a \in Addrs :
        /\ a \in Ker!FreeAddrs /\ Ker!KMmapGpu(fd[t], va[t], a)
        /\ addr' = [addr EXCEPT ![t] = a]
  BY <1>2, FdAssumption DEF MmapSys, MmapKernel, Ker!FreeAddrs
<1> DEFINE v == IF va[t] \in Cookies THEN a ELSE va[t]
<1>4. PICK k0 \in kalloc :
        /\ k0.fd = fd[t] /\ k0.va = va[t]
        /\ kalloc' = (kalloc \ {k0})
                       \cup {[fd |-> fd[t], va |-> v, mapped |-> TRUE]}
        /\ gmaps' = gmaps \cup {[fd |-> fd[t], va |-> v, addr |-> a,
                                 first |-> ~k0.mapped, live |-> TRUE]}
        /\ UNCHANGED <<files, omaps>>
  BY <1>3 DEF Ker!KMmapGpu
<1> DEFINE k1 == [fd |-> fd[t], va |-> v, mapped |-> TRUE]
           m1 == [fd |-> fd[t], va |-> v, addr |-> a,
                  first |-> ~k0.mapped, live |-> TRUE]
<1>5. /\ k1.fd = fd[t] /\ k1.va = v /\ k1.mapped
      /\ kalloc' = (kalloc \ {k0}) \cup {k1}
  BY <1>4
<1>6. /\ m1.fd = fd[t] /\ m1.va = v /\ m1.addr = a /\ m1.live
      /\ m1.first => ~k0.mapped
      /\ gmaps' = gmaps \cup {m1}
  BY <1>4
<1> HIDE DEF k1, m1
<1>7. va[t] \in GpuVas \cup Cookies /\ (va[t] \notin Cookies => v = va[t])
      /\ (va[t] \in Cookies => v = a) /\ (v \in Addrs => v = a)
  BY <1>2, HandleAssumption DEF Handles
<1> HIDE DEF v
<1>8. \A m \in gmaps : m.addr # a
  BY <1>3 DEF Ker!FreeAddrs
<1>9. \A k \in kalloc : k.fd = fd[t]
  BY <1>2 DEF AllocsOpen, AtMostOne, Ker!KTypeOK, Ker!GpuAlloc
<1>10. \A k \in kalloc : k.va = va[t] => k = k0
  BY <1>4, <1>9 DEF AllocsDiffer
<1>11. \A k \in kalloc : k # k0 => k.va # v
  BY <1>3, <1>7, <1>8, <1>10 DEF SameVaMapped
<1>12. KernelInv'
  <2>1. AllocsOpen' /\ LiveOpen'
    BY <1>2, <1>4, <1>5, <1>6 DEF AllocsOpen, LiveOpen
  <2>2. AllocsDiffer' /\ PendingHandles'
    BY <1>5, <1>11 DEF AllocsDiffer, PendingHandles
  <2>3. SameVaMapped'
    BY <1>5, <1>6, <1>7 DEF SameVaMapped
  <2>4. AddrsDiffer'
    BY <1>6, <1>8 DEF AddrsDiffer
  <2> QED
    BY <2>1, <2>2, <2>3, <2>4
<1>13. /\ \A u \in Threads : pc[u] \notin Recording
       /\ \A u \in Threads : u # t => pc'[u] \notin Recording
  BY <1>1, AloneInLock DEF InLock, Recording
<1>14. /\ \A v1 : Pending(v1)' = Pending(v1)
       /\ \A a1, v1 : Found(a1, v1)' = Found(a1, v1)
       /\ \A k \in kalloc : ~k.mapped => Pending(k.va)
       /\ \A a1 : \A u \in Threads : ~NewlyMapped(u, a1) /\ ~Unmapping(u, a1)
  BY <1>1, <1>13
  DEF Pending, Found, TrackerInv, PendingKept, Posting, NewlyMapped, Unmapping,
      Recording
<1>15. KindKept' /\ EntriesDiffer'
  BY <1>1 DEF TrackerInv, KindKept, EntriesDiffer
<1>16. PendingKept'
  BY <1>5, <1>14 DEF PendingKept
<1>17. EntriesCurrent'
  BY <1>1, <1>6, <1>14 DEF TrackerInv, EntriesCurrent
<1>18. MappingsKept'
  <2>1. NewlyMapped(t, a)'
    BY <1>1, <1>3 DEF NewlyMapped
  <2> QED
    BY <1>6, <1>14, <2>1 DEF TrackerInv, MappingsKept
<1>19. \A i \in 1..Len(mmaps) : mmaps[i].addr # a
  BY <1>8, <1>14 DEF TrackerInv, EntriesCurrent
<1>20. ToRecord'
  <2>1. SUFFICES /\ \E m \in gmaps' :
                      /\ m.addr = a /\ m.fd = fd[t] /\ m.live
                      /\ m.va = v
                      /\ m.first => Pending(va[t])
                 /\ \A i \in 1..Len(mmaps) : mmaps[i].addr # a
                 /\ \A k \in kalloc' : k.va = va[t] => k.mapped
    <3>1. addr'[t] = a /\ v = IF va[t] \in Cookies THEN addr'[t] ELSE va[t]
      BY <1>3 DEF v
    <3> QED
      BY <1>1, <1>13, <1>14, <3>1 DEF ToRecord, Recording
  <2>2. m1.first => Pending(va[t])
    BY <1>4, <1>6, <1>14
  <2> QED
    BY <1>5, <1>6, <1>10, <1>19, <2>2
<1>21. ToForget'
  BY <1>1, <1>13 DEF ToForget, Recording
<1>22. NewestFirst'
  BY <1>1, <1>6, <1>14, <1>19 DEF TrackerInv, NewestFirst
<1> QED
  BY <1>12, <1>15, <1>16, <1>17, <1>18, <1>20, <1>21, <1>22 DEF TrackerInv

\* The record of a mapping.
LEMMA MmapTrackKeeps ==
  ASSUME Typed, FdCore, AtMostOne, MemoryInv,
         NEW t \in Threads, ThreadNext(t), MmapTrack(t)
  PROVE  KernelInv' /\ TrackerInv'
<1> USE DEF MemoryInv, KernelInv
<1>1. /\ pc[t] = "mmap_track" /\ pc'[t] = "app" /\ TrackMmap(va[t], addr[t])
      /\ UNCHANGED <<files, kalloc, gmaps>>
  BY DEF MmapTrack, Return, Goto, kernel, Typed, TypeOK
<1>2. \A u \in Threads : pc'[u] \notin Recording
                         /\ (u # t => pc[u] \notin Recording)
  BY <1>1, AloneInLock DEF InLock, Recording
<1>3. KernelInv'
  BY <1>1
  DEF AllocsOpen, LiveOpen, AllocsDiffer, PendingHandles, SameVaMapped,
      AddrsDiffer
<1>4. ToRecord' /\ ToForget'
  BY <1>2 DEF ToRecord, ToForget, Recording
<1>5. PICK m0 \in gmaps :
        /\ m0.addr = addr[t] /\ m0.fd = fd[t] /\ m0.live
        /\ m0.va = IF va[t] \in Cookies THEN addr[t] ELSE va[t]
        /\ m0.first => Pending(va[t])
  BY <1>1 DEF TrackerInv, ToRecord
<1>6. /\ \A i \in 1..Len(mmaps) : mmaps[i].addr # addr[t]
      /\ \A k \in kalloc : k.va = va[t] => k.mapped
  BY <1>1 DEF TrackerInv, ToRecord
<1>7. /\ \A v : \A u \in Threads : ~Posting(u, v)
      /\ \A a : \A u \in Threads : ~Unmapping(u, a)
      /\ \A a : \A u \in Threads : NewlyMapped(u, a) => a = addr[t]
  BY <1>1, <1>2 DEF Posting, Unmapping, NewlyMapped, Recording
<1>8. \A m \in gmaps : m.addr = addr[t] => m = m0
  BY <1>5 DEF AddrsDiffer
<1>9. /\ TrackerTypeOK /\ Ker!KTypeOK /\ va[t] \in Handles
      /\ addr[t] \in Addrs \cup {MapFailed}
  BY <1>1 DEF Typed, TypeOK, ArgInv
<1> DEFINE i0 == PendingIndex(va[t])
<1>10. CASE i0 = 0
  <2>1. UNCHANGED <<allocations, mmaps>>
    BY <1>1, <1>10 DEF TrackMmap, tracker
  <2>2. ~Pending(va[t])
    BY <1>9, <1>10, PendingIndexFirst DEF Pending
  <2>3. KindKept' /\ EntriesDiffer'
    BY <2>1 DEF TrackerInv, KindKept, EntriesDiffer
  <2>4. PendingKept'
    BY <1>1, <1>7, <2>1 DEF TrackerInv, PendingKept, Pending
  <2>5. EntriesCurrent'
    BY <1>1, <1>7, <2>1 DEF TrackerInv, EntriesCurrent
  <2>6. MappingsKept'
    <3>1. \A m \in gmaps : m.first => m.addr # addr[t]
      BY <1>5, <1>8, <2>2
    <3> QED
      BY <1>1, <1>7, <2>1, <3>1 DEF TrackerInv, MappingsKept, Found
  <2>7. NewestFirst'
    BY <1>1, <1>7, <2>1 DEF TrackerInv, NewestFirst
  <2> QED
    BY <1>3, <1>4, <2>3, <2>4, <2>5, <2>6, <2>7 DEF TrackerInv
<1>11. CASE i0 # 0
  <2>1. i0 \in 1..Len(allocations) /\ allocations[i0].gpu_va = va[t]
    BY <1>9, <1>11, PendingIndexFirst, LenProperties DEF TrackerTypeOK
  <2>2. PICK e \in Mapping :
          e = [gpu_va |-> IF allocations[i0].same_va THEN addr[t] ELSE va[t],
               addr |-> addr[t]]
    <3>1. (IF allocations[i0].same_va THEN addr[t] ELSE va[t])
            \in Handles \cup Addrs \cup {MapFailed}
      BY <1>9
    <3> QED
      BY <1>9, <3>1 DEF Mapping
  <2>3. /\ mmaps' = Cons(e, mmaps)
        /\ allocations' = RemoveAt(allocations, i0)
    BY <1>1, <1>11, <2>2 DEF TrackMmap, AddEntry
  <2>4. e.addr = addr[t] /\ e.gpu_va = m0.va
    BY <1>5, <2>1, <2>2 DEF TrackerInv, KindKept
  <2> HIDE DEF i0
  <2>5. /\ Len(mmaps) \in Nat
        /\ 1 \in 1..Len(mmaps') /\ mmaps'[1] = e
        /\ \A i \in 1..Len(mmaps') :
             i = 1 \/ (i - 1 \in 1..Len(mmaps) /\ mmaps'[i] = mmaps[i - 1])
        /\ \A j \in 1..Len(mmaps) :
             j + 1 \in 1..Len(mmaps') /\ mmaps'[j + 1] = mmaps[j]
    <3>1. mmaps \in Seq(Mapping)
      BY <1>9 DEF TrackerTypeOK
    <3>2. Added(mmaps, e, mmaps')
      BY <2>3, <3>1, EntriesAdded
    <3> QED
      BY <3>2 DEF Added
  <2>6. /\ \A i \in 1..Len(allocations') :
             \E j \in 1..Len(allocations) : allocations'[i] = allocations[j]
        /\ \A j \in 1..Len(allocations) :
             j # i0 => \E i \in 1..Len(allocations') :
                         allocations'[i] = allocations[j]
    <3>1. allocations \in Seq(Allocation)
      BY <1>9 DEF TrackerTypeOK
    <3>2. Left(allocations, i0, allocations')
      BY <2>1, <2>3, <3>1, EntriesLeft
    <3> QED
      BY <3>2 DEF Left
  <2>7. KindKept'
    BY <2>6 DEF TrackerInv, KindKept
  <2>8. PendingKept'
    <3>1. ASSUME NEW k \in kalloc, ~k.mapped PROVE Pending(k.va)'
      <4>1. k.va # va[t]
        BY <1>6, <3>1
      <4>2. PICK j \in 1..Len(allocations) : allocations[j].gpu_va = k.va
        BY <1>7, <3>1 DEF TrackerInv, PendingKept, Pending
      <4> QED
        BY <2>1, <2>6, <4>1, <4>2 DEF Pending
    <3> QED
      BY <1>1, <3>1 DEF PendingKept
  <2>9. EntriesDiffer'
    <3>1. ASSUME NEW i \in 1..Len(mmaps'), NEW j \in 1..Len(mmaps'),
                 mmaps'[i].addr = mmaps'[j].addr
          PROVE  i = j
      <4>1. /\ i = 1 \/ (i - 1 \in 1..Len(mmaps) /\ mmaps'[i] = mmaps[i - 1])
            /\ j = 1 \/ (j - 1 \in 1..Len(mmaps) /\ mmaps'[j] = mmaps[j - 1])
        BY <2>5
      <4>2. CASE i = 1 \/ j = 1
        <5>1. i # 1 => mmaps'[i].addr # addr[t]
          BY <1>6, <4>1
        <5>2. j # 1 => mmaps'[j].addr # addr[t]
          BY <1>6, <4>1
        <5> QED
          BY <2>4, <2>5, <3>1, <4>2, <5>1, <5>2
      <4>3. CASE i # 1 /\ j # 1
        <5>1. i - 1 = j - 1
          BY <3>1, <4>1, <4>3 DEF TrackerInv, EntriesDiffer
        <5> QED
          BY <5>1
      <4> QED
        BY <4>2, <4>3
    <3> QED
      BY <3>1 DEF EntriesDiffer
  <2>10. EntriesCurrent'
    <3>1. ASSUME NEW i \in 1..Len(mmaps')
          PROVE  \E m \in gmaps :
                   m.addr = mmaps'[i].addr /\ m.va = mmaps'[i].gpu_va
      <4>1. CASE i = 1
        BY <1>5, <2>4, <2>5, <4>1
      <4>2. CASE i # 1
        <5>1. i - 1 \in 1..Len(mmaps) /\ mmaps'[i] = mmaps[i - 1]
          BY <2>5, <4>2
        <5> QED
          BY <1>7, <5>1 DEF TrackerInv, EntriesCurrent
      <4> QED
        BY <4>1, <4>2
    <3> QED
      BY <1>1, <3>1 DEF EntriesCurrent
  <2>11. MappingsKept'
    <3>1. ASSUME NEW m \in gmaps, m.first PROVE Found(m.addr, m.va)'
      <4>1. CASE m = m0
        BY <1>5, <2>4, <2>5, <4>1 DEF Found
      <4>2. CASE m # m0
        <5>1. Found(m.addr, m.va)
          BY <1>7, <1>8, <3>1, <4>2 DEF TrackerInv, MappingsKept
        <5>2. PICK i \in 1..Len(mmaps) :
                mmaps[i].addr = m.addr /\ mmaps[i].gpu_va = m.va
          BY <5>1 DEF Found
        <5>3. i + 1 \in 1..Len(mmaps') /\ mmaps'[i + 1] = mmaps[i]
          BY <2>5
        <5> QED
          BY <5>2, <5>3 DEF Found
      <4> QED
        BY <4>1, <4>2
    <3> QED
      BY <1>1, <3>1 DEF MappingsKept
  <2>12. NewestFirst'
    <3>1. ASSUME NEW m \in gmaps, m.live, m.first,
                 NEW i \in 1..Len(mmaps'), mmaps'[i].addr = m.addr,
                 NEW j \in 1..i, mmaps'[j].gpu_va = m.va
          PROVE  \E n \in gmaps : /\ n.live /\ n.fd = m.fd /\ n.va = m.va
                                  /\ n.addr = mmaps'[j].addr
      <4>1. CASE j = 1
        <5>1. m.fd = m0.fd
          BY <1>5, <1>9, <3>1 DEF LiveOpen, AtMostOne, Ker!KTypeOK, Ker!GpuMap
        <5> QED
          BY <1>5, <2>4, <2>5, <3>1, <4>1, <5>1
      <4>2. CASE j # 1
        <5>1. /\ i - 1 \in 1..Len(mmaps) /\ mmaps'[i] = mmaps[i - 1]
              /\ j - 1 \in 1..i - 1 /\ mmaps'[j] = mmaps[j - 1]
          <6>1. i \in Int /\ j \in Int /\ i # 1 /\ j <= i /\ 1 <= j
            BY <4>2
          <6>2. i - 1 \in 1..Len(mmaps) /\ mmaps'[i] = mmaps[i - 1]
            BY <2>5, <6>1
          <6>3. j \in 1..Len(mmaps')
            BY <6>1, LenProperties, <2>5
          <6> QED
            BY <2>5, <4>2, <6>1, <6>2, <6>3
        <5>2. /\ mmaps[i - 1].addr = m.addr /\ mmaps[j - 1].gpu_va = m.va
              /\ \A u \in Threads : ~Unmapping(u, mmaps[j - 1].addr)
          BY <1>7, <3>1, <5>1
        <5>3. \E n \in gmaps : /\ n.live /\ n.fd = m.fd /\ n.va = m.va
                               /\ n.addr = mmaps[j - 1].addr
          BY <3>1, <5>1, <5>2 DEF TrackerInv, NewestFirst
        <5> QED
          BY <5>1, <5>3
      <4> QED
        BY <4>1, <4>2
    <3> QED
      BY <1>1, <3>1 DEF NewestFirst
  <2> QED
    BY <1>3, <1>4, <2>7, <2>8, <2>9, <2>10, <2>11, <2>12 DEF TrackerInv
<1> QED
  BY <1>10, <1>11

-----------------------------------------------------------------------------
(* Unmapping memory.                                                       *)

\* The kernel's part of munmap(): the entry of the mapping is left behind.
LEMMA MunmapSysKeeps ==
  ASSUME Typed, FdCore, MemoryInv,
         NEW t \in Threads, ThreadNext(t), MunmapSys(t)
  PROVE  KernelInv' /\ TrackerInv'
<1> USE DEF MemoryInv, KernelInv
<1>1. /\ pc[t] = "munmap_sys" /\ pc'[t] = "munmap_untrack"
      /\ UNCHANGED <<allocations, mmaps, fd, op, va, addr, files>>
      /\ kalloc' = {k \in kalloc : k.va # addr[t]}
      /\ gmaps' = {m \in gmaps : m.addr # addr[t]}
  BY DEF MunmapSys, Ker!KMunmap, Goto, locals, tracker, Typed, TypeOK
<1>2. /\ \A u \in Threads : pc[u] \notin Recording
      /\ \A u \in Threads : u # t => pc'[u] \notin Recording
  BY <1>1, AloneInLock DEF InLock, Recording
<1>3. KernelInv'
  BY <1>1
  DEF AllocsOpen, LiveOpen, AllocsDiffer, PendingHandles, SameVaMapped,
      AddrsDiffer
<1>4. /\ \A v : \A u \in Threads : ~Posting(u, v)
      /\ \A a : \A u \in Threads : ~NewlyMapped(u, a) /\ ~Unmapping(u, a)
      /\ Unmapping(t, addr[t])'
  BY <1>1, <1>2 DEF Posting, NewlyMapped, Unmapping, Recording
<1>5. KindKept' /\ EntriesDiffer' /\ ToRecord' /\ ToForget'
  BY <1>1, <1>2
  DEF TrackerInv, KindKept, EntriesDiffer, ToRecord, ToForget, Recording
<1>6. PendingKept'
  BY <1>1, <1>4 DEF TrackerInv, PendingKept, Pending
<1>7. EntriesCurrent'
  BY <1>1, <1>4 DEF TrackerInv, EntriesCurrent
<1>8. MappingsKept'
  BY <1>1, <1>4 DEF TrackerInv, MappingsKept, Found
<1>9. NewestFirst'
  BY <1>1, <1>4 DEF TrackerInv, NewestFirst
<1> QED
  BY <1>3, <1>5, <1>6, <1>7, <1>8, <1>9 DEF TrackerInv

\* The entry is removed.
LEMMA MunmapUntrackKeeps ==
  ASSUME Typed, FdCore, MemoryInv,
         NEW t \in Threads, ThreadNext(t), MunmapUntrack(t)
  PROVE  KernelInv' /\ TrackerInv'
<1> USE DEF MemoryInv, KernelInv
<1>1. /\ pc[t] = "munmap_untrack" /\ TrackMunmap(addr[t])
      /\ pc'[t] = "app" /\ allocations' = allocations
      /\ UNCHANGED <<files, kalloc, gmaps>>
  BY DEF MunmapUntrack, TrackMunmap, Return, Goto, kernel, Typed, TypeOK
<1>2. \A u \in Threads : pc'[u] \notin Recording
                         /\ (u # t => pc[u] \notin Recording)
  BY <1>1, AloneInLock DEF InLock, Recording
<1>3. KernelInv'
  BY <1>1
  DEF AllocsOpen, LiveOpen, AllocsDiffer, PendingHandles, SameVaMapped,
      AddrsDiffer
<1>4. /\ \A v : \A u \in Threads : ~Posting(u, v)
      /\ \A a : \A u \in Threads : ~NewlyMapped(u, a)
      /\ \A a : \A u \in Threads : Unmapping(u, a) => a = addr[t]
      /\ \A m \in gmaps : m.addr # addr[t]
  BY <1>1, <1>2
  DEF Posting, NewlyMapped, Unmapping, Recording, TrackerInv, ToForget
<1>5. KindKept' /\ ToRecord' /\ ToForget'
  BY <1>1, <1>2 DEF TrackerInv, KindKept, ToRecord, ToForget, Recording
<1>6. PendingKept'
  BY <1>1, <1>4 DEF TrackerInv, PendingKept, Pending
<1>7. TrackerTypeOK
  BY DEF Typed, TypeOK
<1> DEFINE k == MappedIndex(addr[t])
<1>8. CASE k = 0
  <2>1. mmaps' = mmaps
    BY <1>1, <1>8 DEF TrackMunmap
  <2>2. \A i \in 1..Len(mmaps) : mmaps[i].addr # addr[t]
    BY <1>7, <1>8, MappedIndexFirst
  <2>3. EntriesDiffer'
    BY <2>1 DEF TrackerInv, EntriesDiffer
  <2>4. EntriesCurrent'
    BY <1>1, <1>4, <2>1, <2>2 DEF TrackerInv, EntriesCurrent
  <2>5. MappingsKept'
    BY <1>1, <1>4, <2>1 DEF TrackerInv, MappingsKept, Found
  <2>6. NewestFirst'
    <3>1. ASSUME NEW m \in gmaps, m.live, m.first,
                 NEW i \in 1..Len(mmaps), mmaps[i].addr = m.addr,
                 NEW j \in 1..i, mmaps[j].gpu_va = m.va
          PROVE  \E n \in gmaps : /\ n.live /\ n.fd = m.fd /\ n.va = m.va
                                  /\ n.addr = mmaps[j].addr
      <4>1. j \in 1..Len(mmaps)
        BY <1>7, LenProperties DEF TrackerTypeOK
      <4>2. \A u \in Threads : ~Unmapping(u, mmaps[j].addr)
        BY <1>4, <2>2, <4>1
      <4> QED
        BY <3>1, <4>2 DEF TrackerInv, NewestFirst
    <3> QED
      BY <1>1, <2>1, <3>1 DEF NewestFirst
  <2> QED
    BY <1>3, <1>5, <1>6, <2>3, <2>4, <2>5, <2>6 DEF TrackerInv
<1>9. CASE k # 0
  <2>1. k \in 1..Len(mmaps) /\ mmaps[k].addr = addr[t] /\ Len(mmaps) \in Nat
        /\ mmaps \in Seq(Mapping)
    BY <1>7, <1>9, MappedIndexFirst, LenProperties DEF TrackerTypeOK
  <2>2. mmaps' = RemoveAt(mmaps, k)
    BY <1>1, <1>9 DEF TrackMunmap
  <2> HIDE DEF k
  <2> DEFINE old(i) == IF i < k THEN i ELSE i + 1
  <2>3. /\ Len(mmaps') \in Nat
        /\ \A i \in 1..Len(mmaps') :
             LET m == IF i < k THEN i ELSE i + 1
             IN m \in 1..Len(mmaps) /\ m # k /\ mmaps'[i] = mmaps[m]
        /\ \A m \in 1..Len(mmaps) :
             m # k => \E i \in 1..Len(mmaps') : mmaps'[i] = mmaps[m]
    <3>1. mmaps \in Seq(Mapping) /\ k \in 1..Len(mmaps)
      BY <2>1
    <3>2. Left(mmaps, k, mmaps')
      BY <2>2, <3>1, EntriesLeft
    <3> QED
      BY <3>2 DEF Left
  <2>4. ASSUME NEW i \in 1..Len(mmaps')
        PROVE  /\ old(i) \in 1..Len(mmaps) /\ old(i) # k
               /\ mmaps'[i] = mmaps[old(i)]
               /\ mmaps[old(i)].addr # addr[t]
    <3>1. /\ old(i) \in 1..Len(mmaps) /\ old(i) # k
          /\ mmaps'[i] = mmaps[old(i)]
      BY <2>3
    <3> HIDE DEF old
    <3> QED
      BY <2>1, <3>1 DEF TrackerInv, EntriesDiffer
  <2>5. \A i, j \in 1..Len(mmaps') :
          /\ i <= j => old(i) <= old(j)
          /\ old(i) = old(j) => i = j
    BY <2>1
  <2> HIDE DEF old
  <2>6. EntriesDiffer'
    BY <2>4, <2>5 DEF TrackerInv, EntriesDiffer
  <2>7. EntriesCurrent'
    <3>1. ASSUME NEW i \in 1..Len(mmaps')
          PROVE  \E m \in gmaps :
                   m.addr = mmaps'[i].addr /\ m.va = mmaps'[i].gpu_va
      BY <1>4, <2>4 DEF TrackerInv, EntriesCurrent
    <3> QED
      BY <1>1, <3>1 DEF EntriesCurrent
  <2>8. MappingsKept'
    <3>1. ASSUME NEW m \in gmaps, m.first PROVE Found(m.addr, m.va)'
      <4>1. PICK i \in 1..Len(mmaps) :
              mmaps[i].addr = m.addr /\ mmaps[i].gpu_va = m.va
        BY <1>4, <3>1 DEF TrackerInv, MappingsKept, Found
      <4>2. i # k
        BY <1>4, <2>1, <4>1
      <4> QED
        BY <2>3, <4>1, <4>2 DEF Found
    <3> QED
      BY <1>1, <3>1 DEF MappingsKept
  <2>9. NewestFirst'
    <3>1. ASSUME NEW m \in gmaps, m.live, m.first,
                 NEW i \in 1..Len(mmaps'), mmaps'[i].addr = m.addr,
                 NEW j \in 1..i, mmaps'[j].gpu_va = m.va
          PROVE  \E n \in gmaps : /\ n.live /\ n.fd = m.fd /\ n.va = m.va
                                  /\ n.addr = mmaps'[j].addr
      <4>1. j \in 1..Len(mmaps') /\ j <= i
        BY <2>3
      <4>2. /\ old(i) \in 1..Len(mmaps) /\ mmaps'[i] = mmaps[old(i)]
            /\ old(j) \in 1..Len(mmaps) /\ mmaps'[j] = mmaps[old(j)]
            /\ mmaps[old(j)].addr # addr[t] /\ old(j) <= old(i)
        BY <2>4, <2>5, <4>1
      <4>3. \A u \in Threads : ~Unmapping(u, mmaps[old(j)].addr)
        BY <1>4, <4>2
      <4>4. old(j) \in 1..old(i)
        BY <4>2
      <4>5. \E n \in gmaps : /\ n.live /\ n.fd = m.fd /\ n.va = m.va
                             /\ n.addr = mmaps[old(j)].addr
        BY <3>1, <4>2, <4>3, <4>4 DEF TrackerInv, NewestFirst
      <4> QED
        BY <4>2, <4>5
    <3> QED
      BY <1>1, <3>1 DEF NewestFirst
  <2> QED
    BY <1>3, <1>5, <1>6, <2>6, <2>7, <2>8, <2>9 DEF TrackerInv
<1> QED
  BY <1>8, <1>9

-----------------------------------------------------------------------------
(* The theorems.                                                           *)

\* The record of the device's memory is kept right by every step.
LEMMA MemoryStep ==
  ASSUME 0 \notin Fd, MmapMayFail = FALSE
  PROVE  Typed /\ FdCore /\ DeviceInv /\ OneDevice /\ MemoryInv /\ [Next]_vars
           => MemoryInv'
<1> SUFFICES ASSUME Typed, FdCore, DeviceInv, OneDevice, MemoryInv, [Next]_vars
             PROVE  MemoryInv'
  OBVIOUS
<1>1. AtMostOne
  BY OneDeviceIsOne
<1>2. CASE UNCHANGED vars
  <2>1. UNCHANGED <<mali_fd, files, pc, fd, op, va, addr>> /\ Undisturbed
    BY <1>2 DEF vars, shared, tracker, kernel, locals, Undisturbed
  <2>2. TracedCalls'
    BY <2>1 DEF MemoryInv, TracedCalls, TracedCall
  <2> QED
    BY <2>1, <2>2, UndisturbedKeeps DEF MemoryInv, Typed, TypeOK
<1>3. ASSUME NEW t \in Threads, ThreadNext(t)
      PROVE  MemoryInv'
  <2>1. TracedCalls'
    BY <1>1, <1>3, TracedStep DEF MemoryInv, KernelInv
  <2>2. KernelInv' /\ TrackerInv'
    <3>1. CASE Call(t) \/ Lock(t)
      BY <1>3, <3>1, OtherCallsKeep DEF Call
    <3>2. CASE UnlockedStep(t)
      BY <1>1, <1>3, <3>2, OtherCallsKeep, CloseSysKeeps DEF UnlockedStep
    <3>3. CASE LockedStep(t)
      BY <1>1, <1>3, <3>3, OtherCallsKeep, IoctlSysKeeps, IoctlPostKeeps,
         MmapSysKeeps, MmapTrackKeeps, MunmapSysKeeps, MunmapUntrackKeeps
      DEF LockedStep
    <3>4. CASE Library(t)
      BY <1>3, <3>4, LibraryKeeps
    <3> QED
      BY <1>3, <3>1, <3>2, <3>3, <3>4 DEF ThreadNext
  <2> QED
    BY <2>1, <2>2 DEF MemoryInv
<1> QED
  BY <1>2, <1>3 DEF Next

LEMMA MemoryInit == Init => MemoryInv
<1> SUFFICES ASSUME Init PROVE MemoryInv
  OBVIOUS
<1>1. /\ \A t \in Threads : pc[t] = "app"
      /\ Len(allocations) = 0 /\ Len(mmaps) = 0 /\ kalloc = {} /\ gmaps = {}
  BY DEF Init, TrackerInit, Ker!KInit
<1>2. TracedCalls /\ KernelInv
  BY <1>1
  DEF TracedCalls, TracedCall, KernelInv, AllocsOpen, LiveOpen, AllocsDiffer,
      PendingHandles, SameVaMapped, AddrsDiffer
<1>3. TrackerInv
  BY <1>1
  DEF TrackerInv, KindKept, PendingKept, EntriesDiffer, EntriesCurrent,
      MappingsKept, ToRecord, ToForget, NewestFirst
<1> QED
  BY <1>2, <1>3 DEF MemoryInv

(***************************************************************************)
(* In a program with one device at a time, whose mappings of GPU memory    *)
(* the kernel does not refuse and whose standard input stays open: at      *)
(* every step the lists of the tracker are what the kernel has, up to the  *)
(* one call that is between its kernel call and the record of it.          *)
(***************************************************************************)
THEOREM MemoryInvariant ==
  ASSUME 0 \notin Fd, MmapMayFail = FALSE
  PROVE  Spec /\ []OneDevice => [](Typed /\ MemoryInv)
<1>1. Spec => [](Typed /\ FdCore)
  BY InvInit, TypedStep, FdCoreStep, PTL DEF Spec
<1>2. Spec /\ []OneDevice => []DeviceInv
  BY <1>1, DeviceInit, DeviceStep, PTL DEF Spec
<1> QED
  BY <1>1, <1>2, MemoryInit, MemoryStep, PTL DEF Spec

(***************************************************************************)
(* Every allocation nobody has mapped is on the list of pending ones, with *)
(* its kind, whatever was freed or closed in between.                      *)
(***************************************************************************)
THEOREM PendingIsTracked ==
  ASSUME 0 \notin Fd, MmapMayFail = FALSE
  PROVE  Spec /\ []OneDevice => []PendingTracked
<1>1. Typed /\ MemoryInv => PendingTracked
  <2> SUFFICES ASSUME Typed, MemoryInv, Quiet, NEW k \in kalloc, ~k.mapped
               PROVE  /\ PendingIndex(k.va) # 0
                      /\ allocations[PendingIndex(k.va)].same_va
                           = (k.va \in Cookies)
    BY DEF PendingTracked
  <2>1. Pending(k.va)
    BY DEF MemoryInv, TrackerInv, PendingKept, Posting, Quiet
  <2>2. TrackerTypeOK
    BY DEF Typed, TypeOK
  <2>3. PendingIndex(k.va) # 0
    BY <2>1, <2>2, PendingIndexFirst DEF Pending
  <2>4. /\ PendingIndex(k.va) \in 1..Len(allocations)
        /\ allocations[PendingIndex(k.va)].gpu_va = k.va
    BY <2>2, <2>3, PendingIndexFirst, LenProperties DEF TrackerTypeOK
  <2> QED
    BY <2>3, <2>4 DEF MemoryInv, TrackerInv, KindKept
<1> QED
  BY <1>1, MemoryInvariant, PTL

(***************************************************************************)
(* The first mapping of every allocation is found under its CPU address    *)
(* with its GPU address until it is unmapped.                              *)
(***************************************************************************)
THEOREM MappingsAreFound ==
  ASSUME 0 \notin Fd, MmapMayFail = FALSE
  PROVE  Spec /\ []OneDevice => []NoLostMapping
<1>1. Typed /\ MemoryInv => NoLostMapping
  <2> SUFFICES ASSUME Typed, MemoryInv, Quiet, NEW m \in gmaps, m.first
               PROVE  /\ MappedIndex(m.addr) # 0
                      /\ mmaps[MappedIndex(m.addr)].gpu_va = m.va
    BY DEF NoLostMapping
  <2>1. PICK i \in 1..Len(mmaps) :
          mmaps[i].addr = m.addr /\ mmaps[i].gpu_va = m.va
    BY DEF MemoryInv, TrackerInv, MappingsKept, NewlyMapped, Quiet, Found
  <2>2. TrackerTypeOK
    BY DEF Typed, TypeOK
  <2>3. MappedIndex(m.addr) # 0
    BY <2>1, <2>2, MappedIndexFirst
  <2>4. /\ MappedIndex(m.addr) \in 1..Len(mmaps)
        /\ mmaps[MappedIndex(m.addr)].addr = m.addr
    BY <2>2, <2>3, MappedIndexFirst, LenProperties DEF TrackerTypeOK
  <2> QED
    BY <2>1, <2>3, <2>4 DEF MemoryInv, TrackerInv, EntriesDiffer
<1> QED
  BY <1>1, MemoryInvariant, PTL

(***************************************************************************)
(* Every tracked mapping is one the process has, with the GPU address it   *)
(* has: the decoder never reads through an entry into memory that was      *)
(* unmapped, or mapped again for something else.                           *)
(***************************************************************************)
THEOREM EntriesAreMappings ==
  ASSUME 0 \notin Fd, MmapMayFail = FALSE
  PROVE  Spec /\ []OneDevice => []NoStaleMapping
<1>1. Typed /\ MemoryInv => NoStaleMapping
  <2> SUFFICES ASSUME Typed, MemoryInv, Quiet, NEW i \in DOMAIN mmaps
               PROVE  \E m \in gmaps :
                        m.addr = mmaps[i].addr /\ m.va = mmaps[i].gpu_va
    BY DEF NoStaleMapping
  <2>1. i \in 1..Len(mmaps)
    BY LenProperties DEF Typed, TypeOK, TrackerTypeOK
  <2> QED
    BY <2>1 DEF MemoryInv, TrackerInv, EntriesCurrent, Unmapping, Quiet
<1> QED
  BY <1>1, MemoryInvariant, PTL

(***************************************************************************)
(* Looking up the GPU address of a live mapping gives CPU memory of the    *)
(* allocation that has that address now: list_add() puts the newest entry  *)
(* first, so an older entry of a freed allocation is never reached.        *)
(***************************************************************************)
THEOREM LookupsAreCurrent ==
  ASSUME 0 \notin Fd, MmapMayFail = FALSE
  PROVE  Spec /\ []OneDevice => []LookupCurrent
<1>1. Typed /\ MemoryInv => LookupCurrent
  <2> SUFFICES ASSUME Typed, MemoryInv, Quiet,
                      NEW m \in gmaps, m.live, m.first
               PROVE  /\ GpuMappedIndex(m.va) # 0
                      /\ \E n \in gmaps :
                           /\ n.live /\ n.fd = m.fd /\ n.va = m.va
                           /\ n.addr = mmaps[GpuMappedIndex(m.va)].addr
    BY DEF LookupCurrent
  <2>1. PICK i \in 1..Len(mmaps) :
          mmaps[i].addr = m.addr /\ mmaps[i].gpu_va = m.va
    BY DEF MemoryInv, TrackerInv, MappingsKept, NewlyMapped, Quiet, Found
  <2>2. TrackerTypeOK /\ Len(mmaps) \in Nat
    BY LenProperties DEF Typed, TypeOK, TrackerTypeOK
  <2>3. /\ GpuMappedIndex(m.va) \in 1..i
        /\ mmaps[GpuMappedIndex(m.va)].gpu_va = m.va
    BY <2>1, <2>2, GpuMappedIndexFirst
  <2> QED
    BY <2>1, <2>2, <2>3
    DEF MemoryInv, TrackerInv, NewestFirst, Unmapping, Quiet
<1> QED
  BY <1>1, MemoryInvariant, PTL

=============================================================================
