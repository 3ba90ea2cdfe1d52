---------------------------- MODULE PanwrapMmap ----------------------------
(***************************************************************************)
(* The GPU memory tracker of panwrap/panwrap-mmap.c.  It keeps two lists:  *)
(* "allocations", the GPU allocations the driver reported and nobody has   *)
(* mapped yet, and "mmaps", the GPU mappings of this process.  Every       *)
(* function here runs under the lock of panwrap-syscall.c, so one action   *)
(* is one whole function.                                                  *)
(*                                                                         *)
(* A list is a sequence whose first element is the one list_for_each_entry *)
(* visits first; list.h itself is the subject of PanwrapList.  Lengths,    *)
(* protections and the flags other than MALI_MEM_SAME_VA do not change     *)
(* which entry is found, added or removed and are left out.                *)
(***************************************************************************)
EXTENDS Integers, Sequences, SequencesExt

CONSTANTS
  GpuVas,    \* GPU addresses the driver gives to ordinary allocations
  Cookies,   \* handles it gives to MALI_MEM_SAME_VA allocations
  Addrs,     \* CPU addresses mmap() can return
  NullPtr,   \* the null pointer, also the gpu_va of a failed allocation
  MapFailed  \* what mmap() returns when it fails

\* The driver gives out ordinary addresses, handles and the CPU addresses of
\* SAME_VA memory from zones of their own.
ASSUME HandleAssumption ==
  /\ GpuVas \cap Cookies = {}
  /\ Addrs \cap (GpuVas \cup Cookies) = {}
  /\ NullPtr \notin GpuVas \cup Cookies \cup Addrs
  /\ MapFailed \notin Addrs

VARIABLES
  allocations,  \* list of panwrap_allocated_memory
  mmaps         \* list of panwrap_mapped_memory

tracker == <<allocations, mmaps>>

Handles == GpuVas \cup Cookies \cup {NullPtr}

\* struct panwrap_allocated_memory
Allocation == [gpu_va: Handles, same_va: BOOLEAN]

\* struct panwrap_mapped_memory
Mapping == [gpu_va: Handles \cup Addrs \cup {MapFailed},
            addr: Addrs \cup {MapFailed}]

\* A mutant: new entries go to the end of the list.
AddAtTail(entry, list) == Append(list, entry)

(***************************************************************************)
(* list_add() puts an entry right after the head, so the newest entry is   *)
(* the first one visited.                                                  *)
(***************************************************************************)
AddEntry(entry, list) == Cons(entry, list)

\* Where list_for_each_entry stops: 0 when no entry matches.
PendingIndex(gpu_va) ==
  SelectInSeq(allocations, LAMBDA entry : entry.gpu_va = gpu_va)

MappedIndex(addr) == SelectInSeq(mmaps, LAMBDA entry : entry.addr = addr)

GpuMappedIndex(gpu_va) == SelectInSeq(mmaps, LAMBDA entry : entry.gpu_va = gpu_va)

-----------------------------------------------------------------------------

TrackerInit == allocations = <<>> /\ mmaps = <<>>

TrackAllocation(gpu_va, same_va) ==
  /\ allocations' =
       AddEntry([gpu_va |-> gpu_va, same_va |-> same_va], allocations)
  /\ UNCHANGED mmaps

(***************************************************************************)
(* A mapping whose offset names a pending allocation becomes a tracked     *)
(* mapping and the allocation stops being pending.  The driver places      *)
(* SAME_VA memory at the address the CPU sees it at.  An offset nobody     *)
(* allocated is reported and not tracked.                                  *)
(***************************************************************************)
TrackMmap(gpu_va, addr) ==
  LET i == PendingIndex(gpu_va)
  IN \/ i = 0 /\ UNCHANGED tracker
     \/ /\ i # 0
        /\ mmaps' = AddEntry([gpu_va |-> IF allocations[i].same_va THEN addr
                                         ELSE gpu_va,
                              addr |-> addr], mmaps)
        /\ allocations' = RemoveAt(allocations, i)

\* A mutant: the lookup of munmap() picks an entry by the wrong key.
TrackMunmapWrongEntry(addr) ==
  /\ mmaps' = IF MappedIndex(addr) = 0 THEN mmaps ELSE Tail(mmaps)
  /\ UNCHANGED allocations

(***************************************************************************)
(* The tail of munmap(): the entry that starts at addr, if there is one,   *)
(* is unlinked and freed.  (panwrap_track_munmap() has the same effect and *)
(* no caller.)                                                             *)
(***************************************************************************)
TrackMunmap(addr) ==
  LET i == MappedIndex(addr)
  IN /\ UNCHANGED allocations
     /\ \/ i = 0 /\ UNCHANGED mmaps
        \/ i # 0 /\ mmaps' = RemoveAt(mmaps, i)

TrackerNext ==
  \/ \E gpu_va \in Handles, same_va \in BOOLEAN :
       TrackAllocation(gpu_va, same_va)
  \/ \E gpu_va \in Handles, addr \in Addrs \cup {MapFailed} :
       TrackMmap(gpu_va, addr)
  \/ \E addr \in Addrs : TrackMunmap(addr)

TrackerSpec == TrackerInit /\ [][TrackerNext]_tracker

TrackerTypeOK == allocations \in Seq(Allocation) /\ mmaps \in Seq(Mapping)

=============================================================================
