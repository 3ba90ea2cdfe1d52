----------------------------- MODULE MaliKernel -----------------------------
(***************************************************************************)
(* The kernel as panwrap's libc wrappers see it through orig_open,         *)
(* orig_close, orig_ioctl, orig_mmap and orig_munmap: the descriptor table *)
(* of the process, the GPU memory each open device has, and the mappings   *)
(* of the process.  It is not part of the repository; the operations are   *)
(* what panwrap-syscall.c, panwrap-mmap.c and the ioctl structures of      *)
(* mali-ioctl.h rely on.                                                   *)
(*                                                                         *)
(* An ordinary allocation is named by a GPU address, is mapped by passing  *)
(* that address as the offset of mmap(), can be mapped more than once and  *)
(* is freed by MEM_FREE.  A SAME_VA allocation is named by a cookie until  *)
(* its first mmap(), which gives it the CPU address as its GPU address and *)
(* makes the cookie available again; unmapping it frees it.                *)
(***************************************************************************)
EXTENDS Naturals, FiniteSets

CONSTANTS Fd, GpuVas, Cookies, Addrs

VARIABLES
  files,   \* what each descriptor of the process refers to
  kalloc,  \* the GPU allocations of the open devices
  gmaps,   \* mappings of GPU memory; "first" of its allocation or a remapping,
           \* "live" while that allocation exists
  omaps    \* addresses of the other mappings of the process

kvars == <<files, kalloc, gmaps, omaps>>

\* "lib" is a file a system library opened for itself.
FileKinds == {"none", "mali", "other", "lib"}

GpuAlloc == [fd: Fd, va: GpuVas \cup Cookies \cup Addrs, mapped: BOOLEAN]

GpuMap == [fd: Fd, va: GpuVas \cup Addrs, addr: Addrs,
           first: BOOLEAN, live: BOOLEAN]

KTypeOK ==
  /\ files \in [Fd -> FileKinds]
  /\ kalloc \subseteq GpuAlloc
  /\ gmaps \subseteq GpuMap
  /\ omaps \subseteq Addrs

\* Descriptor 0, when the model has it, is the standard input.
KInit ==
  /\ files = [f \in Fd |-> IF f = 0 THEN "other" ELSE "none"]
  /\ kalloc = {} /\ gmaps = {} /\ omaps = {}

Devices == {f \in Fd : files[f] = "mali"}

FreeAddrs == Addrs \ (omaps \cup {m.addr : m \in gmaps})

KOpen(f, kind) ==
  /\ files[f] = "none"
  /\ files' = [files EXCEPT ![f] = kind]
  /\ UNCHANGED <<kalloc, gmaps, omaps>>

\* The context of a closed device goes away, its mappings stay.
KClose(f) ==
  /\ files' = [files EXCEPT ![f] = "none"]
  /\ kalloc' = {k \in kalloc : k.fd # f}
  /\ gmaps' = {IF m.fd = f THEN [m EXCEPT !.live = FALSE] ELSE m : m \in gmaps}
  /\ UNCHANGED omaps

KAlloc(f, va) ==
  /\ \A k \in kalloc : k.fd = f => k.va # va
  /\ kalloc' = kalloc \cup {[fd |-> f, va |-> va, mapped |-> FALSE]}
  /\ UNCHANGED <<files, gmaps, omaps>>

KFree(f, va) ==
  /\ kalloc' = {k \in kalloc : k.fd # f \/ k.va # va}
  /\ gmaps' = {IF m.fd = f /\ m.va = va THEN [m EXCEPT !.live = FALSE] ELSE m
                 : m \in gmaps}
  /\ UNCHANGED <<files, omaps>>

KMmapGpu(f, va, a) ==
  LET va2 == IF va \in Cookies THEN a ELSE va
  IN \E k \in kalloc :
       /\ k.fd = f /\ k.va = va
       /\ kalloc' = (kalloc \ {k})
                      \cup {[fd |-> f, va |-> va2, mapped |-> TRUE]}
       /\ gmaps' = gmaps \cup {[fd |-> f, va |-> va2, addr |-> a,
                                first |-> ~k.mapped, live |-> TRUE]}
       /\ UNCHANGED <<files, omaps>>

KMmapOther(a) == omaps' = omaps \cup {a} /\ UNCHANGED <<files, kalloc, gmaps>>

KMunmap(a) ==
  /\ kalloc' = {k \in kalloc : k.va # a}
  /\ gmaps' = {m \in gmaps : m.addr # a}
  /\ omaps' = omaps \ {a}
  /\ UNCHANGED files

=============================================================================
