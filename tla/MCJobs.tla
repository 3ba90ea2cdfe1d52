------------------------------- MODULE MCJobs -------------------------------
(***************************************************************************)
(* JobDecoder for TLC: pages of 4096 bytes in a small address space, and   *)
(* layouts of tracked memory.  SAME_VA memory has the same address for the *)
(* CPU and the GPU.                                                        *)
(***************************************************************************)
EXTENDS JobDecoder

SameVa(page, pages) ==
  [gpu_va |-> page * 4096, addr |-> page * 4096, length |-> pages * 4096]

\* Nothing, and two mappings with unmapped pages around them.
Apart == {<<>>, <<SameVa(5, 2), SameVa(2, 1)>>}

\* The newer mapping ends where the older one starts.
Adjacent == {<<SameVa(2, 1), SameVa(3, 1)>>}

\* Memory the CPU and the GPU have at different addresses.
Ordinary == {<<[gpu_va |-> 4096, addr |-> 8 * 4096, length |-> 4096]>>}

=============================================================================
