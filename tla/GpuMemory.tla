----------------------------- MODULE GpuMemory -----------------------------
(***************************************************************************)
(* How the decoder reads GPU memory (panwrap/panwrap-mmap.c and .h): a GPU *)
(* address is looked up in the list of tracked mappings, the access is     *)
(* checked against the mapping's length, and the GPU address is turned     *)
(* into a CPU address.  Addresses are numbers here and arithmetic on them  *)
(* wraps around at Space, 2^64 in the code.                                *)
(***************************************************************************)
EXTENDS Integers, Sequences, SequencesExt

CONSTANT Space

ASSUME SpaceAssumption == Space \in Nat \ {0}

Address == 0..Space - 1

\* struct panwrap_mapped_memory; no mapping goes around the end of a space.
Region ==
  {m \in [gpu_va: Address, addr: Address, length: Address] :
     m.gpu_va + m.length < Space /\ m.addr + m.length < Space}

Wrap(x) == x % Space

\* A mutant: the first byte of a mapping is not part of it.
IsContainedAfterStart(va, m) == va > m.gpu_va /\ va <= m.gpu_va + m.length

\* The test of panwrap_find_mapped_gpu_mem_containing().
IsContained(va, m) == va >= m.gpu_va /\ va <= m.gpu_va + m.length

\* The newest mapping that passes it, 0 when there is none.
ContainingIndex(maps, va) == SelectInSeq(maps, LAMBDA m : IsContained(va, m))

\* A mutant: only the start of the access is checked.
OutOfBoundsAtStart(m, va, size) == Wrap(va - m.gpu_va) > m.length

\* size + (gpu_va - mem->gpu_va) > mem->length, in unsigned arithmetic.
OutOfBounds(m, va, size) == Wrap(size + Wrap(va - m.gpu_va)) > m.length

\* gpu_va + (mem->gpu_va - mem->addr)
CpuAddress(m, va) == Wrap(va + (m.gpu_va - m.addr))

-----------------------------------------------------------------------------
(* What the lookups are for.                                               *)

\* The access lies in the mapping.
Inside(m, va, size) == m.gpu_va <= va /\ va + size <= m.gpu_va + m.length

\* The sum of the check goes around the end of the address space.
SumWraps(m, va, size) == size + (va - m.gpu_va) >= Space

\* "GPU VA %p mapped to %p": where the byte at va is for the CPU.
MappedAt(m, va) == m.addr + (va - m.gpu_va)

=============================================================================
