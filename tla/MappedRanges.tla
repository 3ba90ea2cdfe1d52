---------------------------- MODULE MappedRanges ----------------------------
(***************************************************************************)
(* The tracked mappings (panwrap/panwrap-mmap.c) beside the pages the      *)
(* process has.  The tracker keeps the address and the length mmap() was   *)
(* called with; the kernel maps and unmaps pages, and munmap() and         *)
(* MAP_FIXED may take any range of them: a part of a mapping, several at   *)
(* once, or none.  panwrap removes the one entry that starts at the        *)
(* address, and does not look at the length or at what the kernel said.    *)
(*                                                                         *)
(* Memory is SAME_VA here, with the same address for the CPU and the GPU.  *)
(* A call is one step: the kernel call and the change of the tracker are   *)
(* made under the mutex (module PanwrapSyscall has the interleavings), and *)
(* a call that leaves the tracker alone is made of its kernel call only.   *)
(***************************************************************************)
EXTENDS GpuMemory, FiniteSets

CONSTANTS
  PageSize,    \* bytes of a page
  Page,        \* the numbers of the pages that can be mapped
  MaxEntries,  \* bound: tracked mappings
  MaxOdd       \* bound: calls that take something else than one mapping

ASSUME PageAssumption ==
  /\ PageSize \in Nat \ {0}
  /\ Page \subseteq Nat /\ IsFiniteSet(Page)
  /\ \A p \in Page : 2 * (p + 1) * PageSize < Space

VARIABLES
  vma,    \* the mapping every page belongs to, Free when there is none
  mmaps,  \* list of panwrap_mapped_memory, newest first
  odd,    \* history: the pages of all mappings that odd calls took from
  calls   \* history: how many odd calls there were

vars == <<vma, mmaps, odd, calls>>

Start(p) == p * PageSize

\* The pages from p on that hold length bytes.
Pages(p, length) == p..(p + (length + PageSize - 1) \div PageSize - 1)

\* A mapping as the kernel knows it: where it was made and how long it was.
\* "tracked" is GPU memory with a pending allocation, "import" GPU memory
\* without one, "other" is everything else.
Kinds == {"tracked", "import", "other"}
Vma == [kind: Kinds, page: Page, length: 1..Space]
Free == [kind |-> "free", page |-> 0, length |-> 0]

Extent(m) == Pages(m.page, m.length)
Touched(range) == {vma[p] : p \in range \cap Page} \ {Free}

\* The whole of one mapping, which is still whole.
IsWhole(range) == \E m \in Touched(range) :
                    Touched(range) = {m} /\ range = Extent(m)
                      /\ \A p \in range : vma[p] = m

TypeOK ==
  /\ vma \in [Page -> Vma \cup {Free}]
  /\ mmaps \in Seq(Region)
  /\ odd \subseteq Page
  /\ calls \in 0..MaxOdd

Init ==
  /\ vma = [p \in Page |-> Free]
  /\ mmaps = <<>>
  /\ odd = {} /\ calls = 0

Assign(range, m) ==
  vma' = [p \in Page |-> IF p \in range THEN m ELSE vma[p]]

\* A call takes from mappings; taking nothing, or what is plain, is not odd.
Take(range, plain) ==
  IF plain \/ Touched(range) = {} THEN UNCHANGED <<odd, calls>>
  ELSE /\ calls < MaxOdd /\ calls' = calls + 1
       /\ odd' = odd \cup UNION {Extent(m) : m \in Touched(range)}

-----------------------------------------------------------------------------
(* mmap().                                                                 *)

\* The new entry; gpu_va is the address, for SAME_VA memory.
Entry(p, length) ==
  [gpu_va |-> Start(p), addr |-> Start(p), length |-> length]

\* The kernel maps where nothing is mapped.
MapDevice(p, length) ==
  /\ Pages(p, length) \subseteq {q \in Page : vma[q] = Free}
  /\ Len(mmaps) < MaxEntries
  /\ Assign(Pages(p, length), [kind |-> "tracked", page |-> p, length |-> length])
  /\ mmaps' = Cons(Entry(p, length), mmaps)
  /\ UNCHANGED <<odd, calls>>

\* MEM_IMPORT and MEM_ALIAS make GPU memory that is never on the list of
\* pending allocations; its mapping is reported and not tracked.
MapImport(p, length) ==
  /\ Pages(p, length) \subseteq {q \in Page : vma[q] = Free}
  /\ Assign(Pages(p, length), [kind |-> "import", page |-> p, length |-> length])
  /\ UNCHANGED <<mmaps, odd, calls>>

\* Anonymous memory and files go straight to the kernel; with MAP_FIXED they
\* replace what is there.
MapOther(p, length) ==
  /\ Pages(p, length) \subseteq Page
  /\ Take(Pages(p, length), FALSE)
  /\ Assign(Pages(p, length), [kind |-> "other", page |-> p, length |-> length])
  /\ UNCHANGED mmaps

-----------------------------------------------------------------------------
(* munmap().                                                               *)

\* A mutant: the entry that contains the address.
UntrackContaining(addr) ==
  LET i == SelectInSeq(mmaps, LAMBDA pos : addr >= pos.addr
                                           /\ addr <= pos.addr + pos.length)
  IN mmaps' = IF i = 0 THEN mmaps ELSE RemoveAt(mmaps, i)

\* The newest entry that starts at the address, if there is one, goes.
Untrack(addr) ==
  LET i == SelectInSeq(mmaps, LAMBDA pos : pos.addr = addr)
  IN mmaps' = IF i = 0 THEN mmaps ELSE RemoveAt(mmaps, i)

Munmap(p, length) ==
  /\ Pages(p, length) \subseteq Page
  /\ Take(Pages(p, length), IsWhole(Pages(p, length)))
  /\ Assign(Pages(p, length), Free)
  /\ Untrack(Start(p))

\* The kernel refuses (a length of 0), and the entry goes all the same.
MunmapFails(p) ==
  /\ Take({p}, FALSE)
  /\ Untrack(Start(p))
  /\ UNCHANGED vma

-----------------------------------------------------------------------------

\* Lengths; those the tracker never sees are of whole pages, which is what
\* the kernel makes of them.
Lengths == 1..(PageSize * Cardinality(Page))
Whole == {length \in Lengths : length % PageSize = 0}

Next ==
  \E p \in Page :
    \/ \E length \in Lengths : MapDevice(p, length)
    \/ \E length \in Whole :
         MapImport(p, length) \/ MapOther(p, length) \/ Munmap(p, length)
    \/ MunmapFails(p)

Spec == Init /\ [][Next]_vars

-----------------------------------------------------------------------------
(* Properties.                                                             *)

\* The mapping an entry was made for.
Made(m) == [kind |-> "tracked", page |-> m.addr \div PageSize,
            length |-> m.length]

(***************************************************************************)
(* A tracked range is mapped, page by page, as the memory it was made for: *)
(* only the pages of mappings a call took a part of, took with others or   *)
(* replaced can be something else.  So a munmap() that panwrap gets wrong  *)
(* never makes it wrong about another mapping.                             *)
(***************************************************************************)
StaleOnlyOdd ==
  \A i \in DOMAIN mmaps :
    \A p \in Extent(Made(mmaps[i])) \ odd : vma[p] = Made(mmaps[i])

(***************************************************************************)
(* GPU memory with an allocation that was reported has an entry, unless an *)
(* odd call took from its mapping.                                         *)
(***************************************************************************)
LostOnlyOdd ==
  \A p \in Page \ odd :
    vma[p].kind = "tracked" =>
      \E i \in DOMAIN mmaps : Made(mmaps[i]) = vma[p]

\* An entry that ends where the address is.
EndsAt(m, va) == m.gpu_va + m.length = va

(***************************************************************************)
(* Every access inside a living mapping that no odd call touched is let    *)
(* through by the lookup and the bounds check and goes to that mapping; a  *)
(* newer entry, a stale one left by an odd call included, can only be in   *)
(* the way when it ends exactly at the address.                            *)
(***************************************************************************)
LiveReadable ==
  \A m \in {vma[p] : p \in Page \ odd} \ {Free} :
    m.kind = "tracked" =>
      \A va \in Start(m.page)..(Start(m.page) + m.length - 1) :
        LET i == ContainingIndex(mmaps, va)
        IN /\ i # 0
           /\ \/ EndsAt(mmaps[i], va)
              \/ /\ Made(mmaps[i]) = m
                 /\ \A size \in 1..(Start(m.page) + m.length - va) :
                      ~OutOfBounds(mmaps[i], va, size)

(***************************************************************************)
(* An access that is let through reads pages of one tracked mapping, or    *)
(* pages odd calls took from: never memory that was imported, that is      *)
(* somebody else's, or that is not there.                                  *)
(***************************************************************************)
ReadsMapped ==
  \A va \in Address, size \in 1..(2 * PageSize) :
    LET i == ContainingIndex(mmaps, va)
    IN i # 0 /\ va + size < Space /\ ~OutOfBounds(mmaps[i], va, size) =>
         \A b \in CpuAddress(mmaps[i], va)..(CpuAddress(mmaps[i], va) + size - 1) :
           LET p == b \div PageSize
           IN p \notin odd => p \in Page /\ vma[p] = Made(mmaps[i])

=============================================================================
