-------------------------- MODULE JobDecoderProofs --------------------------
(***************************************************************************)
(* Proofs about GpuMemory and JobDecoder: what the checked access to GPU   *)
(* memory guarantees, and what it makes of the decoder's accesses for any  *)
(* layout of SAME_VA mappings, any number of atoms and attributes, and     *)
(* whatever pointers and sizes are read.                                   *)
(***************************************************************************)
EXTENDS JobDecoder, ListLemmas, TLAPS

-----------------------------------------------------------------------------
(* GpuMemory.                                                              *)

\* Unsigned arithmetic on results that are off by less than one turn.
LEMMA WrapValue ==
  ASSUME NEW x \in Int
  PROVE  /\ Wrap(x) \in Address
         /\ x \in Address => Wrap(x) = x
         /\ x \in Space..2 * Space - 1 => Wrap(x) = x - Space
         /\ x \in -Space..-1 => Wrap(x) = x + Space
<1>1. Space \in Int /\ Space > 0
  BY SpaceAssumption
<1>2. Wrap(x) \in Address
  BY <1>1 DEF Wrap, Address
<1>3. x \in Address => Wrap(x) = x
  BY <1>1 DEF Wrap, Address
<1>4. x \in Space..2 * Space - 1 => Wrap(x) = x - Space
  BY <1>1 DEF Wrap
<1>5. x \in -Space..-1 => Wrap(x) = x + Space
  BY <1>1 DEF Wrap
<1> QED
  BY <1>2, <1>3, <1>4, <1>5

\* The lookup returns a mapping that passes the test, and none newer does.
LEMMA ContainingFirst ==
  ASSUME NEW list \in Seq(Region), NEW va
  PROVE  LET k == ContainingIndex(list, va)
         IN /\ k \in 0..Len(list)
            /\ k # 0 => /\ IsContained(va, list[k])
                        /\ \A j \in 1..k - 1 : ~IsContained(va, list[j])
            /\ k = 0 => \A j \in 1..Len(list) : ~IsContained(va, list[j])
<1> DEFINE I == {j \in 1..Len(list) : IsContained(va, list[j])}
           k == ContainingIndex(list, va)
<1>1. k = IF I # {} THEN Min(I) ELSE 0
  BY DEF ContainingIndex, SelectInSeq
<1>2. I \in SUBSET (1..Len(list)) /\ Len(list) \in Nat
  OBVIOUS
<1> HIDE DEF k, I
<1>3. /\ k \in 0..Len(list)
      /\ k # 0 => k \in I /\ \A j \in I : k <= j
      /\ k = 0 => I = {}
  BY <1>1, <1>2, FirstPosition
<1> QED
  BY <1>3 DEF I, k

\* An access that starts in a mapping and passes the check ends in it.
LEMMA CheckedAccess ==
  ASSUME NEW m \in Region, NEW va \in Int, NEW size \in Nat,
         m.gpu_va <= va, size + (va - m.gpu_va) < Space,
         ~OutOfBounds(m, va, size)
  PROVE  Inside(m, va, size)
<1>1. /\ m.gpu_va \in Int /\ m.length \in Int
      /\ Space \in Int
  BY SpaceAssumption DEF Region, Address
<1>2. Wrap(va - m.gpu_va) = va - m.gpu_va
  <2>1. va - m.gpu_va \in Address
    BY <1>1 DEF Address
  <2> QED
    BY <2>1, <1>1, WrapValue
<1>3. Wrap(size + (va - m.gpu_va)) = size + (va - m.gpu_va)
  <2>1. size + (va - m.gpu_va) \in Address
    BY <1>1 DEF Address
  <2> QED
    BY <2>1, <1>1, WrapValue
<1> QED
  BY <1>1, <1>2, <1>3 DEF OutOfBounds, Inside

\* Memory that is at the same address for both is read where it is.
LEMMA SameVaAddress ==
  ASSUME NEW m \in Region, m.gpu_va = m.addr, NEW va \in Address
  PROVE  CpuAddress(m, va) = va /\ MappedAt(m, va) = va
<1>1. m.gpu_va - m.addr = 0 /\ m.addr \in Int /\ va \in Int
  BY SpaceAssumption DEF Region, Address
<1> QED
  BY <1>1, WrapValue DEF CpuAddress, MappedAt

(***************************************************************************)
(* Any other memory is not: the difference of the two addresses is added   *)
(* with the wrong sign, so the address computed in __panwrap_deref_gpu_mem *)
(* is never that of the byte, unless both are half the address space       *)
(* apart.                                                                  *)
(***************************************************************************)
THEOREM OrdinaryAddressWrong ==
  ASSUME NEW m \in Region, m.gpu_va # m.addr,
         2 * (m.gpu_va - m.addr) # Space, 2 * (m.addr - m.gpu_va) # Space,
         NEW va \in Address, Inside(m, va, 1)
  PROVE  CpuAddress(m, va) # MappedAt(m, va)
<1>1. /\ m.gpu_va \in 0..Space - 1 /\ m.addr \in 0..Space - 1
      /\ m.length \in 0..Space - 1 /\ m.addr + m.length < Space
      /\ Space \in Int /\ Space > 0 /\ va \in 0..Space - 1
  BY SpaceAssumption DEF Region, Address
<1> DEFINE d == m.gpu_va - m.addr
<1>2. d \in Int /\ d # 0 /\ 2 * d # Space /\ 2 * d # -Space
  BY <1>1
<1>3. MappedAt(m, va) = va - d /\ CpuAddress(m, va) = Wrap(va + d)
  BY <1>1 DEF MappedAt, CpuAddress
<1>4. va - d \in 0..Space - 1
  BY <1>1 DEF Inside
<1>5. va + d \in -Space..2 * Space - 1
  BY <1>1
<1>6. Wrap(va + d) \in {va + d, va + d - Space, va + d + Space}
  <2>1. CASE va + d \in Address
    BY <2>1, <1>2, <1>1, WrapValue
  <2>2. CASE va + d \in Space..2 * Space - 1
    BY <2>2, <1>2, <1>1, WrapValue
  <2>3. CASE va + d \in -Space..-1
    BY <2>3, <1>2, <1>1, WrapValue
  <2> QED
    BY <1>1, <1>2, <1>5, <2>1, <2>2, <2>3 DEF Address
<1> HIDE DEF d
<1> QED
  BY <1>1, <1>2, <1>3, <1>6

-----------------------------------------------------------------------------
(* JobDecoder.                                                             *)

\* All tracked memory is SAME_VA, and no mapping is nearly as long as the
\* address space.
SameVaLayouts ==
  \A list \in Layouts : \A k \in DOMAIN list :
    list[k].gpu_va = list[k].addr /\ list[k].length + 2048 < Space

\* Sizes of the structures and the dumps.
AccessSize == 0..832

Job == [va: Int, type: JobTypes, shader: Int, code: Int, attribute_meta: Int,
        attributes: Int, index: Int, elements: Int,
        size: Nat, stride: Int]

\* The mapping a cursor walks in holds it, with as much room as was read.
Within(va, room) ==
  mem # 0 => maps[mem].gpu_va <= va
             /\ va + room <= maps[mem].gpu_va + maps[mem].length

DecodeInv ==
  /\ maps \in Layouts
  /\ mem \in 0..Len(maps)
  /\ job \in Job
  /\ p \in Int
  /\ pc = "payload" => mem # 0 /\ Within(job.va, HeaderSize)
  /\ pc = "entry_zero" => Within(p, 0)
  /\ pc = "entry" => Within(p, AttrMetaSize)
  /\ pc \in {"attr", "buffer"} => Within(p, MappedMemorySize)
  /\ ReadsInside

\* The facts about a layout the steps use.
LEMMA LayoutRegions ==
  ASSUME SameVaLayouts, maps \in Layouts
  PROVE  /\ maps \in Seq(Region) /\ Len(maps) \in Nat
         /\ \A k \in 1..Len(maps) :
              /\ maps[k] \in Region
              /\ maps[k].gpu_va = maps[k].addr
              /\ maps[k].length + 2048 < Space
              /\ maps[k].gpu_va \in Address /\ maps[k].length \in Address
BY LayoutAssumption DEF SameVaLayouts, Region

\* Addresses and lengths are numbers.
LEMMA LayoutNumbers ==
  ASSUME SameVaLayouts, maps \in Layouts, NEW k \in 1..Len(maps)
  PROVE  maps[k].gpu_va \in Int /\ maps[k].length \in Int
<1>1. Address \subseteq Int
  BY SpaceAssumption DEF Address
<1>2. maps[k].gpu_va \in Address /\ maps[k].length \in Address
  BY LayoutRegions
<1> QED
  BY <1>1, <1>2

\* What the bounds check leaves of an access that starts in the mapping.
Checked(m, va, size) ==
  /\ Inside(m, va, 0)
  /\ Inside(m, va, size) \/ (size > ShaderDump /\ SumWraps(m, va, size))

\* An access to SAME_VA memory that starts in the mapping or at its end.
NearAccess(m, va, size) ==
  /\ m \in Region /\ m.gpu_va = m.addr /\ m.length + 2048 < Space
  /\ va \in Int /\ size \in Nat
  /\ m.gpu_va <= va /\ va <= m.gpu_va + m.length
  /\ ~OutOfBounds(m, va, size)

\* A read the bounds check lets through stays in its mapping, or the sum of
\* the check wraps around; it takes a size longer than any structure's.
LEMMA CheckedRead ==
  ASSUME NEW m, NEW va, NEW size, NearAccess(m, va, size)
  PROVE  Checked(m, va, size) /\ CpuAddress(m, va) = MappedAt(m, va)
<1>1. /\ m \in Region /\ m.gpu_va = m.addr /\ m.length + 2048 < Space
      /\ va \in Int /\ size \in Nat
      /\ m.gpu_va <= va /\ va <= m.gpu_va + m.length
      /\ ~OutOfBounds(m, va, size)
  BY DEF NearAccess
<1>2. /\ m.gpu_va \in Int /\ m.length \in Int /\ Space \in Int
      /\ m.gpu_va >= 0 /\ m.gpu_va + m.length < Space
  BY <1>1, SpaceAssumption DEF Region, Address
<1>3. Inside(m, va, 0) /\ va \in Address
  BY <1>1, <1>2 DEF Inside, Address
<1>4. CASE SumWraps(m, va, size)
  <2>1. size > 832
    BY <1>1, <1>2, <1>4 DEF SumWraps
  <2> QED
    BY <1>1, <1>3, <1>4, <2>1, SameVaAddress DEF Checked, ShaderDump
<1>5. CASE ~SumWraps(m, va, size)
  <2>1. size + (va - m.gpu_va) < Space
    BY <1>1, <1>2, <1>5 DEF SumWraps
  <2>2. Inside(m, va, size)
    BY <1>1, <2>1, CheckedAccess
  <2> QED
    BY <1>1, <1>3, <2>2, SameVaAddress DEF Checked
<1> QED
  BY <1>4, <1>5

\* The arguments of the decoder's accesses.
AccessArgs(given, va, size) ==
  /\ given \in 0..Len(maps) /\ va \in Int /\ size \in Nat
  /\ given # 0 => /\ size \in AccessSize
                  /\ maps[given].gpu_va <= va
                  /\ va <= maps[given].gpu_va + maps[given].length

\* An access that is allowed is made in the mapping looked up, at the CPU
\* address of that mapping.
LEMMA AllowedInside ==
  ASSUME SameVaLayouts, maps \in Layouts,
         NEW given, NEW va, NEW size, AccessArgs(given, va, size),
         Allowed(given, va, size), NEW k, k = Lookup(given, va)
  PROVE  /\ k \in 1..Len(maps)
         /\ given # 0 => k = given
         /\ Checked(maps[k], va, size)
         /\ CpuAddress(maps[k], va) = MappedAt(maps[k], va)
<1>1. k \in 1..Len(maps)
  <2>1. k \in 0..Len(maps)
    BY LayoutRegions, ContainingFirst DEF Lookup, AccessArgs
  <2> QED
    BY <2>1, LayoutRegions DEF Allowed
<1>2. /\ maps[k] \in Region /\ maps[k].gpu_va = maps[k].addr
      /\ maps[k].length + 2048 < Space
      /\ maps[k].gpu_va \in Address /\ maps[k].length \in Address
  BY <1>1, LayoutRegions
<1>3. maps[k].gpu_va <= va /\ va <= maps[k].gpu_va + maps[k].length
  <2>1. CASE given # 0
    BY <2>1 DEF Lookup, AccessArgs
  <2>2. CASE given = 0
    <3>1. k = ContainingIndex(maps, va)
      BY <2>2 DEF Lookup
    <3>2. maps \in Seq(Region)
      BY LayoutRegions
    <3>3. IsContained(va, maps[k])
      BY <1>1, <3>1, <3>2, ContainingFirst
    <3>4. maps[k].gpu_va \in Int /\ maps[k].length \in Int /\ va \in Int
      BY <1>2, SpaceAssumption DEF Address, AccessArgs
    <3> QED
      BY <3>3, <3>4 DEF IsContained
  <2> QED
    BY <2>1, <2>2
<1>4. ~OutOfBounds(maps[k], va, size)
  BY DEF Allowed
<1>5. /\ Checked(maps[k], va, size)
      /\ CpuAddress(maps[k], va) = MappedAt(maps[k], va)
  <2>1. NearAccess(maps[k], va, size)
    BY <1>2, <1>3, <1>4 DEF NearAccess, AccessArgs
  <2> QED
    BY <2>1, CheckedRead
<1> QED
  BY <1>1, <1>5 DEF Lookup

\* What every access of the decoder establishes.
LEMMA ReadsStep ==
  ASSUME SameVaLayouts, maps \in Layouts, maps' = maps,
         NEW given, NEW va, NEW size, NEW next, AccessArgs(given, va, size),
         Reads(given, va, size, next)
  PROVE  /\ ReadsInside' /\ pc' = next
         /\ given # 0 => Inside(maps[given], va, size)
<1>1. Allowed(given, va, size)
  BY DEF Reads
<1> DEFINE k == Lookup(given, va)
<1> HIDE DEF k
<1>2. /\ k \in 1..Len(maps)
      /\ given # 0 => k = given
      /\ Checked(maps[k], va, size)
      /\ CpuAddress(maps[k], va) = MappedAt(maps[k], va)
  BY <1>1, AllowedInside DEF k
<1>3. /\ access' = [index |-> k, va |-> va, size |-> size,
                    cpu |-> CpuAddress(maps[k], va)]
      /\ pc' = next
  BY DEF Reads, k
<1>4. ReadsInside'
  <2>1. /\ access'.index = k /\ access'.va = va /\ access'.size = size
        /\ access'.cpu = CpuAddress(maps[k], va)
    BY <1>3
  <2> QED
    BY <1>2, <2>1 DEF ReadsInside, Checked
<1>5. given # 0 => Inside(maps[given], va, size)
  <2> SUFFICES ASSUME given # 0
               PROVE  Inside(maps[given], va, size)
    OBVIOUS
  <2>1. k = given
    BY <1>2
  <2>2. ~(size > ShaderDump)
    BY DEF AccessArgs, AccessSize, ShaderDump
  <2> QED
    BY <1>2, <2>1, <2>2 DEF Checked
<1> QED
  BY <1>3, <1>4, <1>5

\* Pointers read from GPU memory are numbers.
LEMMA SpotsType ==
  ASSUME SameVaLayouts, maps \in Layouts, NEW size \in Int
  PROVE  Spots(size) \subseteq Int
<1>1. Strays \subseteq Int
  BY AddressAssumption, SpaceAssumption DEF Address
<1>2. \A k \in DOMAIN maps : maps[k].gpu_va \in Int /\ maps[k].length \in Int
  <2>1. DOMAIN maps = 1..Len(maps)
    BY LayoutRegions
  <2> QED
    BY <2>1, LayoutNumbers
<1>3. \A k \in DOMAIN maps :
        maps[k].gpu_va + maps[k].length - size \in Int
  BY <1>2
<1> QED
  BY <1>1, <1>2, <1>3, Zenon DEF Spots

\* The addresses an attribute list may have are integers.
LEMMA ListsType ==
  ASSUME SameVaLayouts, maps \in Layouts
  PROVE  Lists \subseteq Int
<1>1. Strays \subseteq Int
  BY AddressAssumption, SpaceAssumption DEF Address
<1>2. \A k \in DOMAIN maps : maps[k].gpu_va \in Int /\ maps[k].length \in Int
  <2>1. DOMAIN maps = 1..Len(maps)
    BY LayoutRegions
  <2> QED
    BY <2>1, LayoutNumbers
<1>3. ListBytes \in Int /\ 0 \in Int
  BY BoundAssumption
<1>4. \A k \in DOMAIN maps :
        maps[k].gpu_va + maps[k].length - ListBytes \in Int
  BY <1>2, <1>3
<1> QED
  BY <1>1, <1>3, <1>4, Zenon DEF Lists

\* A cursor inside its mapping may be read at.
LEMMA CursorArgs ==
  ASSUME SameVaLayouts, maps \in Layouts, NEW given \in 0..Len(maps),
         NEW va \in Int, NEW size \in AccessSize,
         given # 0 => /\ maps[given].gpu_va <= va
                      /\ va <= maps[given].gpu_va + maps[given].length
  PROVE  AccessArgs(given, va, size)
BY DEF AccessArgs, AccessSize

\* A lookup finds a mapping that holds the address.
LEMMA LookupArgs ==
  ASSUME SameVaLayouts, maps \in Layouts, NEW va \in Int,
         NEW k, k = ContainingIndex(maps, va)
  PROVE  /\ k \in 0..Len(maps)
         /\ k # 0 => /\ maps[k].gpu_va <= va
                     /\ va <= maps[k].gpu_va + maps[k].length
<1>1. maps \in Seq(Region)
  BY LayoutRegions
<1>2. k \in 0..Len(maps) /\ (k # 0 => IsContained(va, maps[k]))
  BY <1>1, ContainingFirst
<1>3. ASSUME k # 0
      PROVE  /\ maps[k].gpu_va <= va
             /\ va <= maps[k].gpu_va + maps[k].length
  <2>1. k \in 1..Len(maps)
    BY <1>2, <1>3, LayoutRegions
  <2>2. maps[k].gpu_va \in Address /\ maps[k].length \in Address
    BY <2>1, LayoutRegions
  <2>3. maps[k].gpu_va \in Int /\ maps[k].length \in Int
    BY <2>2, SpaceAssumption DEF Address
  <2>4. IsContained(va, maps[k])
    BY <1>2, <1>3
  <2> QED
    BY <2>3, <2>4 DEF IsContained
<1> QED
  BY <1>2, <1>3

\* An access without a mapping given may be made anywhere.
LEMMA FreeArgs ==
  ASSUME SameVaLayouts, maps \in Layouts, NEW va \in Int, NEW size \in Nat
  PROVE  AccessArgs(0, va, size)
BY LayoutRegions DEF AccessArgs

\* Steps that read nothing, and aborts.
LEMMA QuietStep ==
  ASSUME DecodeInv, UNCHANGED <<maps, mem, job, p, access>>,
         pc' \notin {"payload", "entry_zero", "entry", "attr", "buffer"}
  PROVE  DecodeInv'
BY DEF DecodeInv, ReadsInside

\* A failed dereference ends the program and reads nothing.
LEMMA AbortStep ==
  ASSUME DecodeInv, NEW given, NEW va, NEW size, Aborts(given, va, size)
  PROVE  DecodeInv'
<1>1. UNCHANGED <<maps, mem, job, p, access>> /\ pc' = "aborted"
  BY DEF Aborts
<1> QED
  BY <1>1, QuietStep

\* The sizes of the structures are those of accesses.
LEMMA Sizes ==
  /\ HeaderSize \in AccessSize /\ SetValueSize \in AccessSize /\ VertexSize \in AccessSize
  /\ ShaderMetaSize \in AccessSize /\ AttrSize \in AccessSize /\ AttrMetaSize \in AccessSize
  /\ MappedMemorySize \in AccessSize /\ DumpSize \in AccessSize /\ ShaderDump \in AccessSize
  /\ \A type \in JobTypes : PayloadSize[type] \in AccessSize
BY DEF AccessSize, HeaderSize, SetValueSize, VertexSize, ShaderMetaSize, AttrSize,
       AttrMetaSize, MappedMemorySize, DumpSize, ShaderDump, JobTypes,
       PayloadSize

\* The bounds of the mapping a cursor walks in are numbers.
LEMMA MemBounds ==
  ASSUME SameVaLayouts, DecodeInv, mem # 0
  PROVE  maps[mem].gpu_va \in Int /\ maps[mem].length \in Int
<1>1. mem \in 1..Len(maps)
  BY LayoutRegions DEF DecodeInv
<1>2. maps[mem].gpu_va \in Address /\ maps[mem].length \in Address
  BY <1>1, LayoutRegions DEF DecodeInv
<1> QED
  BY <1>2, SpaceAssumption DEF Address

\* Reading a job header keeps the invariant.
LEMMA HeaderStep ==
  ASSUME SameVaLayouts, DecodeInv, Header
  PROVE  DecodeInv'
<1> DEFINE k == ContainingIndex(maps, job.va)
<1>1. maps \in Layouts /\ job \in Job /\ job.va \in Int
  BY DEF DecodeInv, Job
<1>2. CASE Aborts(k, job.va, HeaderSize)
  BY <1>2, AbortStep
<1>3. CASE /\ Reads(k, job.va, HeaderSize, "payload")
           /\ mem' = k
           /\ \E type \in JobTypes : job' = [job EXCEPT !.type = type]
           /\ UNCHANGED <<maps, p>>
  <2> HIDE DEF k
  <2>1. /\ k \in 0..Len(maps)
        /\ k # 0 => /\ maps[k].gpu_va <= job.va
                    /\ job.va <= maps[k].gpu_va + maps[k].length
    BY <1>1, LookupArgs DEF k
  <2>2. AccessArgs(k, job.va, HeaderSize)
    BY <1>1, <2>1, CursorArgs, Sizes
  <2>3. /\ ReadsInside' /\ pc' = "payload"
        /\ k # 0 => Inside(maps[k], job.va, HeaderSize)
    BY <1>1, <1>3, <2>2, ReadsStep
  <2>4. k # 0
    <3>1. Allowed(k, job.va, HeaderSize)
      BY <1>3 DEF Reads
    <3> QED
      BY <3>1 DEF Allowed, Lookup, k
  <2>5. job' \in Job /\ job'.va = job.va
    BY <1>1, <1>3 DEF Job
  <2>6. Within(job.va, HeaderSize)'
    BY <1>3, <2>3, <2>4, <2>5 DEF Within, Inside
  <2> QED
    BY <1>3, <2>1, <2>3, <2>4, <2>5, <2>6 DEF DecodeInv
<1> QED
  BY <1>2, <1>3 DEF Header

\* The payload behind a header that was read is near its mapping.
LEMMA PayloadArgs ==
  ASSUME SameVaLayouts, DecodeInv, pc = "payload", NEW size \in AccessSize
  PROVE  AccessArgs(mem, Payload, size)
<1>1. /\ maps \in Layouts /\ mem \in 0..Len(maps) /\ job.va \in Int
      /\ mem # 0 /\ Within(job.va, HeaderSize)
  BY DEF DecodeInv, Job
<1>2. maps[mem].gpu_va \in Int /\ maps[mem].length \in Int
  BY <1>1, MemBounds
<1>3. /\ Payload \in Int
      /\ maps[mem].gpu_va <= Payload
      /\ Payload <= maps[mem].gpu_va + maps[mem].length
  BY <1>1, <1>2 DEF Payload, HeaderSize, Within
<1> QED
  BY <1>1, <1>3, CursorArgs

\* Reading the payload of a small job keeps the invariant.
LEMMA PayloadShownStep ==
  ASSUME SameVaLayouts, DecodeInv, PayloadShown
  PROVE  DecodeInv'
<1> DEFINE size == PayloadSize[job.type]
<1>1. pc = "payload" /\ maps \in Layouts /\ size \in AccessSize
  BY Sizes DEF PayloadShown, DecodeInv, Job
<1>2. CASE Aborts(mem, Payload, size)
  BY <1>2, AbortStep
<1>3. CASE Reads(mem, Payload, size, "atom_end")
           /\ UNCHANGED <<maps, mem, job, p>>
  <2> HIDE DEF size
  <2>1. AccessArgs(mem, Payload, size)
    BY <1>1, PayloadArgs
  <2>2. ReadsInside' /\ pc' = "atom_end"
    BY <1>1, <1>3, <2>1, ReadsStep
  <2> QED
    BY <1>3, <2>2 DEF DecodeInv
<1> QED
  BY <1>2, <1>3 DEF PayloadShown

\* Reading a vertex or tiler payload keeps the invariant.
LEMMA VertexTilerStep ==
  ASSUME SameVaLayouts, DecodeInv, VertexTiler
  PROVE  DecodeInv'
<1>1. pc = "payload" /\ maps \in Layouts
  BY DEF VertexTiler, DecodeInv
<1>2. CASE Aborts(mem, Payload, VertexSize)
  BY <1>2, AbortStep
<1>3. ASSUME NEW shader \in Spots(ShaderMetaSize), NEW list \in Lists,
             NEW attributes \in Spots(AttrSize),
             job' = [job EXCEPT !.shader = shader, !.attribute_meta = list,
                                !.attributes = attributes],
             NEW next \in {"shader", "attributes"},
             Reads(mem, Payload, VertexSize, next),
             UNCHANGED <<maps, mem, p>>
      PROVE  DecodeInv'
  <2>1. AccessArgs(mem, Payload, VertexSize)
    BY <1>1, PayloadArgs, Sizes
  <2>2. ReadsInside' /\ pc' = next
    BY <1>1, <1>3, <2>1, ReadsStep
  <2>3. shader \in Int /\ list \in Int /\ attributes \in Int
    <3>1. Spots(ShaderMetaSize) \subseteq Int /\ Spots(AttrSize) \subseteq Int
      <4>1. ShaderMetaSize \in Int /\ AttrSize \in Int
        BY DEF ShaderMetaSize, AttrSize
      <4> QED
        BY <1>1, <4>1, SpotsType
    <3> QED
      BY <1>1, <3>1, ListsType
  <2>4. job' \in Job
    BY <1>3, <2>3 DEF DecodeInv, Job
  <2> QED
    BY <1>3, <2>2, <2>4 DEF DecodeInv
<1> QED
  <2> SUFFICES ASSUME NEW shader \in Spots(ShaderMetaSize), NEW list \in Lists,
                      NEW attributes \in Spots(AttrSize),
                      job' = [job EXCEPT !.shader = shader,
                                         !.attribute_meta = list,
                                         !.attributes = attributes],
                      Reads(mem, Payload, VertexSize,
                            IF shader # 0 THEN "shader" ELSE "attributes"),
                      UNCHANGED <<maps, mem, p>>
               PROVE  DecodeInv'
    BY <1>2 DEF VertexTiler
  <2> QED
    BY <1>3

\* Reading the shader meta data keeps the invariant.
LEMMA ShaderMetaStep ==
  ASSUME SameVaLayouts, DecodeInv, ShaderMeta
  PROVE  DecodeInv'
<1>1. maps \in Layouts /\ job.shader \in Int
  BY DEF DecodeInv, Job
<1>2. CASE Aborts(0, job.shader, ShaderMetaSize)
  BY <1>2, AbortStep
<1>3. CASE /\ Reads(0, job.shader, ShaderMetaSize, "blob")
           /\ \E code \in Spots(ShaderDump) \cup Spots(ShaderBytes) :
                job' = [job EXCEPT !.code = code]
           /\ UNCHANGED <<maps, mem, p>>
  <2>1. ReadsInside' /\ pc' = "blob"
    BY <1>1, <1>3, FreeArgs, ReadsStep DEF ShaderMetaSize
  <2>2. Spots(ShaderDump) \cup Spots(ShaderBytes) \subseteq Int
    <3>1. ShaderDump \in Int /\ ShaderBytes \in Int
      BY BoundAssumption DEF ShaderDump
    <3> QED
      BY <1>1, <3>1, SpotsType
  <2>3. job' \in Job
    <3>1. PICK code \in Int : job' = [job EXCEPT !.code = code]
      BY <1>3, <2>2
    <3> QED
      BY <3>1 DEF DecodeInv, Job
  <2> QED
    BY <1>3, <2>1, <2>3 DEF DecodeInv
<1> QED
  BY <1>2, <1>3 DEF ShaderMeta

\* Dumping the shader keeps the invariant.
LEMMA ShaderBlobStep ==
  ASSUME SameVaLayouts, DecodeInv, ShaderBlob
  PROVE  DecodeInv'
<1>1. maps \in Layouts /\ job.code \in Int
  BY DEF DecodeInv, Job
<1>2. CASE Aborts(0, job.code, ShaderDump)
  BY <1>2, AbortStep
<1>3. CASE /\ Reads(0, job.code, ShaderDump, "attributes")
           /\ UNCHANGED <<maps, mem, job, p>>
  <2>1. ReadsInside' /\ pc' = "attributes"
    BY <1>1, <1>3, FreeArgs, ReadsStep DEF ShaderDump
  <2> QED
    BY <1>3, <2>1 DEF DecodeInv
<1> QED
  BY <1>2, <1>3 DEF ShaderBlob

\* Entering the attribute list keeps the invariant.
LEMMA AttributesStep ==
  ASSUME SameVaLayouts, DecodeInv, Attributes
  PROVE  DecodeInv'
<1> DEFINE k == ContainingIndex(maps, job.attribute_meta)
<1>1. maps \in Layouts /\ job.attribute_meta \in Int
  BY DEF DecodeInv, Job
<1>2. UNCHANGED <<maps, job, access>>
  BY DEF Attributes
<1>3. CASE pc' = "atom_end" /\ UNCHANGED <<mem, p>>
  BY <1>2, <1>3, QuietStep
<1>4. CASE mem' = k /\ p' = job.attribute_meta /\ pc' = "entry_zero"
  <2> HIDE DEF k
  <2>1. /\ k \in 0..Len(maps)
        /\ k # 0 => /\ maps[k].gpu_va <= p'
                    /\ p' <= maps[k].gpu_va + maps[k].length
    BY <1>1, <1>4, LookupArgs DEF k
  <2>2. Within(p, 0)'
    BY <1>1, <1>2, <1>4, <2>1 DEF Within
  <2> QED
    BY <1>1, <1>2, <1>4, <2>1, <2>2 DEF DecodeInv, ReadsInside
<1> QED
  BY <1>3, <1>4 DEF Attributes

\* The cursor of the attribute list is inside its mapping, whatever has been
\* read of the entry so far.
LEMMA EntryArgs ==
  ASSUME SameVaLayouts, DecodeInv, NEW size \in AccessSize,
         NEW room \in Nat, Within(p, room)
  PROVE  AccessArgs(mem, p, size)
<1>1. maps \in Layouts /\ mem \in 0..Len(maps) /\ p \in Int
  BY DEF DecodeInv
<1>2. mem # 0 => /\ maps[mem].gpu_va <= p
                 /\ p <= maps[mem].gpu_va + maps[mem].length
  <2> SUFFICES ASSUME mem # 0
               PROVE  /\ maps[mem].gpu_va <= p
                      /\ p <= maps[mem].gpu_va + maps[mem].length
    OBVIOUS
  <2>1. maps[mem].gpu_va \in Int /\ maps[mem].length \in Int
    BY MemBounds
  <2> QED
    BY <1>1, <2>1 DEF Within
<1> QED
  BY <1>1, <1>2, CursorArgs

\* The test for the end of the attribute list keeps the invariant.
LEMMA EntryIsZeroStep ==
  ASSUME SameVaLayouts, DecodeInv, EntryIsZero
  PROVE  DecodeInv'
<1>1. pc = "entry_zero" /\ maps \in Layouts /\ Within(p, 0)
  BY DEF EntryIsZero, DecodeInv
<1>2. CASE Aborts(mem, p, AttrMetaSize)
  BY <1>2, AbortStep
<1>3. ASSUME NEW next \in {"atom_end", "entry"},
             Reads(mem, p, AttrMetaSize, next),
             UNCHANGED <<maps, mem, job, p>>
      PROVE  DecodeInv'
  <2>1. AttrMetaSize \in AccessSize
    BY Sizes
  <2>2. AccessArgs(mem, p, AttrMetaSize)
    BY <1>1, <2>1, EntryArgs
  <2>3. /\ ReadsInside' /\ pc' = next
        /\ mem # 0 => Inside(maps[mem], p, AttrMetaSize)
    BY <1>1, <1>3, <2>2, ReadsStep
  <2>4. Within(p, AttrMetaSize)'
    BY <1>3, <2>3 DEF Within, Inside
  <2> QED
    BY <1>3, <2>3, <2>4 DEF DecodeInv
<1> QED
  BY <1>2, <1>3 DEF EntryIsZero

\* Reading an entry of the attribute list keeps the invariant.
LEMMA EntryStep ==
  ASSUME SameVaLayouts, DecodeInv, Entry
  PROVE  DecodeInv'
<1>1. pc = "entry" /\ maps \in Layouts /\ Within(p, AttrMetaSize)
  BY DEF Entry, DecodeInv
<1>2. CASE Aborts(mem, p, MappedMemorySize)
  BY <1>2, AbortStep
<1>3. CASE /\ Reads(mem, p, MappedMemorySize, "attr")
           /\ \E index \in Indices : job' = [job EXCEPT !.index = index]
           /\ UNCHANGED <<maps, mem, p>>
  <2>1. MappedMemorySize \in AccessSize /\ AttrMetaSize \in Nat
    BY Sizes DEF AttrMetaSize
  <2>2. AccessArgs(mem, p, MappedMemorySize)
    BY <1>1, <2>1, EntryArgs
  <2>3. /\ ReadsInside' /\ pc' = "attr"
        /\ mem # 0 => Inside(maps[mem], p, MappedMemorySize)
    BY <1>1, <1>3, <2>2, ReadsStep
  <2>4. Within(p, MappedMemorySize)'
    BY <1>3, <2>3 DEF Within, Inside
  <2>5. job' \in Job
    <3>1. PICK index \in Int : job' = [job EXCEPT !.index = index]
      BY <1>3, SizeAssumption
    <3> QED
      BY <3>1 DEF DecodeInv, Job
  <2> QED
    BY <1>3, <2>3, <2>4, <2>5 DEF DecodeInv
<1> QED
  BY <1>2, <1>3 DEF Entry

\* What is known of a job stays well-typed as the entry's fields are set.
LEMMA JobFields ==
  ASSUME NEW j \in Job
  PROVE  /\ \A x \in Int : [j EXCEPT !.index = x] \in Job
         /\ \A x \in Int : [j EXCEPT !.elements = x] \in Job
         /\ \A x \in Nat : [j EXCEPT !.size = x] \in Job
         /\ \A x \in Int : [j EXCEPT !.stride = x] \in Job
BY DEF Job

\* A job whose attribute buffer was read is a job.
LEMMA JobBuffer ==
  ASSUME NEW j \in Job, NEW elements \in Int, NEW size \in Nat,
         NEW stride \in Int
  PROVE  [j EXCEPT !.elements = elements, !.size = size, !.stride = stride]
           \in Job
<1> DEFINE j1 == [j EXCEPT !.elements = elements]
           j2 == [j1 EXCEPT !.size = size]
           j3 == [j2 EXCEPT !.stride = stride]
<1>1. j1 \in Job
  BY JobFields
<1> HIDE DEF j1
<1>2. j2 \in Job
  BY <1>1, JobFields
<1> HIDE DEF j2
<1>3. j3 \in Job
  BY <1>2, JobFields
<1> USE DEF j1, j2
<1> QED
  BY <1>3

\* Reading the attribute an entry names keeps the invariant.
LEMMA AttrStep ==
  ASSUME SameVaLayouts, DecodeInv, Attr
  PROVE  DecodeInv'
<1>1. pc = "attr" /\ maps \in Layouts /\ Within(p, MappedMemorySize)
  BY DEF Attr, DecodeInv
<1>4. AttrRead \in Int
  <2>1. job.attributes \in Int /\ job.index \in Int
    BY DEF DecodeInv, Job
  <2> QED
    BY <2>1 DEF AttrRead
<1>2. CASE Aborts(0, AttrRead, AttrSize)
  BY <1>2, AbortStep
<1>3. ASSUME NEW size \in BufferSizes, NEW stride \in Strides,
             NEW elements \in Spots(Distance(size)),
             job' = [job EXCEPT !.elements = elements, !.size = size,
                                !.stride = stride],
             Reads(0, AttrRead, AttrSize, "buffer"),
             UNCHANGED <<maps, mem, p>>
      PROVE  DecodeInv'
  <2>1. AttrSize \in Nat
    BY DEF AttrSize
  <2>2. AccessArgs(0, AttrRead, AttrSize)
    BY <1>1, <1>4, <2>1, FreeArgs
  <2>3. ReadsInside' /\ pc' = "buffer"
    BY <1>1, <1>3, <2>2, ReadsStep
  <2>4. size \in Nat /\ stride \in Int
    BY SizeAssumption, SpaceAssumption DEF Address
  <2>5. elements \in Int
    <3>1. Distance(size) \in Int
      BY <2>4, SpaceAssumption DEF Distance
    <3> QED
      BY <1>1, <3>1, SpotsType
  <2>6. job' \in Job
    <3>1. job \in Job
      BY DEF DecodeInv
    <3>2. [job EXCEPT !.elements = elements, !.size = size,
                      !.stride = stride] \in Job
      BY <2>4, <2>5, <3>1, JobBuffer
    <3> QED
      BY <1>3, <3>2
  <2>7. Within(p, MappedMemorySize)'
    BY <1>1, <1>3 DEF Within
  <2> QED
    BY <1>3, <2>3, <2>6, <2>7 DEF DecodeInv
<1> QED
  BY <1>2, <1>3 DEF Attr

\* Reading the elements of an attribute keeps the invariant.
LEMMA BufferStep ==
  ASSUME SameVaLayouts, DecodeInv, Buffer
  PROVE  DecodeInv'
<1>1. /\ pc = "buffer" /\ maps \in Layouts /\ mem \in 0..Len(maps)
      /\ job \in Job /\ job.elements \in Int /\ p \in Int
      /\ Within(p, MappedMemorySize)
  BY DEF Buffer, DecodeInv, Job
<1>2. job.size \in Nat
  BY <1>1 DEF Job
<1>3. CASE Aborts(0, job.elements, job.size)
  BY <1>3, AbortStep
<1>4. AccessArgs(0, job.elements, job.size)
  BY <1>1, <1>2, FreeArgs
<1>5. CASE /\ Reads(0, job.elements, job.size, "entry_zero")
           /\ p' = p + AttrMetaSize
           /\ job' = [job EXCEPT !.index = 0, !.elements = 0, !.size = 0,
                                 !.stride = 0]
           /\ UNCHANGED <<maps, mem>>
  <2>1. ReadsInside' /\ pc' = "entry_zero"
    BY <1>1, <1>4, <1>5, ReadsStep
  <2>2. p' \in Int
    BY <1>1, <1>5 DEF AttrMetaSize
  <2>3. Within(p, 0)'
    <3> SUFFICES ASSUME mem # 0
                 PROVE  /\ maps[mem].gpu_va <= p'
                        /\ p' + 0 <= maps[mem].gpu_va + maps[mem].length
      BY <1>5 DEF Within
    <3>1. maps[mem].gpu_va \in Int /\ maps[mem].length \in Int
      BY MemBounds
    <3> QED
      BY <1>1, <1>5, <3>1 DEF Within, MappedMemorySize, AttrMetaSize
  <2>4. job' \in Job
    <3> DEFINE old == [job EXCEPT !.index = 0]
    <3>1. old \in Job
      BY <1>1, JobFields
    <3>2. job' = [old EXCEPT !.elements = 0, !.size = 0, !.stride = 0]
      BY <1>5
    <3> HIDE DEF old
    <3>3. ASSUME NEW none, none = 0
          PROVE  [old EXCEPT !.elements = none, !.size = none, !.stride = none]
                   \in Job
      <4>1. none \in Int /\ none \in Nat
        BY <3>3
      <4> QED
        BY <3>1, <4>1, JobBuffer
    <3> QED
      BY <3>2, <3>3
  <2> QED
    BY <1>1, <1>5, <2>1, <2>2, <2>3, <2>4 DEF DecodeInv
<1>6. CASE /\ Reads(0, job.elements, job.size, "trapped")
           /\ UNCHANGED <<maps, mem, job, p>>
  <2>1. ReadsInside' /\ pc' = "trapped"
    BY <1>1, <1>4, <1>6, ReadsStep
  <2> QED
    BY <1>6, <2>1 DEF DecodeInv
<1> QED
  BY <1>3, <1>5, <1>6 DEF Buffer

\* The invariant holds in every reachable state.
LEMMA DecodeInvariant ==
  ASSUME SameVaLayouts
  PROVE  Spec => []DecodeInv
<1>1. Init => DecodeInv
  <2> SUFFICES ASSUME Init
               PROVE  DecodeInv
    OBVIOUS
  <2>1. NoJob \in Job
    BY DEF NoJob, Job, JobTypes
  <2>2. maps \in Layouts /\ mem \in 0..Len(maps) /\ p \in Int
    BY LayoutRegions DEF Init
  <2> QED
    BY <2>1, <2>2 DEF Init, DecodeInv, ReadsInside
<1>2. DecodeInv /\ [Next]_vars => DecodeInv'
  <2> SUFFICES ASSUME DecodeInv, [Next]_vars
               PROVE  DecodeInv'
    OBVIOUS
  <2>1. CASE Ioctl
    BY <2>1, QuietStep DEF Ioctl
  <2>2. CASE LegacySubmit
    BY <2>2, QuietStep DEF LegacySubmit
  <2>3. CASE Submit
    BY <2>3, QuietStep DEF Submit
  <2>4. CASE Submitted
    BY <2>4, QuietStep DEF Submitted
  <2>5. CASE IoctlReturns
    BY <2>5, QuietStep DEF IoctlReturns
  <2>6. CASE NextAtom
    <3>1. /\ HeaderSize + VertexSize \in Int
          /\ HeaderSize + SetValueSize \in Int /\ maps \in Layouts
      BY DEF HeaderSize, VertexSize, SetValueSize, DecodeInv
    <3>2. PICK va \in Int : job' = [NoJob EXCEPT !.va = va]
      BY <2>6, <3>1, SpotsType DEF NextAtom
    <3>3. job' \in Job
      BY <3>2 DEF NoJob, Job, JobTypes
    <3>4. UNCHANGED <<maps, mem, p, access>> /\ pc' = "header"
      BY <2>6 DEF NextAtom
    <3> QED
      BY <3>3, <3>4 DEF DecodeInv, ReadsInside
  <2>7. CASE AtomEnd
    <3>1. NoJob \in Job
      BY DEF NoJob, Job, JobTypes
    <3>2. /\ maps' = maps /\ pc' = "atoms" /\ mem' = 0 /\ p' = 0
          /\ job' = NoJob /\ access' = NoAccess
      BY <2>7 DEF AtomEnd
    <3>3. mem' \in 0..Len(maps)
      BY <3>2, LayoutRegions DEF DecodeInv
    <3> QED
      BY <3>1, <3>2, <3>3 DEF DecodeInv, ReadsInside
  <2>8. CASE Header
    BY <2>8, HeaderStep
  <2>9. CASE PayloadShown
    BY <2>9, PayloadShownStep
  <2>10. CASE VertexTiler
    BY <2>10, VertexTilerStep
  <2>11. CASE ShaderMeta
    BY <2>11, ShaderMetaStep
  <2>12. CASE ShaderBlob
    BY <2>12, ShaderBlobStep
  <2>13. CASE Attributes
    BY <2>13, AttributesStep
  <2>14. CASE EntryIsZero
    BY <2>14, EntryIsZeroStep
  <2>15. CASE Entry
    BY <2>15, EntryStep
  <2>16. CASE Attr
    BY <2>16, AttrStep
  <2>17. CASE Buffer
    BY <2>17, BufferStep
  <2>18. CASE UNCHANGED vars
    BY <2>18 DEF vars, DecodeInv, ReadsInside, Within
  <2> QED
    BY <2>1, <2>2, <2>3, <2>4, <2>5, <2>6, <2>7, <2>8, <2>9, <2>10, <2>11,
       <2>12, <2>13, <2>14, <2>15, <2>16, <2>17, <2>18
    DEF Next, InSubmit, Decode
<1> QED
  BY <1>1, <1>2, PTL DEF Spec

(***************************************************************************)
(* When what is tracked is SAME_VA memory, every access of                 *)
(* panwrap_trace_hw_chain() starts in a tracked mapping and goes to the    *)
(* address it has there, whatever the mappings, the pointers and sizes     *)
(* found in them, and the number of atoms.  It ends there too, except that *)
(* of an attribute's buffer whose size makes the sum of the bounds check   *)
(* wrap around.                                                            *)
(***************************************************************************)
THEOREM ReadsAlwaysInside ==
  ASSUME SameVaLayouts
  PROVE  Spec => []ReadsInside
<1>1. DecodeInv => ReadsInside
  BY DEF DecodeInv
<1> QED
  BY <1>1, DecodeInvariant, PTL

-----------------------------------------------------------------------------
(* The indentation of the log.                                             *)

\* panwrap_indent at each place of the decoder.
IndentAt(place) ==
  CASE place \in {"app", "aborted"} -> 0
    [] place \in {"submit", "kernel"} -> 1
    [] place = "atoms" -> 2
    [] place \in {"header", "atom_end"} -> 4
    [] place \in {"payload", "shader", "blob", "attributes"} -> 5
    [] place \in {"entry_zero", "entry"} -> 6
    [] OTHER -> 7

(***************************************************************************)
(* Decoding gives back the indentation it took, whatever memory is tracked *)
(* and whatever it holds: at each place it is a function of the place, 0   *)
(* in the program being traced.                                            *)
(***************************************************************************)
THEOREM IndentationBalanced == Spec => []IndentBalanced
<1> DEFINE Inv == indent = IndentAt(pc)
<1>1. Init => Inv
  BY DEF Init, IndentAt
<1>2. Inv /\ [Next]_vars => Inv'
  <2> SUFFICES ASSUME Inv, [Next]_vars
               PROVE  Inv'
    OBVIOUS
  <2>1. ASSUME NEW given, NEW va, NEW size, Aborts(given, va, size)
        PROVE  Inv'
    BY <2>1 DEF Aborts, IndentAt
  <2>2. ASSUME NEW given, NEW va, NEW size, NEW next,
               Reads(given, va, size, next)
        PROVE  pc' = next
    BY <2>2 DEF Reads
  <2>3. CASE Ioctl \/ LegacySubmit \/ Submit \/ NextAtom \/ AtomEnd
               \/ Submitted \/ IoctlReturns
    BY <2>3 DEF Ioctl, LegacySubmit, Submit, NextAtom, AtomEnd, AtomOutdent,
                Submitted, IoctlReturns, IndentAt
  <2>4. CASE Header
    BY <2>1, <2>2, <2>4 DEF Header, IndentAt
  <2>5. CASE PayloadShown
    BY <2>1, <2>2, <2>5 DEF PayloadShown, IndentAt
  <2>6. CASE VertexTiler
    BY <2>1, <2>2, <2>6 DEF VertexTiler, IndentAt
  <2>7. CASE ShaderMeta
    BY <2>1, <2>2, <2>7 DEF ShaderMeta, IndentAt
  <2>8. CASE ShaderBlob
    BY <2>1, <2>2, <2>8 DEF ShaderBlob, IndentAt
  <2>9. CASE Attributes
    BY <2>9 DEF Attributes, IndentAt
  <2>10. CASE EntryIsZero
    BY <2>1, <2>2, <2>10 DEF EntryIsZero, IndentAt
  <2>11. CASE Entry
    BY <2>1, <2>2, <2>11 DEF Entry, IndentAt
  <2>12. CASE Attr
    BY <2>1, <2>2, <2>12 DEF Attr, IndentAt
  <2>13. CASE Buffer
    BY <2>1, <2>2, <2>13 DEF Buffer, IndentAt
  <2>14. CASE UNCHANGED vars
    BY <2>14 DEF vars
  <2> QED
    BY <2>3, <2>4, <2>5, <2>6, <2>7, <2>8, <2>9, <2>10, <2>11, <2>12, <2>13,
       <2>14
    DEF Next, InSubmit, Decode
<1>3. Inv => IndentBalanced
  BY DEF IndentBalanced, IndentAt
<1> QED
  BY <1>1, <1>2, <1>3, PTL DEF Spec

-----------------------------------------------------------------------------
(* Valid jobs are decoded.                                                 *)

\* There is a byte that is not tracked between any two mappings: the end of a
\* mapping, which IsContained() takes for a part of it, is not the start of
\* another.
ApartLayouts ==
  \A list \in Layouts : \A k, j \in DOMAIN list :
    k # j => \/ list[k].gpu_va + list[k].length < list[j].gpu_va
             \/ list[j].gpu_va + list[j].length < list[k].gpu_va

\* The structure is in the mapping the decoder has at hand.
Held(m, va, size) == m \in 1..Len(maps) /\ Inside(maps[m], va, size)

\* What the driver's pointers, good so far, say of what is read next.
GoodAt(place, m, j, q) ==
  /\ place = "header" => Mapped(j.va, HeaderSize)
  /\ place = "payload" => Held(m, j.va, HeaderSize + DriverSize[j.type])
  /\ place = "shader" => Mapped(j.shader, ShaderMetaSize)
  /\ place \in {"shader", "blob", "attributes"} /\ j.attribute_meta # 0 =>
       Mapped(j.attribute_meta, AttrMetaSize)
  /\ place = "entry_zero" => Held(m, q, AttrMetaSize)
  /\ place \in {"entry", "attr", "buffer"} => Held(m, q, 2 * AttrMetaSize)
  /\ place = "attr" =>
       j.index \in Nat /\ Mapped(j.attributes, (j.index + 1) * AttrSize)
  /\ place = "buffer" => (j.index = 0 => Mapped(j.elements, j.size))

ValidInv ==
  /\ valid \in BOOLEAN
  /\ ValidDecoded
  /\ valid => GoodAt(pc, mem, job, p)

\* The invariant, spelled out for a next state that is no abort.
LEMMA ValidNext ==
  ASSUME valid' \in BOOLEAN, pc' # "aborted", maps' = maps,
         valid' => GoodAt(pc', mem', job', p')
  PROVE  ValidInv'
BY DEF ValidInv, ValidDecoded, GoodAt, Held, Mapped, Inside

\* The sums of the bounds check do not wrap around inside a mapping.
LEMMA BoundsInside ==
  ASSUME NEW g \in Address, NEW n \in Address, NEW va \in Int, NEW size \in Nat,
         g <= va, va + size <= g + n
  PROVE  ~(Wrap(size + Wrap(va - g)) > n)
<1> DEFINE d == va - g
<1>1. g \in Int /\ n \in Int /\ n < Space /\ Space \in Int
  BY SpaceAssumption DEF Address
<1>2. d \in Int /\ d >= 0 /\ size + d >= 0 /\ size + d <= n
  BY <1>1
<1> HIDE DEF d
<1>3. d \in Address /\ size + d \in Address
  BY <1>1, <1>2 DEF Address
<1>4. Wrap(d) = d /\ Wrap(size + d) = size + d
  BY <1>2, <1>3, WrapValue
<1>5. ~(Wrap(size + Wrap(d)) > n)
  BY <1>1, <1>2, <1>4
<1> QED
  BY <1>5 DEF d

\* A structure that lies in a mapping passes its bounds check.
LEMMA HeldAllowed ==
  ASSUME SameVaLayouts, maps \in Layouts,
         NEW m, NEW va \in Int, NEW size \in Nat, Held(m, va, size)
  PROVE  Allowed(m, va, size)
<1>1. m \in 1..Len(maps) /\ Inside(maps[m], va, size)
  BY DEF Held
<1>2. /\ m # 0 /\ maps[m].gpu_va \in Address /\ maps[m].length \in Address
  BY <1>1, LayoutRegions
<1>3. ~OutOfBounds(maps[m], va, size)
  BY <1>1, <1>2, BoundsInside DEF Inside, OutOfBounds
<1> QED
  BY <1>2, <1>3 DEF Allowed, Lookup

\* The lookup finds the mapping a structure lies in.
LEMMA MappedFound ==
  ASSUME SameVaLayouts, ApartLayouts, maps \in Layouts,
         NEW va \in Int, NEW size \in Nat, Mapped(va, size),
         NEW k, k = ContainingIndex(maps, va)
  PROVE  Held(k, va, size)
<1>1. maps \in Seq(Region) /\ DOMAIN maps = 1..Len(maps) /\ Len(maps) \in Nat
  BY LayoutRegions
<1>2. PICK j \in 1..Len(maps) : Inside(maps[j], va, size)
  BY <1>1 DEF Mapped
<1>3. /\ maps[j].gpu_va \in Int /\ maps[j].length \in Int
  BY LayoutNumbers
<1>4. IsContained(va, maps[j])
  BY <1>2, <1>3 DEF Inside, IsContained
<1>5. k \in 1..Len(maps) /\ IsContained(va, maps[k])
  <2>1. k \in 0..Len(maps) /\ k # 0 /\ IsContained(va, maps[k])
    BY <1>1, <1>4, ContainingFirst
  <2> QED
    BY <1>1, <2>1
<1>6. k = j
  <2> SUFFICES ASSUME k # j
               PROVE  FALSE
    OBVIOUS
  <2>1. maps[k].gpu_va \in Int /\ maps[k].length \in Int
    BY <1>5, LayoutNumbers
  <2>2. \/ maps[k].gpu_va + maps[k].length < maps[j].gpu_va
        \/ maps[j].gpu_va + maps[j].length < maps[k].gpu_va
    BY <1>1, <1>5 DEF ApartLayouts
  <2> QED
    BY <1>3, <1>4, <1>5, <2>1, <2>2, SMTT(30) DEF IsContained
<1> QED
  BY <1>2, <1>5, <1>6 DEF Held

\* So it is accessed without a mapping at hand.
LEMMA MappedAllowed ==
  ASSUME SameVaLayouts, ApartLayouts, maps \in Layouts,
         NEW va \in Int, NEW size \in Nat, Mapped(va, size)
  PROVE  Allowed(0, va, size)
<1> DEFINE k == ContainingIndex(maps, va)
<1>1. Held(k, va, size)
  BY MappedFound
<1>2. Allowed(k, va, size) /\ k \in 1..Len(maps)
  BY <1>1, HeldAllowed DEF Held
<1>3. k # 0
  BY <1>2, LayoutRegions
<1> QED
  BY <1>2, <1>3 DEF Allowed, Lookup

\* What the decoder asks for at a place beyond the driver's structures.
OverreadAt(place) ==
  \/ place = "payload" /\ job.type = "other" /\ ~Mapped(Payload, DumpSize)
  \/ place = "blob" /\ ~Mapped(job.code, ShaderDump)
  \/ place = "entry" /\ ~Mapped(p, MappedMemorySize)
  \/ place = "buffer" /\ job.index # 0

\* An abort is the driver's own fault, or one of an access it has no part in.
LEMMA AbortValid ==
  ASSUME ValidInv, NEW given, NEW va, NEW size, Aborts(given, va, size),
         valid => Allowed(given, va, size) \/ OverreadAt(pc)
  PROVE  ValidInv'
<1>1. /\ UNCHANGED <<maps, job, p, valid>> /\ pc' = "aborted" /\ at' = pc
      /\ valid => OverreadAt(pc)
  BY DEF Aborts
<1>2. OverreadAt(pc) => Overread'
  BY <1>1 DEF OverreadAt, Overread, Mapped, Payload
<1>3. ValidDecoded'
  BY <1>1, <1>2 DEF ValidDecoded
<1> QED
  BY <1>1, <1>3 DEF ValidInv, GoodAt

\* Places where no pointer is followed ask for nothing.
LEMMA QuietValid ==
  ASSUME ValidInv, maps' = maps, valid' \in BOOLEAN,
         pc' \in {"app", "submit", "kernel", "atoms", "atom_end", "trapped"}
  PROVE  ValidInv'
<1>1. GoodAt(pc', mem', job', p') /\ pc' # "aborted"
  BY DEF GoodAt
<1> QED
  BY <1>1, ValidNext

\* An address inside a mapping is between its ends.
LEMMA InsideBounds ==
  ASSUME NEW m, m.gpu_va \in Int, m.length \in Int,
         NEW va \in Int, NEW size \in Nat, Inside(m, va, size)
  PROVE  m.gpu_va <= va /\ va <= m.gpu_va + m.length
BY DEF Inside

\* A structure lies in the mapping that holds its first bytes.
LEMMA HeldTogether ==
  ASSUME SameVaLayouts, ApartLayouts, maps \in Layouts, NEW m, NEW va \in Int,
         NEW part \in Nat, NEW size \in Nat,
         Held(m, va, part), Mapped(va, size)
  PROVE  Held(m, va, size)
<1>1. DOMAIN maps = 1..Len(maps) /\ m \in 1..Len(maps)
  BY LayoutRegions DEF Held
<1>2. PICK j \in 1..Len(maps) : Inside(maps[j], va, size)
  BY <1>1 DEF Mapped
<1>3. /\ maps[j].gpu_va \in Int /\ maps[j].length \in Int
      /\ maps[m].gpu_va \in Int /\ maps[m].length \in Int
  BY <1>1, LayoutNumbers
<1>4. m # j => \/ maps[m].gpu_va + maps[m].length < maps[j].gpu_va
               \/ maps[j].gpu_va + maps[j].length < maps[m].gpu_va
  BY <1>1, <1>2 DEF ApartLayouts
<1>5. Inside(maps[m], va, part)
  BY DEF Held
<1>6. m = j
  <2>1. /\ maps[j].gpu_va <= va /\ va <= maps[j].gpu_va + maps[j].length
        /\ maps[m].gpu_va <= va /\ va <= maps[m].gpu_va + maps[m].length
    BY <1>2, <1>3, <1>5, InsideBounds
  <2> DEFINE lo(k) == maps[k].gpu_va
             hi(k) == maps[k].gpu_va + maps[k].length
  <2>2. /\ lo(j) \in Int /\ hi(j) \in Int /\ lo(m) \in Int /\ hi(m) \in Int
        /\ lo(j) <= va /\ va <= hi(j) /\ lo(m) <= va /\ va <= hi(m)
        /\ m # j => hi(m) < lo(j) \/ hi(j) < lo(m)
    BY <1>3, <1>4, <2>1, SMTT(30)
  <2> HIDE DEF lo, hi
  <2> QED
    BY <2>2
<1> QED
  BY <1>1, <1>2, <1>6 DEF Held

\* The bytes read for an element of an array, with an index that counts bytes,
\* are bytes of the array.
LEMMA MappedElement ==
  ASSUME SameVaLayouts, maps \in Layouts, NEW va \in Int, NEW index \in Nat,
         Mapped(va, (index + 1) * AttrSize)
  PROVE  Mapped(va + index, AttrSize)
<1>1. DOMAIN maps = 1..Len(maps)
  BY LayoutRegions
<1>2. PICK j \in 1..Len(maps) : Inside(maps[j], va, (index + 1) * AttrSize)
  BY <1>1 DEF Mapped
<1>3. maps[j].gpu_va \in Int /\ maps[j].length \in Int
  BY LayoutNumbers
<1>4. Inside(maps[j], va + index, AttrSize)
  BY <1>2, <1>3, SMTT(30) DEF Inside, AttrSize
<1> QED
  BY <1>1, <1>4 DEF Mapped

\* A list goes on where it has a next entry.
LEMMA HeldNextEntry ==
  ASSUME SameVaLayouts, maps \in Layouts, NEW m, NEW va \in Int,
         Held(m, va, 2 * AttrMetaSize)
  PROVE  Held(m, va + AttrMetaSize, AttrMetaSize)
<1>1. m \in 1..Len(maps) /\ Inside(maps[m], va, 2 * AttrMetaSize)
  BY DEF Held
<1>2. maps[m].gpu_va \in Int /\ maps[m].length \in Int
  BY <1>1, LayoutNumbers
<1> QED
  BY <1>1, <1>2, SMTT(30) DEF Held, Inside, AttrMetaSize

\* What follows the first bytes of a structure is where it is.
LEMMA InsideRest ==
  ASSUME NEW m, m.gpu_va \in Int, m.length \in Int, NEW va \in Int,
         NEW rest \in Nat, Inside(m, va, 32 + rest)
  PROVE  Inside(m, va + 32, rest)
BY DEF Inside

\* The payload of a job has a size, whatever its type.
LEMMA PayloadLength ==
  ASSUME NEW type \in JobTypes
  PROVE  /\ PayloadSize[type] \in Nat /\ HeaderSize + DriverSize[type] \in Nat
         /\ type # "other" => DriverSize[type] = PayloadSize[type]
         /\ DriverSize["other"] = 0 /\ PayloadSize["other"] = DumpSize
BY DEF JobTypes, DriverSize, PayloadSize, SetValueSize, VertexSize, DumpSize,
       HeaderSize

\* The payload of a job that has been good so far is read, unless the job is
\* only dumped.
LEMMA PayloadAllowed ==
  ASSUME SameVaLayouts, ApartLayouts, DecodeInv, ValidInv, pc = "payload"
  PROVE  valid => \/ Allowed(mem, Payload, PayloadSize[job.type])
                  \/ OverreadAt(pc)
<1> SUFFICES ASSUME valid, ~OverreadAt(pc)
             PROVE  Allowed(mem, Payload, PayloadSize[job.type])
  OBVIOUS
<1> DEFINE size == PayloadSize[job.type]
           driver == DriverSize[job.type]
<1>1. maps \in Layouts /\ job.va \in Int /\ job.type \in JobTypes
  BY DEF DecodeInv, Job
<1>2. size \in Nat /\ driver \in Nat /\ Payload \in Int
  <2>1. Payload \in Int
    BY <1>1 DEF Payload, HeaderSize
  <2>2. driver \in Nat
    BY <1>1 DEF JobTypes, DriverSize, PayloadSize, SetValueSize, VertexSize
  <2> QED
    BY <1>1, <2>1, <2>2, PayloadLength
<1>3. Held(mem, job.va, HeaderSize + driver)
  BY DEF ValidInv, GoodAt
<1>4. maps[mem].gpu_va \in Int /\ maps[mem].length \in Int
  BY <1>1, <1>3, LayoutNumbers DEF Held
<1> HIDE DEF size, driver
<1>5. Held(mem, Payload, driver)
  <2>1. mem \in 1..Len(maps) /\ Inside(maps[mem], job.va, 32 + driver)
    BY <1>3 DEF Held, HeaderSize
  <2>2. Payload = job.va + 32
    BY DEF Payload, HeaderSize
  <2>3. Inside(maps[mem], Payload, driver)
    BY <1>1, <1>2, <1>4, <2>1, <2>2, InsideRest
  <2> QED
    BY <2>1, <2>3 DEF Held
<1>6. Held(mem, Payload, size)
  <2>1. CASE job.type # "other"
    BY <1>1, <1>5, <2>1, PayloadLength DEF size, driver
  <2>2. CASE job.type = "other"
    <3>1. size = DumpSize
      BY <1>1, <2>2, PayloadLength DEF size
    <3>2. Mapped(Payload, size)
      BY <2>2, <3>1 DEF OverreadAt
    <3> QED
      BY <1>1, <1>2, <1>5, <3>2, HeldTogether
  <2> QED
    BY <2>1, <2>2
<1>7. Allowed(mem, Payload, size)
  BY <1>1, <1>2, <1>6, HeldAllowed
<1> QED
  BY <1>7 DEF size

\* A job header in tracked memory is read, and its mapping holds the
\* driver's payload.
LEMMA HeaderValid ==
  ASSUME SameVaLayouts, ApartLayouts, DecodeInv, ValidInv, Header
  PROVE  ValidInv'
<1> DEFINE k == ContainingIndex(maps, job.va)
<1>1. /\ maps \in Layouts /\ job \in Job /\ job.va \in Int
      /\ HeaderSize \in Nat /\ valid \in BOOLEAN
  BY DEF DecodeInv, Job, ValidInv, HeaderSize
<1>2. CASE Aborts(k, job.va, HeaderSize)
  <2>1. valid => Mapped(job.va, HeaderSize)
    BY DEF ValidInv, GoodAt, Header
  <2>2. valid => Held(k, job.va, HeaderSize)
    BY <1>1, <2>1, MappedFound
  <2>3. valid => Allowed(k, job.va, HeaderSize)
    BY <1>1, <2>2, HeldAllowed
  <2> QED
    BY <1>2, <2>3, AbortValid
<1>3. ASSUME NEW type \in JobTypes, Reads(k, job.va, HeaderSize, "payload"),
             mem' = k, job' = [job EXCEPT !.type = type],
             valid' = (valid /\ Mapped(job.va, HeaderSize + DriverSize[type])),
             UNCHANGED <<maps, p>>
      PROVE  ValidInv'
  <2>1. pc' = "payload" /\ job'.va = job.va /\ job'.type = type
    BY <1>1, <1>3 DEF Reads, Job
  <2>2. HeaderSize + DriverSize[type] \in Nat
    BY PayloadLength
  <2>3. valid' => Mapped(job.va, HeaderSize + DriverSize[type])
    BY <1>3
  <2>4. valid' => Held(k, job.va, HeaderSize + DriverSize[type])
    BY <1>1, <2>2, <2>3, MappedFound
  <2>5. valid' \in BOOLEAN
    BY <1>1, <1>3
  <2> HIDE DEF k
  <2>6. valid' => GoodAt(pc', mem', job', p')
    BY <1>3, <2>1, <2>4 DEF GoodAt
  <2> QED
    BY <1>3, <2>1, <2>5, <2>6, ValidNext
<1> QED
  BY <1>2, <1>3 DEF Header

\* A payload that is only shown is read.
LEMMA PayloadShownValid ==
  ASSUME SameVaLayouts, ApartLayouts, DecodeInv, ValidInv, PayloadShown
  PROVE  ValidInv'
<1> DEFINE size == PayloadSize[job.type]
<1>1. maps \in Layouts /\ job.va \in Int /\ job.type \in JobTypes
  BY DEF DecodeInv, Job
<1>2. size \in Nat /\ Payload \in Int
  <2>1. Payload \in Int
    BY <1>1 DEF Payload, HeaderSize
  <2> QED
    BY <1>1, <2>1, PayloadLength
<1>3. valid => Allowed(mem, Payload, size) \/ OverreadAt(pc)
  BY <1>1, <1>2, PayloadAllowed DEF PayloadShown
<1>4. CASE Aborts(mem, Payload, size)
  BY <1>3, <1>4, AbortValid
<1>5. CASE Reads(mem, Payload, size, "atom_end") /\ UNCHANGED <<maps, valid>>
  <2>1. pc' = "atom_end" /\ valid' \in BOOLEAN
    BY <1>5 DEF Reads, ValidInv
  <2> QED
    BY <1>5, <2>1, QuietValid
<1> QED
  BY <1>4, <1>5 DEF PayloadShown

\* The payload of a vertex or tiler job is read, and says where the shader and
\* the attribute list are.
LEMMA VertexTilerValid ==
  ASSUME SameVaLayouts, ApartLayouts, DecodeInv, ValidInv, VertexTiler
  PROVE  ValidInv'
<1>1. /\ maps \in Layouts /\ job \in Job /\ valid \in BOOLEAN
      /\ pc = "payload" /\ PayloadSize[job.type] = VertexSize
  <2>1. pc = "payload" /\ job.type = "vertex_tiler"
    BY DEF VertexTiler
  <2>2. PayloadSize[job.type] = VertexSize
    BY <2>1 DEF PayloadSize
  <2> QED
    BY <2>1, <2>2 DEF DecodeInv, ValidInv
<1>2. valid => Allowed(mem, Payload, VertexSize) \/ OverreadAt(pc)
  BY <1>1, PayloadAllowed
<1>3. CASE Aborts(mem, Payload, VertexSize)
  BY <1>2, <1>3, AbortValid
<1>4. ASSUME NEW shader, NEW list, NEW attributes,
             job' = [job EXCEPT !.shader = shader, !.attribute_meta = list,
                                !.attributes = attributes],
             valid' = /\ valid
                      /\ shader # 0 => Mapped(shader, ShaderMetaSize)
                      /\ list # 0 => Mapped(list, AttrMetaSize),
             Reads(mem, Payload, VertexSize,
                   IF shader # 0 THEN "shader" ELSE "attributes"),
             maps' = maps
      PROVE  ValidInv'
  <2>1. /\ pc' = IF shader # 0 THEN "shader" ELSE "attributes"
        /\ job'.shader = shader /\ job'.attribute_meta = list
    BY <1>1, <1>4 DEF Reads, Job
  <2>2. valid' \in BOOLEAN
    BY <1>1, <1>4
  <2>3. valid' => /\ shader # 0 => Mapped(shader, ShaderMetaSize)
                  /\ list # 0 => Mapped(list, AttrMetaSize)
    BY <1>4
  <2>4. valid' => GoodAt(pc', mem', job', p')
    BY <2>1, <2>3 DEF GoodAt
  <2> QED
    BY <1>4, <2>1, <2>2, <2>4, ValidNext
<1> QED
  BY <1>3, <1>4 DEF VertexTiler

\* The shader's meta data is read, and says where the shader is.
LEMMA ShaderMetaValid ==
  ASSUME SameVaLayouts, ApartLayouts, DecodeInv, ValidInv, ShaderMeta
  PROVE  ValidInv'
<1>1. /\ maps \in Layouts /\ job \in Job /\ job.shader \in Int
      /\ ShaderMetaSize \in Nat /\ valid \in BOOLEAN /\ pc = "shader"
  BY DEF DecodeInv, Job, ValidInv, ShaderMetaSize, ShaderMeta
<1>2. valid => Allowed(0, job.shader, ShaderMetaSize)
  BY <1>1, MappedAllowed DEF ValidInv, GoodAt
<1>3. CASE Aborts(0, job.shader, ShaderMetaSize)
  BY <1>2, <1>3, AbortValid
<1>4. ASSUME NEW code, Reads(0, job.shader, ShaderMetaSize, "blob"),
             job' = [job EXCEPT !.code = code],
             valid' = (valid /\ Mapped(code, ShaderBytes)), maps' = maps
      PROVE  ValidInv'
  <2>1. /\ pc' = "blob" /\ job'.code = code
        /\ job'.attribute_meta = job.attribute_meta
    BY <1>1, <1>4 DEF Reads, Job
  <2>2. valid' \in BOOLEAN
    BY <1>1, <1>4
  <2>3. valid' => (job.attribute_meta # 0 =>
                     Mapped(job.attribute_meta, AttrMetaSize))
    BY <1>1, <1>4 DEF ValidInv, GoodAt
  <2>4. valid' => GoodAt(pc', mem', job', p')
    BY <2>1, <2>3 DEF GoodAt
  <2> QED
    BY <1>4, <2>1, <2>2, <2>4, ValidNext
<1> QED
  BY <1>3, <1>4 DEF ShaderMeta

\* The shader is dumped, unless it is shorter than the dump.
LEMMA ShaderBlobValid ==
  ASSUME SameVaLayouts, ApartLayouts, DecodeInv, ValidInv, ShaderBlob
  PROVE  ValidInv'
<1>1. /\ maps \in Layouts /\ job.code \in Int /\ ShaderDump \in Nat
      /\ pc = "blob"
  BY DEF DecodeInv, Job, ShaderDump, ShaderBlob
<1>2. Allowed(0, job.code, ShaderDump) \/ OverreadAt(pc)
  BY <1>1, MappedAllowed DEF OverreadAt
<1>3. CASE Aborts(0, job.code, ShaderDump)
  BY <1>2, <1>3, AbortValid
<1>4. CASE /\ Reads(0, job.code, ShaderDump, "attributes")
           /\ UNCHANGED <<maps, job, valid>>
  <2>1. pc' = "attributes"
    BY <1>4 DEF Reads
  <2>2. valid' => GoodAt(pc', mem', job', p')
    BY <1>1, <1>4, <2>1 DEF ValidInv, GoodAt
  <2> QED
    BY <1>4, <2>1, <2>2, ValidNext DEF ValidInv
<1> QED
  BY <1>3, <1>4 DEF ShaderBlob

\* The mapping of the attribute list is found.
LEMMA AttributesValid ==
  ASSUME SameVaLayouts, ApartLayouts, DecodeInv, ValidInv, Attributes
  PROVE  ValidInv'
<1> DEFINE k == ContainingIndex(maps, job.attribute_meta)
<1>1. /\ maps \in Layouts /\ job.attribute_meta \in Int
      /\ AttrMetaSize \in Nat /\ valid \in BOOLEAN /\ pc = "attributes"
      /\ maps' = maps /\ valid' = valid
  BY DEF DecodeInv, Job, ValidInv, AttrMetaSize, Attributes
<1>2. CASE pc' = "atom_end"
  BY <1>1, <1>2, QuietValid
<1>3. CASE /\ job.attribute_meta # 0 /\ mem' = k /\ p' = job.attribute_meta
           /\ pc' = "entry_zero"
  <2>1. valid => Mapped(job.attribute_meta, AttrMetaSize)
    BY <1>1, <1>3 DEF ValidInv, GoodAt
  <2>2. valid => Held(k, job.attribute_meta, AttrMetaSize)
    BY <1>1, <2>1, MappedFound
  <2> HIDE DEF k
  <2>3. valid' => GoodAt(pc', mem', job', p')
    BY <1>1, <1>3, <2>2 DEF GoodAt
  <2> QED
    BY <1>1, <1>3, <2>3, ValidNext
<1> QED
  BY <1>2, <1>3 DEF Attributes

\* The condition of the loop is read, and an entry that is not zero has another after it.
LEMMA EntryIsZeroValid ==
  ASSUME SameVaLayouts, ApartLayouts, DecodeInv, ValidInv, EntryIsZero
  PROVE  ValidInv'
<1>1. /\ maps \in Layouts /\ mem \in 0..Len(maps) /\ p \in Int
      /\ AttrMetaSize \in Nat /\ valid \in BOOLEAN /\ pc = "entry_zero"
  BY DEF DecodeInv, ValidInv, AttrMetaSize, EntryIsZero
<1>2. valid => Held(mem, p, AttrMetaSize)
  BY <1>1 DEF ValidInv, GoodAt
<1>3. valid => Allowed(mem, p, AttrMetaSize)
  BY <1>1, <1>2, HeldAllowed
<1>4. CASE Aborts(mem, p, AttrMetaSize)
  BY <1>3, <1>4, AbortValid
<1>5. CASE Reads(mem, p, AttrMetaSize, "atom_end") /\ UNCHANGED <<maps, valid>>
  <2>1. pc' = "atom_end"
    BY <1>5 DEF Reads
  <2> QED
    BY <1>1, <1>5, <2>1, QuietValid
<1>6. CASE /\ Reads(mem, p, AttrMetaSize, "entry")
           /\ valid' = (valid /\ Mapped(p, 2 * AttrMetaSize))
           /\ UNCHANGED <<maps, mem, job, p>>
  <2>1. pc' = "entry" /\ valid' \in BOOLEAN
    BY <1>1, <1>6 DEF Reads
  <2>2. valid' => Held(mem, p, 2 * AttrMetaSize)
    <3> SUFFICES ASSUME valid, Mapped(p, 2 * AttrMetaSize)
                 PROVE  Held(mem, p, 2 * AttrMetaSize)
      BY <1>6
    <3>1. 2 * AttrMetaSize \in Nat
      BY <1>1
    <3> QED
      BY <1>1, <1>2, <3>1, HeldTogether
  <2>3. valid' => GoodAt(pc', mem', job', p')
    BY <1>6, <2>1, <2>2 DEF GoodAt
  <2> QED
    BY <1>6, <2>1, <2>3, ValidNext
<1> QED
  BY <1>4, <1>5, <1>6 DEF EntryIsZero

\* An entry is read, and names an attribute.
LEMMA EntryValid ==
  ASSUME SameVaLayouts, ApartLayouts, DecodeInv, ValidInv, Entry
  PROVE  ValidInv'
<1>1. /\ maps \in Layouts /\ job \in Job /\ job.attributes \in Int /\ p \in Int
      /\ MappedMemorySize \in Nat /\ valid \in BOOLEAN /\ pc = "entry"
  BY DEF DecodeInv, Job, ValidInv, MappedMemorySize, Entry
<1>2. valid => Held(mem, p, 2 * AttrMetaSize)
  BY <1>1 DEF ValidInv, GoodAt
<1>3. valid => Allowed(mem, p, MappedMemorySize) \/ OverreadAt(pc)
  <2> SUFFICES ASSUME valid, Mapped(p, MappedMemorySize)
               PROVE  Allowed(mem, p, MappedMemorySize)
    BY <1>1 DEF OverreadAt
  <2>1. 2 * AttrMetaSize \in Nat
    BY DEF AttrMetaSize
  <2>2. Held(mem, p, MappedMemorySize)
    BY <1>1, <1>2, <2>1, HeldTogether
  <2> QED
    BY <1>1, <2>2, HeldAllowed
<1>4. CASE Aborts(mem, p, MappedMemorySize)
  BY <1>3, <1>4, AbortValid
<1>5. ASSUME NEW index \in Indices, Reads(mem, p, MappedMemorySize, "attr"),
             job' = [job EXCEPT !.index = index],
             valid' = (valid /\ Mapped(job.attributes,
                                       (index + 1) * AttrSize)),
             UNCHANGED <<maps, mem, p>>
      PROVE  ValidInv'
  <2>1. /\ pc' = "attr" /\ job'.index = index
        /\ job'.attributes = job.attributes
    BY <1>1, <1>5 DEF Reads, Job
  <2>2. valid' \in BOOLEAN
    BY <1>1, <1>5
  <2>3. index \in Nat
    BY SizeAssumption
  <2>4. valid' => /\ Mapped(job'.attributes, (job'.index + 1) * AttrSize)
                  /\ Held(mem, p, 2 * AttrMetaSize)
    BY <1>2, <1>5, <2>1
  <2>5. valid' => GoodAt(pc', mem', job', p')
    BY <1>5, <2>1, <2>3, <2>4 DEF GoodAt
  <2> QED
    BY <1>5, <2>1, <2>2, <2>5, ValidNext
<1> QED
  BY <1>4, <1>5 DEF Entry

\* The attribute is read, and says where its buffer is.
LEMMA AttrValid ==
  ASSUME SameVaLayouts, ApartLayouts, DecodeInv, ValidInv, Attr
  PROVE  ValidInv'
<1>1. /\ maps \in Layouts /\ job \in Job /\ AttrRead \in Int
      /\ AttrSize \in Nat /\ valid \in BOOLEAN /\ pc = "attr"
  <2>1. maps \in Layouts /\ job \in Job
    BY DEF DecodeInv
  <2>2. AttrRead \in Int /\ AttrSize \in Nat
    BY <2>1 DEF Job, AttrRead, AttrSize
  <2> QED
    BY <2>1, <2>2 DEF ValidInv, Attr
<1>2. valid => Held(mem, p, 2 * AttrMetaSize) /\ Mapped(AttrRead, AttrSize)
  <2> SUFFICES ASSUME valid
               PROVE  Held(mem, p, 2 * AttrMetaSize)
                        /\ Mapped(AttrRead, AttrSize)
    OBVIOUS
  <2>1. /\ Held(mem, p, 2 * AttrMetaSize) /\ job.index \in Nat
        /\ Mapped(job.attributes, (job.index + 1) * AttrSize)
    BY <1>1 DEF ValidInv, GoodAt
  <2>2. job.attributes \in Int
    BY <1>1 DEF Job
  <2> QED
    BY <1>1, <2>1, <2>2, MappedElement DEF AttrRead
<1>3. valid => Allowed(0, AttrRead, AttrSize)
  BY <1>1, <1>2, MappedAllowed
<1>4. CASE Aborts(0, AttrRead, AttrSize)
  BY <1>3, <1>4, AbortValid
<1>5. ASSUME NEW elements, NEW size, NEW stride,
             Reads(0, AttrRead, AttrSize, "buffer"),
             job' = [job EXCEPT !.elements = elements, !.size = size,
                                !.stride = stride],
             valid' = (valid /\ (job.index = 0 => Mapped(elements, size))),
             UNCHANGED <<maps, mem, p>>
      PROVE  ValidInv'
  <2>1. /\ pc' = "buffer" /\ job'.elements = elements /\ job'.size = size
        /\ job'.index = job.index
    BY <1>1, <1>5 DEF Reads, Job
  <2>2. valid' \in BOOLEAN
    BY <1>1, <1>5
  <2>3. valid' => /\ Held(mem, p, 2 * AttrMetaSize)
                  /\ job.index = 0 => Mapped(elements, size)
    BY <1>2, <1>5
  <2>4. valid' => GoodAt(pc', mem', job', p')
    BY <1>5, <2>1, <2>3 DEF GoodAt
  <2> QED
    BY <1>5, <2>1, <2>2, <2>4, ValidNext
<1> QED
  BY <1>4, <1>5 DEF Attr

\* The buffer is shown, and the entry after this one is still in the mapping.
LEMMA BufferValid ==
  ASSUME SameVaLayouts, ApartLayouts, DecodeInv, ValidInv, Buffer
  PROVE  ValidInv'
<1>1. /\ maps \in Layouts /\ job.elements \in Int /\ job.size \in Nat
      /\ p \in Int /\ valid \in BOOLEAN /\ pc = "buffer"
  <2>1. maps \in Layouts /\ job \in Job /\ p \in Int
    BY DEF DecodeInv
  <2>2. job.elements \in Int /\ job.size \in Nat
    BY <2>1 DEF Job
  <2> QED
    BY <2>1, <2>2 DEF ValidInv, Buffer
<1>2. valid => /\ Held(mem, p, 2 * AttrMetaSize)
               /\ job.index = 0 => Mapped(job.elements, job.size)
  BY <1>1 DEF ValidInv, GoodAt
<1>3. valid => Allowed(0, job.elements, job.size) \/ OverreadAt(pc)
  BY <1>1, <1>2, MappedAllowed DEF OverreadAt
<1>4. CASE Aborts(0, job.elements, job.size)
  BY <1>3, <1>4, AbortValid
<1>5. CASE /\ Reads(0, job.elements, job.size, "entry_zero")
           /\ p' = p + AttrMetaSize
           /\ UNCHANGED <<maps, mem, valid>>
  <2>1. pc' = "entry_zero" /\ valid' \in BOOLEAN
    BY <1>1, <1>5 DEF Reads
  <2>2. valid => Held(mem, p + AttrMetaSize, AttrMetaSize)
    BY <1>1, <1>2, HeldNextEntry
  <2>3. valid' => GoodAt(pc', mem', job', p')
    BY <1>5, <2>1, <2>2 DEF GoodAt
  <2> QED
    BY <1>5, <2>1, <2>3, ValidNext
<1>6. CASE /\ Reads(0, job.elements, job.size, "trapped")
           /\ UNCHANGED <<maps, valid>>
  <2>1. pc' = "trapped"
    BY <1>6 DEF Reads
  <2> QED
    BY <1>1, <1>6, <2>1, QuietValid
<1> QED
  BY <1>4, <1>5, <1>6 DEF Buffer

(***************************************************************************)
(* Whatever a job holds, the program is aborted only where one of the      *)
(* structures the driver's pointers lead to, as long as the headers say,   *)
(* is not in tracked memory, or where the decoder asks for more than they  *)
(* are: the four of Overread, which the code does, and TLC shows.  It      *)
(* takes mappings that do not touch; without that, TLC finds another job   *)
(* that ends the program.                                                  *)
(***************************************************************************)
THEOREM ValidJobsDecoded ==
  ASSUME SameVaLayouts, ApartLayouts
  PROVE  Spec => []ValidDecoded
<1>1. Init => ValidInv
  BY DEF Init, ValidInv, ValidDecoded, GoodAt
<1>2. DecodeInv /\ ValidInv /\ [Next]_vars => ValidInv'
  <2> SUFFICES ASSUME DecodeInv, ValidInv, [Next]_vars
               PROVE  ValidInv'
    OBVIOUS
  <2> USE DEF ValidInv
  <2>1. CASE Ioctl
    BY <2>1, QuietValid DEF Ioctl
  <2>2. CASE LegacySubmit
    BY <2>2, QuietValid DEF LegacySubmit
  <2>3. CASE Submit
    BY <2>3, QuietValid DEF Submit
  <2>4. CASE Submitted
    BY <2>4, QuietValid DEF Submitted
  <2>5. CASE IoctlReturns
    BY <2>5, QuietValid DEF IoctlReturns
  <2>6. CASE NextAtom
    <3>1. PICK va : /\ job' = [NoJob EXCEPT !.va = va]
                    /\ valid' = (valid /\ Mapped(va, HeaderSize))
      BY <2>6 DEF NextAtom
    <3>2. pc' = "header" /\ maps' = maps /\ job'.va = va
      BY <2>6, <3>1 DEF NextAtom, NoJob
    <3>3. valid' \in BOOLEAN /\ (valid' => Mapped(job'.va, HeaderSize))
      BY <3>1, <3>2
    <3>4. valid' => GoodAt(pc', mem', job', p')
      BY <3>2, <3>3 DEF GoodAt
    <3> QED
      BY <3>2, <3>3, <3>4, ValidNext
  <2>7. CASE AtomEnd
    BY <2>7, QuietValid DEF AtomEnd
  <2>8. CASE Header
    BY <2>8, HeaderValid
  <2>9. CASE PayloadShown
    BY <2>9, PayloadShownValid
  <2>10. CASE VertexTiler
    BY <2>10, VertexTilerValid
  <2>11. CASE ShaderMeta
    BY <2>11, ShaderMetaValid
  <2>12. CASE ShaderBlob
    BY <2>12, ShaderBlobValid
  <2>13. CASE Attributes
    BY <2>13, AttributesValid
  <2>14. CASE EntryIsZero
    BY <2>14, EntryIsZeroValid
  <2>15. CASE Entry
    BY <2>15, EntryValid
  <2>16. CASE Attr
    BY <2>16, AttrValid
  <2>17. CASE Buffer
    BY <2>17, BufferValid
  <2>18. CASE UNCHANGED vars
    BY <2>18 DEF vars, ValidDecoded, Overread, GoodAt, Held, Mapped, Payload
  <2> QED
    BY <2>1, <2>2, <2>3, <2>4, <2>5, <2>6, <2>7, <2>8, <2>9, <2>10, <2>11,
       <2>12, <2>13, <2>14, <2>15, <2>16, <2>17, <2>18
    DEF Next, InSubmit, Decode
<1>3. ValidInv => ValidDecoded
  BY DEF ValidInv
<1> QED
  BY <1>1, <1>2, <1>3, DecodeInvariant, PTL DEF Spec

=============================================================================
