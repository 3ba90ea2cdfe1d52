------------------------- MODULE MappedRangesProofs -------------------------
(***************************************************************************)
(* Proofs about MappedRanges, for pages of any size, any number of pages,  *)
(* tracked mappings and odd calls.                                         *)
(***************************************************************************)
EXTENDS MappedRanges, ListLemmas, FiniteSetTheorems, TLAPS

-----------------------------------------------------------------------------
(* Pages.                                                                  *)

LEMMA Constants ==
  /\ PageSize \in Nat /\ PageSize >= 1 /\ Space \in Nat /\ Space >= 1
  /\ Page \subseteq Nat
BY PageAssumption, SpaceAssumption

\* Products keep the order.
LEMMA Multiples ==
  ASSUME NEW a \in Int, NEW b \in Int
  PROVE  /\ a * PageSize \in Int
         /\ a <= b => a * PageSize <= b * PageSize
         /\ a + 1 <= b => a * PageSize + PageSize <= b * PageSize
<1>1. PageSize \in Nat
  BY Constants
<1>2. ASSUME NEW x \in Nat PROVE x * PageSize \in Nat
  BY <1>1
<1>3. /\ a * PageSize \in Int /\ b * PageSize \in Int
      /\ (b - a) * PageSize = b * PageSize - a * PageSize
      /\ (b - (a + 1)) * PageSize = b * PageSize - a * PageSize - PageSize
  BY <1>1
<1>4. a <= b => a * PageSize <= b * PageSize
  <2> SUFFICES ASSUME a <= b PROVE a * PageSize <= b * PageSize
    OBVIOUS
  <2>1. b - a \in Nat
    OBVIOUS
  <2> QED
    BY <1>2, <1>3, <2>1
<1>5. a + 1 <= b => a * PageSize + PageSize <= b * PageSize
  <2> SUFFICES ASSUME a + 1 <= b
               PROVE  a * PageSize + PageSize <= b * PageSize
    OBVIOUS
  <2>1. b - (a + 1) \in Nat
    OBVIOUS
  <2>2. (b - (a + 1)) * PageSize \in Nat
    BY <1>2, <2>1
  <2> QED
    BY <1>1, <1>3, <2>2
<1> QED
  BY <1>3, <1>4, <1>5

\* The page of a byte.
LEMMA PageOfByte ==
  ASSUME NEW b \in Nat
  PROVE  /\ b \div PageSize \in Nat
         /\ Start(b \div PageSize) <= b
         /\ b < Start(b \div PageSize) + PageSize
BY Constants DEF Start

\* The first byte of a page is in it.
LEMMA PageOfStart ==
  ASSUME NEW p \in Nat
  PROVE  Start(p) \in Nat /\ Start(p) \div PageSize = p
<1> DEFINE q == Start(p) \div PageSize
<1>1. Start(p) \in Nat
  BY Constants DEF Start
<1>2. /\ q \in Nat /\ q * PageSize <= p * PageSize
      /\ p * PageSize < q * PageSize + PageSize
  BY <1>1, PageOfByte DEF Start
<1> HIDE DEF q
<1>3. ~(p + 1 <= q) /\ ~(q + 1 <= p)
  <2>1. p * PageSize \in Int /\ q * PageSize \in Int /\ PageSize >= 1
        /\ PageSize \in Int
    BY <1>2, Multiples, Constants
  <2>2. p + 1 <= q => p * PageSize + PageSize <= q * PageSize
    BY <1>2, Multiples
  <2>3. q + 1 <= p => q * PageSize + PageSize <= p * PageSize
    BY <1>2, Multiples
  <2> QED
    BY <1>2, <2>1, <2>2, <2>3
<1>4. q = p
  BY <1>2, <1>3
<1> QED
  BY <1>1, <1>4 DEF q

\* The number of pages that hold length bytes.
LEMMA PagesNeeded ==
  ASSUME NEW length \in Nat, length >= 1
  PROVE  LET n == (length + PageSize - 1) \div PageSize
         IN n \in Nat /\ n >= 1 /\ length <= n * PageSize
<1> DEFINE n == (length + PageSize - 1) \div PageSize
<1>1. PageSize \in Nat /\ PageSize >= 1 /\ length + PageSize - 1 \in Nat
  BY Constants
<1>2. /\ n \in Nat
      /\ n * PageSize <= length + PageSize - 1
      /\ length + PageSize - 1 < n * PageSize + PageSize
  BY <1>1, PageOfByte DEF Start
<1> HIDE DEF n
<1>3. n # 0
  <2>1. CASE n = 0
    <3>1. n * PageSize = 0
      BY <1>1, <2>1
    <3> QED
      BY <1>1, <1>2, <3>1
  <2> QED
    BY <2>1
<1>4. n * PageSize \in Int
  BY <1>2, Multiples
<1>5. n >= 1 /\ length <= n * PageSize
  BY <1>1, <1>2, <1>3, <1>4
<1> QED
  BY <1>2, <1>5 DEF n

\* The pages of a range: the first is one of them, so is that of each byte,
\* and the range ends in the lower half of the address space.
LEMMA RangePages ==
  ASSUME NEW p \in Nat, NEW length \in Nat, length >= 1
  PROVE  /\ p \in Pages(p, length) /\ \A q \in Pages(p, length) : q >= p
         /\ \A b \in Start(p)..(Start(p) + length - 1) :
              b \div PageSize \in Pages(p, length)
         /\ Pages(p, length) \subseteq Page =>
              2 * (Start(p) + length) < Space
<1> DEFINE n == (length + PageSize - 1) \div PageSize
<1>1. n \in Nat /\ n >= 1 /\ length <= n * PageSize
  BY PagesNeeded
<1>2. Pages(p, length) = p..(p + n - 1)
  BY DEF Pages
<1> HIDE DEF n
<1>3. /\ PageSize \in Nat /\ PageSize >= 1 /\ Space \in Nat
      /\ p * PageSize \in Int /\ n * PageSize \in Int
      /\ (p + n) * PageSize = p * PageSize + n * PageSize
  BY <1>1, Constants, Multiples
<1>4. p \in Pages(p, length) /\ \A q \in Pages(p, length) : q >= p
  BY <1>1, <1>2
<1>5. ASSUME NEW b \in Start(p)..(Start(p) + length - 1)
      PROVE  b \div PageSize \in Pages(p, length)
  <2> DEFINE q == b \div PageSize
  <2>1. b \in Nat /\ p * PageSize <= b /\ b < (p + n) * PageSize
    BY <1>1, <1>3, PageOfStart DEF Start
  <2>2. q \in Nat /\ q * PageSize <= b /\ b < q * PageSize + PageSize
    BY <2>1, PageOfByte DEF Start
  <2> HIDE DEF q
  <2>3. q * PageSize \in Int /\ (p + n) * PageSize \in Int /\ p + n \in Int
    BY <1>1, <2>2, Multiples
  <2>4. ~(q + 1 <= p)
    <3>1. q + 1 <= p => q * PageSize + PageSize <= p * PageSize
      BY <2>2, Multiples
    <3> QED
      BY <1>3, <2>1, <2>2, <2>3, <3>1
  <2>5. ~(p + n <= q)
    <3>1. p + n <= q => (p + n) * PageSize <= q * PageSize
      BY <2>2, <2>3, Multiples
    <3> QED
      BY <1>3, <2>1, <2>2, <2>3, <3>1
  <2>6. q \in p..(p + n - 1)
    BY <1>1, <2>2, <2>4, <2>5
  <2> QED
    BY <1>2, <2>6 DEF q
<1>6. ASSUME Pages(p, length) \subseteq Page
      PROVE  2 * (Start(p) + length) < Space
  <2>1. p + n - 1 \in Page
    BY <1>1, <1>2, <1>6
  <2>2. 2 * ((p + n - 1) + 1) * PageSize < Space
    BY <2>1, PageAssumption
  <2>3. /\ 2 * ((p + n - 1) + 1) * PageSize = 2 * ((p + n) * PageSize)
        /\ (p + n) * PageSize \in Int
    BY <1>1, <1>3
  <2> QED
    BY <1>1, <1>3, <2>2, <2>3 DEF Start
<1> QED
  BY <1>4, <1>5, <1>6

-----------------------------------------------------------------------------
(* The invariant.                                                          *)

\* A tracked mapping as mmap() adds it.
TrackedRegion ==
  {e \in Region :
     /\ e.gpu_va = e.addr /\ e.length >= 1
     /\ \E p \in Page : e.addr = Start(p) /\ Pages(p, e.length) \subseteq Page}

\* The pages of an entry.
Span(i) == Extent(Made(mmaps[i]))

\* A page belongs to a mapping that was made for it.
VmaMade ==
  /\ vma \in [Page -> Vma \cup {Free}]
  /\ \A p \in Page : vma[p] # Free => /\ p \in Extent(vma[p])
                                      /\ Extent(vma[p]) \subseteq Page

\* A mapping of which some page was never touched by an odd call is whole.
VmaWhole ==
  \A p \in Page \ odd : vma[p] # Free =>
    \A q \in Extent(vma[p]) : vma[q] = vma[p]

\* The pages of an entry that is not odd throughout are in no newer entry.
NewestFirst ==
  \A i, j \in 1..Len(mmaps) :
    i < j /\ ~(Span(j) \subseteq odd) => Span(i) \cap Span(j) = {}

RangesInv ==
  /\ mmaps \in Seq(TrackedRegion)
  /\ VmaMade /\ VmaWhole /\ NewestFirst
  /\ StaleOnlyOdd /\ LostOnlyOdd

\* The facts about an entry.
LEMMA EntryMade ==
  ASSUME NEW e \in TrackedRegion
  PROVE  /\ Made(e).kind = "tracked" /\ Made(e).length = e.length
         /\ Made(e).page \in Page /\ Start(Made(e).page) = e.addr
         /\ Made(e) # Free
         /\ Extent(Made(e)) \subseteq Page
         /\ Made(e).page \in Extent(Made(e))
         /\ e.gpu_va = e.addr /\ e.length \in Nat /\ e.length >= 1
         /\ e.addr \in Nat /\ 2 * (e.addr + e.length) < Space
<1>1. PICK p \in Page : e.addr = Start(p) /\ Pages(p, e.length) \subseteq Page
  BY DEF TrackedRegion
<1>2. /\ p \in Nat /\ e.gpu_va = e.addr /\ e.length >= 1
      /\ e.length \in Nat
  BY Constants DEF TrackedRegion, Region, Address
<1>3. e.addr \div PageSize = p /\ e.addr \in Nat
  BY <1>1, <1>2, PageOfStart
<1>4. /\ Made(e).kind = "tracked" /\ Made(e).page = p
      /\ Made(e).length = e.length
  BY <1>3 DEF Made
<1>5. Extent(Made(e)) = Pages(p, e.length)
  BY <1>4 DEF Extent
<1>6. p \in Pages(p, e.length) /\ 2 * (Start(p) + e.length) < Space
  BY <1>1, <1>2, RangePages
<1>7. Made(e) # Free
  BY <1>4 DEF Free
<1> QED
  BY <1>1, <1>2, <1>3, <1>4, <1>5, <1>6, <1>7

\* The same by position, with what the properties say of it.
LEMMA EntryAt ==
  ASSUME RangesInv, NEW i \in 1..Len(mmaps)
  PROVE  /\ mmaps[i] \in TrackedRegion
         /\ Span(i) \subseteq Page
         /\ Made(mmaps[i]) # Free
         /\ \A p \in Span(i) \ odd : vma[p] = Made(mmaps[i])
<1>1. mmaps[i] \in TrackedRegion
  BY DEF RangesInv
<1>2. i \in DOMAIN mmaps
  BY DEF RangesInv
<1> QED
  BY <1>1, <1>2, EntryMade DEF RangesInv, StaleOnlyOdd, Span

\* An entry of which some page is not odd describes a mapping that is there,
\* in full.
LEMMA PlainEntry ==
  ASSUME RangesInv, NEW i \in 1..Len(mmaps), ~(Span(i) \subseteq odd)
  PROVE  \A q \in Span(i) : q \in Page /\ vma[q] = Made(mmaps[i])
<1>1. PICK p \in Span(i) : p \notin odd
  OBVIOUS
<1>2. p \in Page \ odd /\ vma[p] = Made(mmaps[i]) /\ vma[p] # Free
  BY <1>1, EntryAt
<1>3. \A q \in Extent(vma[p]) : vma[q] = vma[p]
  BY <1>2 DEF RangesInv, VmaWhole
<1> QED
  BY <1>2, <1>3, EntryAt DEF Span

\* NewestFirst, spelled out for the next state.
LEMMA NewestFirstNext ==
  ASSUME \A i, j \in 1..Len(mmaps') :
           i < j /\ ~(Extent(Made(mmaps'[j])) \subseteq odd')
             => Extent(Made(mmaps'[i])) \cap Extent(Made(mmaps'[j])) = {}
  PROVE  NewestFirst'
BY DEF NewestFirst, Span, Extent, Made, Pages

-----------------------------------------------------------------------------
(* Changes of the pages.                                                   *)

\* The pages of every mapping the range takes from are odd after an odd call.
LEMMA TakeOdd ==
  ASSUME NEW range, NEW plain, Take(range, plain), ~plain
  PROVE  /\ odd \subseteq odd'
         /\ \A p \in range \cap Page : vma[p] # Free => Extent(vma[p]) \subseteq odd'
<1>1. CASE Touched(range) = {}
  BY <1>1 DEF Take, Touched
<1>2. CASE Touched(range) # {}
  <2>1. odd' = odd \cup UNION {Extent(m) : m \in Touched(range)}
    BY <1>2 DEF Take
  <2> QED
    BY <2>1 DEF Touched
<1> QED
  BY <1>1, <1>2

\* Of the mappings the range takes from, the pages outside it are odd: those
\* without an odd page are taken whole or not at all.
Taken(range) ==
  \A p \in range \cap Page :
    vma[p] # Free => Extent(vma[p]) \subseteq odd' \cup range

\* m is a mapping of that range, or nothing.
Fills(range, m) ==
  /\ range \subseteq Page
  /\ m \in Vma \cup {Free}
  /\ m # Free => Extent(m) = range

LEMMA AssignWhole ==
  ASSUME RangesInv, NEW range, NEW m, Fills(range, m), Assign(range, m),
         odd \subseteq odd', Taken(range)
  PROVE  VmaMade' /\ VmaWhole'
<1>1. /\ vma \in [Page -> Vma \cup {Free}]
      /\ vma' = [p \in Page |-> IF p \in range THEN m ELSE vma[p]]
  BY DEF RangesInv, VmaMade, Assign
<1>2. VmaMade'
  <2>1. vma' \in [Page -> Vma \cup {Free}]
    BY <1>1 DEF Fills
  <2>2. ASSUME NEW p \in Page, vma'[p] # Free
        PROVE  p \in Extent(vma'[p]) /\ Extent(vma'[p]) \subseteq Page
    <3>1. CASE p \in range
      BY <1>1, <2>2, <3>1 DEF Fills
    <3>2. CASE p \notin range
      BY <1>1, <2>2, <3>2 DEF RangesInv, VmaMade
    <3> QED
      BY <3>1, <3>2
  <2> QED
    BY <2>1, <2>2 DEF VmaMade
<1>3. ASSUME NEW p \in Page \ odd', vma'[p] # Free,
             NEW q \in Extent(vma'[p])
      PROVE  vma'[q] = vma'[p]
  <2>1. CASE p \in range
    BY <1>1, <1>3, <2>1 DEF Fills
  <2>2. CASE p \notin range
    <3>1. vma'[p] = vma[p] /\ p \in Page \ odd /\ vma[p] # Free
      BY <1>1, <1>3, <2>2
    <3>2. /\ vma[q] = vma[p] /\ q \in Page
          /\ p \in Extent(vma[p])
      BY <1>3, <3>1 DEF RangesInv, VmaMade, VmaWhole
    <3>3. q \notin range
      <4>1. ~(Extent(vma[p]) \subseteq odd' \cup range)
        BY <1>3, <2>2, <3>2
      <4> QED
        BY <3>1, <3>2, <4>1 DEF Taken
    <3> QED
      BY <1>1, <3>1, <3>2, <3>3
  <2> QED
    BY <2>1, <2>2
<1>4. VmaWhole'
  BY <1>3 DEF VmaWhole
<1> QED
  BY <1>2, <1>4

\* Lengths are those of a mapping.
LEMMA LengthType ==
  ASSUME NEW length \in Lengths
  PROVE  length \in Nat /\ length >= 1
<1>1. Cardinality(Page) \in Nat
  BY PageAssumption, FS_CardinalityType
<1>2. PageSize * Cardinality(Page) \in Int
  BY <1>1, Constants
<1> QED
  BY <1>2 DEF Lengths

\* A record that describes a mapping of a range.
LEMMA NewVma ==
  ASSUME NEW p \in Page, NEW length \in Lengths, NEW kind \in Kinds,
         Pages(p, length) \subseteq Page
  PROVE  LET m == [kind |-> kind, page |-> p, length |-> length]
         IN m \in Vma /\ Fills(Pages(p, length), m) /\ m.kind = kind
<1> DEFINE m == [kind |-> kind, page |-> p, length |-> length]
<1>1. m.kind = kind /\ m.page = p /\ m.length = length
  OBVIOUS
<1>2. length \in Nat /\ length >= 1 /\ p \in Nat
  BY LengthType, Constants
<1>3. 2 * (Start(p) + length) < Space /\ Start(p) \in Nat
  BY <1>2, RangePages, PageOfStart
<1>4. length \in 1..Space
  BY <1>2, <1>3, Constants
<1>5. m \in Vma
  BY <1>4 DEF Vma
<1>6. Extent(m) = Pages(p, length)
  BY DEF Extent
<1> QED
  BY <1>1, <1>5, <1>6 DEF Fills

\* An entry stays right when what changes of its pages is odd.
LEMMA StaleKept ==
  ASSUME RangesInv, NEW range, NEW m, Assign(range, m), odd \subseteq odd',
         NEW i \in 1..Len(mmaps),
         \A q \in range \cap Span(i) : q \in odd'
  PROVE  \A q \in Span(i) \ odd' : vma'[q] = Made(mmaps[i])
<1> SUFFICES ASSUME NEW q \in Span(i) \ odd'
             PROVE  vma'[q] = Made(mmaps[i])
  OBVIOUS
<1>1. q \notin range /\ q \notin odd
  OBVIOUS
<1>2. q \in Page /\ vma[q] = Made(mmaps[i])
  BY <1>1, EntryAt
<1> QED
  BY <1>1, <1>2 DEF Assign

(***************************************************************************)
(* Memory that is not tracked is mapped, perhaps in place of other memory. *)
(***************************************************************************)
LEMMA UntrackedStep ==
  ASSUME RangesInv, NEW range, NEW m, Fills(range, m), Assign(range, m),
         m.kind # "tracked", odd \subseteq odd', mmaps' = mmaps,
         \A p \in range \cap Page : vma[p] # Free => Extent(vma[p]) \subseteq odd'
  PROVE  RangesInv'
<1>1. VmaMade' /\ VmaWhole'
  BY AssignWhole DEF Taken
<1>2. ASSUME NEW i \in 1..Len(mmaps), NEW q \in range \cap Span(i)
      PROVE  q \in odd'
  <2> SUFFICES ASSUME q \notin odd'
               PROVE  FALSE
    OBVIOUS
  <2>1. q \in Page /\ vma[q] = Made(mmaps[i]) /\ vma[q] # Free
    BY EntryAt
  <2> QED
    BY <2>1 DEF Span
<1>3. StaleOnlyOdd'
  <2>1. ASSUME NEW i \in 1..Len(mmaps)
        PROVE  \A q \in Span(i) \ odd' : vma'[q] = Made(mmaps[i])
    BY <1>2, StaleKept
  <2>2. DOMAIN mmaps = 1..Len(mmaps)
    BY DEF RangesInv
  <2> QED
    BY <2>1, <2>2 DEF StaleOnlyOdd, Span, Made
<1>4. LostOnlyOdd'
  <2> SUFFICES ASSUME NEW p \in Page \ odd', vma'[p].kind = "tracked"
               PROVE  \E i \in DOMAIN mmaps : Made(mmaps[i]) = vma'[p]
    BY DEF LostOnlyOdd, Made
  <2>1. vma'[p] = IF p \in range THEN m ELSE vma[p]
    BY DEF Assign
  <2>2. vma'[p] = vma[p]
    BY <2>1
  <2> QED
    BY <2>2 DEF RangesInv, LostOnlyOdd
<1>5. NewestFirst'
  <2>1. ASSUME NEW i \in 1..Len(mmaps), NEW j \in 1..Len(mmaps), i < j,
               ~Span(j) \subseteq odd'
        PROVE  Span(i) \cap Span(j) = {}
    BY <2>1 DEF RangesInv, NewestFirst
  <2>2. \A i : Span(i)' = Span(i)
    BY DEF Span, Made
  <2> QED
    BY <2>1, <2>2 DEF NewestFirst
<1> QED
  BY <1>1, <1>3, <1>4, <1>5 DEF RangesInv

\* mmap() of imported memory and of files.
LEMMA MapUntracked ==
  ASSUME RangesInv, NEW p \in Page, NEW length \in Whole,
         MapImport(p, length) \/ MapOther(p, length)
  PROVE  RangesInv'
<1> DEFINE range == Pages(p, length)
<1>1. length \in Lengths
  BY DEF Whole
<1>2. CASE MapImport(p, length)
  <2> DEFINE m == [kind |-> "import", page |-> p, length |-> length]
  <2>1. /\ range \subseteq Page /\ Assign(range, m)
        /\ odd' = odd /\ mmaps' = mmaps
        /\ \A q \in range \cap Page : vma[q] = Free
    BY <1>2 DEF MapImport
  <2>2. Fills(range, m) /\ m.kind # "tracked"
    BY <1>1, <2>1, NewVma DEF Kinds
  <2> HIDE DEF range, m
  <2> QED
    BY <2>1, <2>2, UntrackedStep
<1>3. CASE MapOther(p, length)
  <2> DEFINE m == [kind |-> "other", page |-> p, length |-> length]
  <2>1. /\ range \subseteq Page /\ Assign(range, m)
        /\ Take(range, FALSE) /\ mmaps' = mmaps
    BY <1>3 DEF MapOther
  <2>2. Fills(range, m) /\ m.kind # "tracked"
    BY <1>1, <2>1, NewVma DEF Kinds
  <2> HIDE DEF range, m
  <2>3. /\ odd \subseteq odd'
        /\ \A q \in range \cap Page : vma[q] # Free => Extent(vma[q]) \subseteq odd'
    BY <2>1, TakeOdd
  <2> QED
    BY <2>1, <2>2, <2>3, UntrackedStep
<1> QED
  BY <1>2, <1>3

(***************************************************************************)
(* GPU memory with a pending allocation is mapped.                         *)
(***************************************************************************)
LEMMA MapTracked ==
  ASSUME RangesInv, NEW p \in Page, NEW length \in Lengths,
         MapDevice(p, length)
  PROVE  RangesInv'
<1> DEFINE range == Pages(p, length)
           m == [kind |-> "tracked", page |-> p, length |-> length]
           e == Entry(p, length)
<1>1. /\ range \subseteq Page /\ Assign(range, m)
      /\ odd' = odd /\ mmaps' = Cons(e, mmaps)
      /\ \A q \in range : vma[q] = Free
  BY DEF MapDevice
<1>2. Fills(range, m) /\ m.kind = "tracked"
  BY <1>1, NewVma DEF Kinds
<1>3. /\ length \in Nat /\ length >= 1 /\ p \in Nat
      /\ Start(p) \in Nat /\ Start(p) \div PageSize = p
      /\ 2 * (Start(p) + length) < Space
  BY <1>1, LengthType, Constants, PageOfStart, RangePages
<1>4. e \in TrackedRegion /\ Made(e) = m /\ m # Free
  <2>1. e.gpu_va = Start(p) /\ e.addr = Start(p) /\ e.length = length
    BY DEF Entry
  <2>2. e \in Region
    <3>1. Start(p) \in Address /\ length \in Address
      BY <1>3, Constants DEF Address
    <3>2. Start(p) + length < Space
      BY <1>3, Constants
    <3> QED
      BY <3>1, <3>2 DEF Region, Entry
  <2>3. e \in TrackedRegion
    BY <1>1, <1>3, <2>1, <2>2 DEF TrackedRegion
  <2> QED
    BY <1>3, <2>1, <2>3 DEF Made, Free
<1> HIDE DEF range, m, e
<1>5. VmaMade' /\ VmaWhole'
  <2>1. Taken(range)
    BY <1>1 DEF Taken
  <2> QED
    BY <1>1, <1>2, <2>1, AssignWhole
<1>6. mmaps \in Seq(TrackedRegion)
  BY DEF RangesInv
<1>7. mmaps' \in Seq(TrackedRegion)
  BY <1>1, <1>4, <1>6, ConsType
<1>8. Added(mmaps, e, mmaps')
  BY <1>1, <1>4, <1>6, EntriesAdded
<1>9. /\ Len(mmaps) \in Nat /\ Len(mmaps') \in Nat
      /\ 1 \in 1..Len(mmaps') /\ mmaps'[1] = e
      /\ \A i \in 1..Len(mmaps') :
           i = 1 \/ (i - 1 \in 1..Len(mmaps) /\ mmaps'[i] = mmaps[i - 1])
      /\ \A j \in 1..Len(mmaps) : j + 1 \in 1..Len(mmaps') /\ mmaps'[j + 1] = mmaps[j]
  BY <1>8 DEF Added
<1>10. Extent(m) = range
  BY <1>2, <1>4 DEF Fills
<1>11. ASSUME NEW i \in 1..Len(mmaps), NEW q \in range \cap Span(i)
       PROVE  q \in odd
  <2>1. q \notin odd => vma[q] = Made(mmaps[i]) /\ Made(mmaps[i]) # Free
    BY EntryAt
  <2> QED
    BY <1>1, <2>1
<1>12. StaleOnlyOdd'
  <2>1. ASSUME NEW i \in 1..Len(mmaps')
        PROVE  \A q \in Extent(Made(mmaps'[i])) \ odd' : vma'[q] = Made(mmaps'[i])
    <3>1. CASE i = 1
      BY <1>1, <1>4, <1>9, <1>10, <3>1 DEF Assign
    <3>2. CASE i # 1
      <4>1. i - 1 \in 1..Len(mmaps) /\ mmaps'[i] = mmaps[i - 1]
        BY <1>9, <3>2
      <4>2. \A q \in Span(i - 1) \ odd' : vma'[q] = Made(mmaps[i - 1])
        BY <1>1, <1>11, <4>1, StaleKept
      <4> QED
        BY <4>1, <4>2 DEF Span
    <3> QED
      BY <3>1, <3>2
  <2>2. DOMAIN mmaps' = 1..Len(mmaps')
    BY <1>7
  <2> QED
    BY <2>1, <2>2 DEF StaleOnlyOdd, Made
<1>13. LostOnlyOdd'
  <2> SUFFICES ASSUME NEW q \in Page \ odd', vma'[q].kind = "tracked"
               PROVE  \E i \in DOMAIN mmaps' : Made(mmaps'[i]) = vma'[q]
    BY DEF LostOnlyOdd, Made
  <2>1. DOMAIN mmaps' = 1..Len(mmaps') /\ DOMAIN mmaps = 1..Len(mmaps)
    BY <1>6, <1>7
  <2>2. CASE q \in range
    BY <1>1, <1>4, <1>9, <2>1, <2>2 DEF Assign
  <2>3. CASE q \notin range
    <3>1. vma'[q] = vma[q] /\ q \notin odd
      BY <1>1, <2>3 DEF Assign
    <3>2. PICK j \in 1..Len(mmaps) : Made(mmaps[j]) = vma[q]
      BY <2>1, <3>1 DEF RangesInv, LostOnlyOdd
    <3>3. j + 1 \in DOMAIN mmaps' /\ mmaps'[j + 1] = mmaps[j]
      BY <1>9, <2>1
    <3> QED
      BY <3>1, <3>2, <3>3
  <2> QED
    BY <2>2, <2>3
<1>14. NewestFirst'
  <2> SUFFICES ASSUME NEW i \in 1..Len(mmaps'), NEW j \in 1..Len(mmaps'), i < j,
                      ~(Extent(Made(mmaps'[j])) \subseteq odd')
               PROVE  Extent(Made(mmaps'[i])) \cap Extent(Made(mmaps'[j])) = {}
    BY NewestFirstNext
  <2>1. j - 1 \in 1..Len(mmaps) /\ mmaps'[j] = mmaps[j - 1]
    BY <1>9
  <2>2. ~(Span(j - 1) \subseteq odd)
    BY <1>1, <2>1 DEF Span
  <2>3. CASE i = 1
    <3>1. \A q \in Span(j - 1) : vma[q] # Free
      BY <2>1, <2>2, PlainEntry, EntryAt
    <3> QED
      BY <1>1, <1>4, <1>9, <1>10, <2>1, <2>3, <3>1 DEF Span
  <2>4. CASE i # 1
    <3>1. i - 1 \in 1..Len(mmaps) /\ mmaps'[i] = mmaps[i - 1] /\ i - 1 < j - 1
      BY <1>9, <2>4
    <3>2. Span(i - 1) \cap Span(j - 1) = {}
      BY <2>1, <2>2, <3>1 DEF RangesInv, NewestFirst
    <3> QED
      BY <2>1, <3>1, <3>2 DEF Span
  <2> QED
    BY <2>3, <2>4
<1> QED
  BY <1>5, <1>7, <1>12, <1>13, <1>14 DEF RangesInv

-----------------------------------------------------------------------------
(* munmap().                                                               *)

\* Where the entry was that is now the i-th, when the k-th was removed.
Old(k, i) == IF k = 0 \/ i < k THEN i ELSE i + 1

\* The entry that starts at page p and goes, if there is one, is the newest
\* of those; the others keep their order.
Untracked(p, k) ==
  /\ k \in 0..Len(mmaps) /\ Len(mmaps') \in Nat
  /\ k # 0 => mmaps[k].addr = Start(p)
  /\ \A o \in 1..Len(mmaps) : mmaps[o].addr = Start(p) => k # 0 /\ k <= o
  /\ \A i \in 1..Len(mmaps') :
       /\ Old(k, i) \in 1..Len(mmaps) /\ Old(k, i) # k
       /\ mmaps'[i] = mmaps[Old(k, i)]
  /\ \A o \in 1..Len(mmaps) :
       o # k => \E i \in 1..Len(mmaps') : mmaps'[i] = mmaps[o]

LEMMA UntrackNewest ==
  ASSUME mmaps \in Seq(TrackedRegion), NEW p \in Page, Untrack(Start(p))
  PROVE  mmaps' \in Seq(TrackedRegion) /\ \E k : Untracked(p, k)
<1> DEFINE I == {j \in 1..Len(mmaps) : mmaps[j].addr = Start(p)}
           k == IF I # {} THEN Min(I) ELSE 0
<1>1. mmaps' = IF k = 0 THEN mmaps ELSE RemoveAt(mmaps, k)
  BY DEF Untrack, SelectInSeq
<1>2. I \in SUBSET (1..Len(mmaps)) /\ Len(mmaps) \in Nat
  OBVIOUS
<1> HIDE DEF k
<1>3. /\ k \in 0..Len(mmaps)
      /\ k # 0 => k \in I /\ \A j \in I : k <= j
      /\ k = 0 => I = {}
  <2> HIDE DEF I
  <2> QED
    BY <1>2, FirstPosition DEF k
<1>4. /\ k # 0 => mmaps[k].addr = Start(p)
      /\ \A o \in 1..Len(mmaps) : mmaps[o].addr = Start(p) => k # 0 /\ k <= o
  BY <1>3
<1> HIDE DEF I
<1>5. CASE k = 0
  <2>1. \A i \in 1..Len(mmaps) : Old(k, i) = i
    BY <1>5 DEF Old
  <2>2. Untracked(p, k)
    BY <1>1, <1>2, <1>3, <1>4, <1>5, <2>1 DEF Untracked
  <2> QED
    BY <1>1, <1>5, <2>2
<1>6. CASE k # 0
  <2>1. k \in 1..Len(mmaps) /\ mmaps' = RemoveAt(mmaps, k)
    BY <1>1, <1>2, <1>3, <1>6
  <2>2. mmaps' \in Seq(TrackedRegion)
    BY <2>1, RemoveAtProperties
  <2>3. Left(mmaps, k, mmaps')
    BY <2>1, EntriesLeft
  <2>4. \A i \in 1..Len(mmaps') : Old(k, i) = IF i < k THEN i ELSE i + 1
    BY <1>6 DEF Old
  <2>5. Untracked(p, k)
    BY <1>2, <1>3, <1>4, <2>3, <2>4 DEF Untracked, Left
  <2> QED
    BY <2>2, <2>5
<1> QED
  BY <1>5, <1>6

\* The entries that are left are still in their order.
LEMMA OrderKept ==
  ASSUME RangesInv, odd \subseteq odd', NEW p, NEW k, Untracked(p, k)
  PROVE  NewestFirst'
<1> SUFFICES ASSUME NEW i \in 1..Len(mmaps'), NEW j \in 1..Len(mmaps'), i < j,
                    ~(Extent(Made(mmaps'[j])) \subseteq odd')
             PROVE  Extent(Made(mmaps'[i])) \cap Extent(Made(mmaps'[j])) = {}
  BY NewestFirstNext
<1>1. /\ Old(k, i) \in 1..Len(mmaps) /\ mmaps'[i] = mmaps[Old(k, i)]
      /\ Old(k, j) \in 1..Len(mmaps) /\ mmaps'[j] = mmaps[Old(k, j)]
  BY DEF Untracked
<1>2. Old(k, i) < Old(k, j)
  BY DEF Old, Untracked
<1>3. ~(Span(Old(k, j)) \subseteq odd)
  BY <1>1 DEF Span
<1>4. Span(Old(k, i)) \cap Span(Old(k, j)) = {}
  BY <1>1, <1>2, <1>3 DEF RangesInv, NewestFirst
<1> QED
  BY <1>1, <1>4 DEF Span

\* An entry of a mapping that is not odd is the newest at its address.
LEMMA NewestThere ==
  ASSUME RangesInv, NEW p \in Page, NEW k, Untracked(p, k),
         NEW o \in 1..Len(mmaps), ~(Span(o) \subseteq odd),
         mmaps[o].addr = Start(p)
  PROVE  o = k
<1> SUFFICES ASSUME o # k
             PROVE  FALSE
  OBVIOUS
<1>1. /\ k # 0 /\ k <= o /\ k \in 0..Len(mmaps) /\ Len(mmaps) \in Nat
      /\ mmaps[k].addr = Start(p)
  BY DEF Untracked, RangesInv
<1>2. k \in 1..Len(mmaps) /\ k < o
  BY <1>1
<1>3. Span(k) \cap Span(o) = {}
  BY <1>2 DEF RangesInv, NewestFirst
<1>4. /\ Made(mmaps[k]).page \in Span(k) /\ Made(mmaps[o]).page \in Span(o)
  BY <1>2, EntryAt, EntryMade DEF Span
<1>5. Made(mmaps[k]).page = Made(mmaps[o]).page
  BY <1>1 DEF Made
<1> QED
  BY <1>3, <1>4, <1>5

\* The invariant without an entry, once the pages are settled.
LEMMA UntrackStep ==
  ASSUME RangesInv, VmaMade', VmaWhole', odd \subseteq odd', NEW p \in Page,
         mmaps' \in Seq(TrackedRegion), NEW k, Untracked(p, k),
         \A o \in 1..Len(mmaps) :
           o # k => \A q \in Span(o) \ odd' : vma'[q] = Made(mmaps[o]),
         \A q \in Page \ odd' :
           vma'[q].kind = "tracked" =>
             \E o \in 1..Len(mmaps) : o # k /\ Made(mmaps[o]) = vma'[q]
  PROVE  RangesInv'
<1>1. DOMAIN mmaps' = 1..Len(mmaps')
  OBVIOUS
<1>2. StaleOnlyOdd'
  <2> SUFFICES ASSUME NEW i \in 1..Len(mmaps'),
                      NEW q \in Extent(Made(mmaps'[i])) \ odd'
               PROVE  vma'[q] = Made(mmaps'[i])
    BY <1>1 DEF StaleOnlyOdd, Made, Extent, Pages
  <2>1. /\ Old(k, i) \in 1..Len(mmaps) /\ Old(k, i) # k
        /\ mmaps'[i] = mmaps[Old(k, i)]
    BY DEF Untracked
  <2> QED
    BY <2>1 DEF Span
<1>3. LostOnlyOdd'
  <2> SUFFICES ASSUME NEW q \in Page \ odd', vma'[q].kind = "tracked"
               PROVE  \E i \in DOMAIN mmaps' : Made(mmaps'[i]) = vma'[q]
    BY DEF LostOnlyOdd, Made
  <2>1. PICK o \in 1..Len(mmaps) : o # k /\ Made(mmaps[o]) = vma'[q]
    OBVIOUS
  <2>2. PICK i \in 1..Len(mmaps') : mmaps'[i] = mmaps[o]
    BY <2>1 DEF Untracked
  <2> QED
    BY <1>1, <2>1, <2>2
<1>4. NewestFirst'
  BY OrderKept
<1> QED
  BY <1>2, <1>3, <1>4 DEF RangesInv

\* The entry that goes has the page munmap() was called with.
LEMMA Removed ==
  ASSUME RangesInv, NEW p \in Page, NEW k \in 1..Len(mmaps), Untracked(p, k)
  PROVE  p \in Span(k)
<1>1. k # 0
  <2>1. Len(mmaps) \in Nat
    BY DEF RangesInv
  <2> QED
    BY <2>1
<1>2. mmaps[k].addr = Start(p)
  BY <1>1 DEF Untracked
<1>3. p \in Nat
  BY Constants
<1>4. Made(mmaps[k]).page = p
  BY <1>2, <1>3, PageOfStart DEF Made
<1> QED
  BY <1>4, EntryAt, EntryMade DEF Span

\* A tracked page no odd call touched has its entry.
LEMMA TrackedPage ==
  ASSUME RangesInv, NEW q \in Page \ odd, vma[q].kind = "tracked"
  PROVE  \E o \in 1..Len(mmaps) : Made(mmaps[o]) = vma[q] /\ q \in Span(o)
<1>1. DOMAIN mmaps = 1..Len(mmaps)
  BY DEF RangesInv
<1>2. PICK o \in 1..Len(mmaps) : Made(mmaps[o]) = vma[q]
  BY <1>1 DEF RangesInv, LostOnlyOdd
<1>3. vma[q] # Free
  BY <1>2, EntryAt
<1>4. q \in Extent(vma[q])
  BY <1>3 DEF RangesInv, VmaMade
<1> QED
  BY <1>2, <1>4 DEF Span

\* A munmap() the kernel refuses.
LEMMA MunmapFailsInv ==
  ASSUME RangesInv, NEW p \in Page, MunmapFails(p)
  PROVE  RangesInv'
<1>1. Take({p}, FALSE) /\ Untrack(Start(p)) /\ vma' = vma
  BY DEF MunmapFails
<1>2. /\ odd \subseteq odd'
      /\ vma[p] # Free => Extent(vma[p]) \subseteq odd'
  BY <1>1, TakeOdd
<1>3. mmaps' \in Seq(TrackedRegion) /\ \E k : Untracked(p, k)
  BY <1>1, UntrackNewest DEF RangesInv
<1>4. PICK k : Untracked(p, k)
  BY <1>3
<1>5. VmaMade' /\ VmaWhole'
  <2>1. /\ VmaMade /\ VmaWhole
        /\ \A m : Extent(m)' = Extent(m)
    BY DEF RangesInv, Extent, Pages
  <2> QED
    BY <1>1, <1>2, <2>1 DEF VmaMade, VmaWhole, Extent
<1>6. ASSUME NEW o \in 1..Len(mmaps), NEW q \in Span(o) \ odd'
      PROVE  vma'[q] = Made(mmaps[o])
  BY <1>1, <1>2, EntryAt
<1>7. ASSUME NEW q \in Page \ odd', vma'[q].kind = "tracked"
      PROVE  \E o \in 1..Len(mmaps) : o # k /\ Made(mmaps[o]) = vma'[q]
  <2>1. q \in Page \ odd /\ vma[q].kind = "tracked"
    BY <1>1, <1>2, <1>7
  <2>2. PICK o \in 1..Len(mmaps) : Made(mmaps[o]) = vma[q] /\ q \in Span(o)
    BY <2>1, TrackedPage
  <2>3. o # k
    <3> SUFFICES ASSUME o = k
                 PROVE  FALSE
      OBVIOUS
    <3>1. p \in Span(o)
      BY <1>4, Removed
    <3>2. vma[p] = Made(mmaps[o]) /\ Made(mmaps[o]) # Free
      BY <2>1, <2>2, <3>1, PlainEntry, EntryAt
    <3> QED
      BY <1>2, <1>7, <2>2, <3>2 DEF Span
  <2> QED
    BY <1>1, <2>2, <2>3
<1> QED
  BY <1>2, <1>3, <1>4, <1>5, <1>6, <1>7, UntrackStep

\* A range that is a mapping starts with the first page of it.
LEMMA SameStart ==
  ASSUME NEW p \in Page, NEW length \in Lengths,
         NEW o \in 1..Len(mmaps), RangesInv,
         Pages(p, length) = Span(o)
  PROVE  Made(mmaps[o]).page = p /\ mmaps[o].addr = Start(p)
<1> DEFINE m == Made(mmaps[o])
<1>1. /\ m.page \in Page /\ m.length \in Nat /\ m.length >= 1
      /\ Start(m.page) = mmaps[o].addr
  BY EntryAt, EntryMade
<1>2. length \in Nat /\ length >= 1 /\ p \in Nat /\ m.page \in Nat
  BY <1>1, LengthType, Constants
<1>3. /\ p \in Pages(p, length) /\ m.page \in Pages(m.page, m.length)
      /\ \A q \in Pages(p, length) : q >= p
      /\ \A q \in Pages(m.page, m.length) : q >= m.page
  BY <1>1, <1>2, RangePages
<1>4. Pages(p, length) = Pages(m.page, m.length)
  BY DEF Span, Extent
<1> HIDE DEF m
<1>5. p >= m.page /\ m.page >= p
  BY <1>3, <1>4
<1>6. m.page = p
  BY <1>2, <1>5
<1> QED
  BY <1>1, <1>6 DEF m

\* A munmap() of a whole mapping, of a part, or of several.
LEMMA MunmapInv ==
  ASSUME RangesInv, NEW p \in Page, NEW length \in Whole, Munmap(p, length)
  PROVE  RangesInv'
<1> DEFINE range == Pages(p, length)
<1>1. /\ range \subseteq Page /\ Take(range, IsWhole(range))
      /\ Assign(range, Free) /\ Untrack(Start(p))
  BY DEF Munmap
<1>2. length \in Lengths
  BY DEF Whole
<1>3. p \in range
  BY <1>2, LengthType, Constants, RangePages
<1>4. /\ odd \subseteq odd'
      /\ \A q \in range :
           vma[q] # Free => \/ Extent(vma[q]) \subseteq odd'
                            \/ Extent(vma[q]) = range
  <2>1. CASE IsWhole(range)
    <3>1. odd' = odd
      BY <1>1, <2>1 DEF Take
    <3>2. PICK m \in Touched(range) :
            range = Extent(m) /\ \A q \in range : vma[q] = m
      BY <2>1 DEF IsWhole
    <3> QED
      BY <3>1, <3>2
  <2>2. CASE ~IsWhole(range)
    BY <1>1, <2>2, TakeOdd
  <2> QED
    BY <2>1, <2>2
<1> HIDE DEF range
<1>5. PICK k : Untracked(p, k)
  BY <1>1, UntrackNewest DEF RangesInv
<1>6. mmaps' \in Seq(TrackedRegion)
  BY <1>1, UntrackNewest DEF RangesInv
<1>7. VmaMade' /\ VmaWhole'
  <2>1. Taken(range) /\ Fills(range, Free)
    BY <1>1, <1>4 DEF Taken, Fills
  <2> QED
    BY <1>1, <1>4, <2>1, AssignWhole
<1>8. ASSUME NEW o \in 1..Len(mmaps), o # k
      PROVE  \A q \in Span(o) \ odd' : vma'[q] = Made(mmaps[o])
  <2>1. ASSUME NEW q \in range \cap Span(o), q \notin odd'
        PROVE  FALSE
    <3>1. vma[q] = Made(mmaps[o]) /\ vma[q] # Free
      BY <1>4, <2>1, EntryAt
    <3>2. range = Span(o)
      BY <1>4, <2>1, <3>1 DEF Span
    <3>3. mmaps[o].addr = Start(p)
      BY <1>2, <3>2, SameStart DEF range
    <3>4. ~(Span(o) \subseteq odd)
      BY <1>4, <2>1
    <3> QED
      BY <1>5, <1>8, <3>3, <3>4, NewestThere
  <2> QED
    BY <1>1, <1>4, <2>1, StaleKept
<1>9. ASSUME NEW q \in Page \ odd', vma'[q].kind = "tracked"
      PROVE  \E o \in 1..Len(mmaps) : o # k /\ Made(mmaps[o]) = vma'[q]
  <2>1. vma' = [r \in Page |-> IF r \in range THEN Free ELSE vma[r]]
    BY <1>1 DEF Assign
  <2>2. q \notin range /\ vma'[q] = vma[q]
    BY <1>9, <2>1 DEF Free
  <2>3. PICK o \in 1..Len(mmaps) : Made(mmaps[o]) = vma[q] /\ q \in Span(o)
    BY <1>4, <1>9, <2>2, TrackedPage
  <2>4. o # k
    <3> SUFFICES ASSUME o = k
                 PROVE  FALSE
      OBVIOUS
    <3>1. p \in Span(o)
      BY <1>5, Removed
    <3>2. vma[p] = Made(mmaps[o]) /\ Made(mmaps[o]) # Free
      BY <1>4, <1>9, <2>3, <3>1, PlainEntry, EntryAt
    <3> QED
      BY <1>3, <1>4, <1>9, <2>2, <2>3, <3>2 DEF Span
  <2> QED
    BY <2>2, <2>3, <2>4
<1> QED
  BY <1>4, <1>5, <1>6, <1>7, <1>8, <1>9, UntrackStep

-----------------------------------------------------------------------------
(* The theorems.                                                           *)

\* Nothing is mapped and nothing tracked at the start.
LEMMA RangesInit == Init => RangesInv
<1> SUFFICES ASSUME Init
             PROVE  RangesInv
  OBVIOUS
<1>1. /\ mmaps = <<>> /\ Len(mmaps) = 0
      /\ vma = [p \in Page |-> Free] /\ odd = {}
  BY DEF Init
<1>2. mmaps \in Seq(TrackedRegion) /\ DOMAIN mmaps = {}
  BY <1>1
<1>3. VmaMade /\ VmaWhole
  BY <1>1 DEF VmaMade, VmaWhole
<1>4. StaleOnlyOdd /\ NewestFirst
  BY <1>1, <1>2 DEF StaleOnlyOdd, NewestFirst
<1>5. LostOnlyOdd
  BY <1>1 DEF LostOnlyOdd, Free
<1> QED
  BY <1>2, <1>3, <1>4, <1>5 DEF RangesInv

LEMMA RangesInvariant == Spec => []RangesInv
<1>1. RangesInv /\ [Next]_vars => RangesInv'
  <2> SUFFICES ASSUME RangesInv, [Next]_vars
               PROVE  RangesInv'
    OBVIOUS
  <2>1. ASSUME NEW p \in Page, NEW length \in Lengths, MapDevice(p, length)
        PROVE  RangesInv'
    BY <2>1, MapTracked
  <2>2. ASSUME NEW p \in Page, NEW length \in Whole,
               MapImport(p, length) \/ MapOther(p, length)
        PROVE  RangesInv'
    BY <2>2, MapUntracked
  <2>3. ASSUME NEW p \in Page, NEW length \in Whole, Munmap(p, length)
        PROVE  RangesInv'
    BY <2>3, MunmapInv
  <2>4. ASSUME NEW p \in Page, MunmapFails(p)
        PROVE  RangesInv'
    BY <2>4, MunmapFailsInv
  <2>5. CASE UNCHANGED vars
    BY <2>5 DEF vars, RangesInv, VmaMade, VmaWhole, NewestFirst, StaleOnlyOdd,
       LostOnlyOdd, Span, Made, Extent, Pages
  <2> QED
    BY <2>1, <2>2, <2>3, <2>4, <2>5 DEF Next
<1> QED
  BY <1>1, RangesInit, PTL DEF Spec

(***************************************************************************)
(* panwrap is wrong about the pages of a tracked mapping only where a call *)
(* took a part of it, took it with others or replaced it, for mappings of  *)
(* any length and any ranges passed to munmap() and MAP_FIXED.             *)
(***************************************************************************)
THEOREM EntriesAreThere == Spec => []StaleOnlyOdd
BY RangesInvariant, PTL DEF RangesInv

(***************************************************************************)
(* No mapping without such a call is forgotten.                            *)
(***************************************************************************)
THEOREM NoneForgotten == Spec => []LostOnlyOdd
BY RangesInvariant, PTL DEF RangesInv

-----------------------------------------------------------------------------
(* Accesses.                                                               *)

\* Addresses that do not wrap around.
LEMMA WrapSmall ==
  ASSUME NEW x \in Nat, x < Space
  PROVE  Wrap(x) = x
BY Constants DEF Wrap

\* The lookup returns the newest entry that passes its test.
LEMMA ContainingNewest ==
  ASSUME RangesInv, NEW va, NEW i, i = ContainingIndex(mmaps, va)
  PROVE  /\ i \in 0..Len(mmaps)
         /\ i # 0 => IsContained(va, mmaps[i])
         /\ \A o \in 1..Len(mmaps) :
              IsContained(va, mmaps[o]) => i # 0 /\ i <= o
<1> DEFINE I == {j \in 1..Len(mmaps) : IsContained(va, mmaps[j])}
<1>1. i = IF I # {} THEN Min(I) ELSE 0
  BY DEF ContainingIndex, SelectInSeq
<1>2. I \in SUBSET (1..Len(mmaps)) /\ Len(mmaps) \in Nat
  BY DEF RangesInv
<1>3. /\ i \in 0..Len(mmaps)
      /\ i # 0 => i \in I /\ \A j \in I : i <= j
      /\ i = 0 => I = {}
  <2> HIDE DEF I
  <2> QED
    BY <1>1, <1>2, FirstPosition
<1> QED
  BY <1>3

\* The bytes of an entry are in its pages.
LEMMA ByteOfEntry ==
  ASSUME RangesInv, NEW i \in 1..Len(mmaps),
         NEW b \in mmaps[i].addr..(mmaps[i].addr + mmaps[i].length - 1)
  PROVE  b \div PageSize \in Span(i)
<1> DEFINE m == Made(mmaps[i])
<1>1. /\ m.page \in Page /\ Start(m.page) = mmaps[i].addr
      /\ m.length = mmaps[i].length /\ m.length \in Nat /\ m.length >= 1
  BY EntryAt, EntryMade
<1>2. m.page \in Nat
  BY <1>1, Constants
<1> HIDE DEF m
<1>3. b \div PageSize \in Pages(m.page, m.length)
  BY <1>1, <1>2, RangePages
<1> QED
  BY <1>3 DEF Span, Extent, m

\* The bounds check of an entry, for accesses that start in it.
LEMMA BoundsCheck ==
  ASSUME RangesInv, NEW i \in 1..Len(mmaps), NEW va \in Nat, NEW size \in Nat,
         mmaps[i].gpu_va <= va, va + size < Space
  PROVE  OutOfBounds(mmaps[i], va, size)
           <=> va + size > mmaps[i].addr + mmaps[i].length
<1>1. /\ mmaps[i].gpu_va = mmaps[i].addr /\ mmaps[i].addr \in Nat
      /\ mmaps[i].length \in Nat
  BY EntryAt, EntryMade
<1>2. /\ va - mmaps[i].gpu_va \in Nat /\ va - mmaps[i].gpu_va < Space
      /\ size + (va - mmaps[i].gpu_va) \in Nat
      /\ size + (va - mmaps[i].gpu_va) < Space
  BY <1>1, Constants
<1>3. /\ Wrap(va - mmaps[i].gpu_va) = va - mmaps[i].gpu_va
      /\ Wrap(size + (va - mmaps[i].gpu_va)) = size + (va - mmaps[i].gpu_va)
  BY <1>2, WrapSmall
<1> QED
  BY <1>1, <1>3 DEF OutOfBounds

(***************************************************************************)
(* An access inside a mapping no odd call touched is let through, and goes *)
(* to that mapping, also when stale entries overlap it; only an entry that *)
(* ends exactly at the address can be in the way.                          *)
(***************************************************************************)
THEOREM LiveMappingsReadable == Spec => []LiveReadable
<1>1. RangesInv => LiveReadable
  <2> SUFFICES ASSUME RangesInv,
                      NEW m \in {vma[p] : p \in Page \ odd} \ {Free},
                      m.kind = "tracked",
                      NEW va \in Start(m.page)..(Start(m.page) + m.length - 1),
                      NEW i, i = ContainingIndex(mmaps, va)
               PROVE  /\ i # 0
                      /\ \/ EndsAt(mmaps[i], va)
                         \/ /\ Made(mmaps[i]) = m
                            /\ \A size \in 1..(Start(m.page) + m.length - va) :
                                 ~OutOfBounds(mmaps[i], va, size)
    BY DEF LiveReadable
  <2>1. PICK p \in Page \ odd : vma[p] = m
    OBVIOUS
  <2>2. PICK o \in 1..Len(mmaps) : Made(mmaps[o]) = m /\ p \in Span(o)
    BY <2>1, TrackedPage
  <2>3. /\ Start(m.page) = mmaps[o].addr /\ m.length = mmaps[o].length
        /\ mmaps[o].gpu_va = mmaps[o].addr
        /\ mmaps[o].addr \in Nat /\ mmaps[o].length \in Nat
        /\ 2 * (mmaps[o].addr + mmaps[o].length) < Space
    <3>1. mmaps[o] \in TrackedRegion
      BY EntryAt
    <3> QED
      BY <2>2, <3>1, EntryMade
  <2>4. va \in Nat /\ IsContained(va, mmaps[o])
    BY <2>3, SMTT(30) DEF IsContained
  <2>5. /\ i \in 1..Len(mmaps) /\ i <= o /\ IsContained(va, mmaps[i])
    <3>1. i \in 0..Len(mmaps) /\ i # 0 /\ i <= o /\ IsContained(va, mmaps[i])
      BY <2>4, ContainingNewest
    <3>2. Len(mmaps) \in Nat
      BY DEF RangesInv
    <3> QED
      BY <3>1, <3>2
  <2>6. CASE i = o
    <3>1. ASSUME NEW size \in 1..(Start(m.page) + m.length - va)
          PROVE  ~OutOfBounds(mmaps[i], va, size)
      <4> DEFINE lo == mmaps[o].addr
                 len == mmaps[o].length
      <4>1. /\ lo \in Nat /\ len \in Nat /\ 2 * (lo + len) < Space
            /\ va \in lo..(lo + len - 1) /\ size \in 1..(lo + len - va)
        BY <2>3
      <4>2. mmaps[o].gpu_va = lo
        BY <2>3
      <4>3. ~(va + size > lo + len) => ~OutOfBounds(mmaps[o], va, size)
        <5> HIDE DEF lo, len
        <5>1. /\ va \in Nat /\ size \in Nat /\ lo <= va
              /\ va + size < Space
          BY <4>1, Constants
        <5> QED
          BY <4>2, <5>1, BoundsCheck DEF lo, len
      <4> HIDE DEF lo, len
      <4>4. ~(va + size > lo + len)
        BY <4>1
      <4> QED
        BY <2>6, <4>3, <4>4
    <3> QED
      BY <2>2, <2>5, <2>6, <3>1
  <2>7. CASE i # o
    <3>1. i < o /\ ~(Span(o) \subseteq odd)
      BY <2>1, <2>2, <2>5, <2>7
    <3>2. Span(i) \cap Span(o) = {}
      BY <2>5, <3>1 DEF RangesInv, NewestFirst
    <3>3. /\ mmaps[i].gpu_va = mmaps[i].addr /\ mmaps[i].addr \in Nat
          /\ mmaps[i].length \in Nat
      BY <2>5, EntryAt, EntryMade
    <3>4. va >= mmaps[i].addr /\ va <= mmaps[i].addr + mmaps[i].length
      BY <2>5, <3>3 DEF IsContained
    <3>5. va \div PageSize \in Span(o)
      BY <2>3, <2>4, ByteOfEntry
    <3>6. ~(va < mmaps[i].addr + mmaps[i].length)
      <4> SUFFICES ASSUME va < mmaps[i].addr + mmaps[i].length
                   PROVE  FALSE
        OBVIOUS
      <4>1. va \in mmaps[i].addr..(mmaps[i].addr + mmaps[i].length - 1)
        BY <2>4, <3>3, <3>4
      <4>2. va \div PageSize \in Span(i)
        BY <2>5, <4>1, ByteOfEntry
      <4> QED
        BY <3>2, <3>5, <4>2
    <3>7. EndsAt(mmaps[i], va)
      BY <2>4, <3>3, <3>4, <3>6 DEF EndsAt
    <3> QED
      BY <2>5, <3>7
  <2> QED
    BY <2>6, <2>7
<1> QED
  BY <1>1, RangesInvariant, PTL

(***************************************************************************)
(* An access that is let through stays in the pages of one tracked         *)
(* mapping, or in pages odd calls took from.                               *)
(***************************************************************************)
THEOREM OnlyMappedRead == Spec => []ReadsMapped
<1>1. RangesInv => ReadsMapped
  <2> SUFFICES ASSUME RangesInv, NEW va \in Address, NEW size \in 1..(2 * PageSize),
                      NEW i, i = ContainingIndex(mmaps, va),
                      i # 0, va + size < Space,
                      ~OutOfBounds(mmaps[i], va, size),
                      NEW b \in CpuAddress(mmaps[i], va)..(CpuAddress(mmaps[i], va) + size - 1),
                      NEW p, p = b \div PageSize, p \notin odd
               PROVE  p \in Page /\ vma[p] = Made(mmaps[i])
    BY DEF ReadsMapped
  <2>1. i \in 1..Len(mmaps) /\ IsContained(va, mmaps[i])
    <3>1. i \in 0..Len(mmaps) /\ IsContained(va, mmaps[i])
      BY ContainingNewest
    <3>2. Len(mmaps) \in Nat
      BY DEF RangesInv
    <3> QED
      BY <3>1, <3>2
  <2>2. /\ mmaps[i].gpu_va = mmaps[i].addr /\ mmaps[i].addr \in Nat
        /\ mmaps[i].length \in Nat
    BY <2>1, EntryAt, EntryMade
  <2>3. va \in Nat /\ va < Space /\ size \in Nat
    BY Constants DEF Address
  <2>4. CpuAddress(mmaps[i], va) = va
    <3>1. mmaps[i].gpu_va - mmaps[i].addr = 0 /\ va + 0 = va
      BY <2>2, <2>3
    <3> QED
      BY <2>3, <3>1, WrapSmall DEF CpuAddress
  <2>5. va >= mmaps[i].addr
    BY <2>1, <2>2, <2>3 DEF IsContained
  <2>6. va + size <= mmaps[i].addr + mmaps[i].length
    BY <2>1, <2>2, <2>3, <2>5, BoundsCheck, SMTT(30)
  <2>7. b \in mmaps[i].addr..(mmaps[i].addr + mmaps[i].length - 1)
    BY <2>2, <2>3, <2>4, <2>5, <2>6
  <2>8. p \in Span(i)
    BY <2>1, <2>7, ByteOfEntry
  <2> QED
    BY <2>1, <2>8, EntryAt
<1> QED
  BY <1>1, RangesInvariant, PTL

=============================================================================
