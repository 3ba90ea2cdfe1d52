----------------------------- MODULE ListLemmas -----------------------------
(***************************************************************************)
(* Facts about the sequence operators the memory tracker is written with,  *)
(* for lists of any length and any entries.                                *)
(***************************************************************************)
EXTENDS Integers, SequencesExt, SequenceTheorems, WellFoundedInduction, TLAPS

(***************************************************************************)
(* A non-empty set of positions has a first one: what list_for_each_entry  *)
(* finds when something matches (panwrap_find_mapped_mem and the others).  *)
(***************************************************************************)
LEMMA MinOfPositions ==
  ASSUME NEW I \in SUBSET Nat, I # {}
  PROVE  Min(I) \in I /\ \A j \in I : Min(I) <= j
<1> DEFINE lt == OpToRel(<, Nat)
<1>1. \A x, y \in Nat : <<x, y>> \in lt <=> x < y
  BY DEF OpToRel
<1>2. IsWellFoundedOn(lt, Nat)
  BY NatLessThanWellFounded
<1> HIDE DEF lt
<1>3. PICK x \in I : \A y \in I : ~(<<y, x>> \in lt)
  BY <1>2, WFMin
<1>4. ASSUME NEW y \in I PROVE x <= y
  <2>1. x \in Nat /\ y \in Nat
    OBVIOUS
  <2>2. ~(<<y, x>> \in lt)
    BY <1>3
  <2>3. ~(y < x)
    BY <1>1, <2>1, <2>2
  <2> QED
    BY <2>1, <2>3
<1> QED
  BY <1>4 DEF Min

(***************************************************************************)
(* The position a lookup stops at is 0 or the first of the list that       *)
(* matches, whatever the set I of matching positions.                      *)
(***************************************************************************)
LEMMA FirstPosition ==
  ASSUME NEW n \in Nat, NEW I \in SUBSET (1..n),
         NEW i, i = IF I # {} THEN Min(I) ELSE 0
  PROVE  /\ i \in 0..n
         /\ i # 0 => i \in I /\ \A j \in I : i <= j
         /\ i = 0 => I = {}
<1>1. CASE I = {}
  BY <1>1
<1>2. CASE I # {}
  <2>1. I \in SUBSET Nat
    OBVIOUS
  <2>2. Min(I) \in I /\ \A j \in I : Min(I) <= j
    BY <1>2, <2>1, MinOfPositions
  <2>3. i = Min(I)
    BY <1>2
  <2>4. i \in I /\ \A j \in I : i <= j
    BY <2>2, <2>3
  <2>5. i \in 1..n
    BY <2>4
  <2> QED
    BY <1>2, <2>4, <2>5
<1> QED
  BY <1>1, <1>2

(***************************************************************************)
(* list_add() puts an entry on a list and keeps the others.                *)
(***************************************************************************)
LEMMA ConsType ==
  ASSUME NEW S, NEW list \in Seq(S), NEW entry \in S
  PROVE  Cons(entry, list) \in Seq(S)
BY ConcatProperties DEF Cons

(***************************************************************************)
(* It is the first of the list, and the others follow in their old order.  *)
(***************************************************************************)
LEMMA ConsProperties ==
  ASSUME NEW S, NEW list \in Seq(S), NEW entry \in S
  PROVE  /\ Cons(entry, list) \in Seq(S)
         /\ Len(list) \in Nat
         /\ Len(Cons(entry, list)) = Len(list) + 1
         /\ DOMAIN Cons(entry, list) = 1..Len(list) + 1
         /\ Cons(entry, list)[1] = entry
         /\ \A j \in 2..Len(list) + 1 : Cons(entry, list)[j] = list[j - 1]
<1>1. /\ <<entry>> \in Seq(S) /\ Len(<<entry>>) = 1 /\ <<entry>>[1] = entry
      /\ Len(list) \in Nat
  BY LenProperties
<1>2. /\ <<entry>> \o list \in Seq(S)
      /\ Len(<<entry>> \o list) = 1 + Len(list)
      /\ \A j \in 1..1 + Len(list) :
           (<<entry>> \o list)[j] = IF j <= 1 THEN <<entry>>[j] ELSE list[j - 1]
  BY <1>1, ConcatProperties
<1>3. DOMAIN (<<entry>> \o list) = 1..Len(list) + 1
  BY <1>1, <1>2, LenProperties
<1> QED
  BY <1>1, <1>2, <1>3 DEF Cons

(***************************************************************************)
(* list_del() of an entry of a list leaves a list of the other entries.    *)
(***************************************************************************)
LEMMA RemoveAtProperties ==
  ASSUME NEW S, NEW list \in Seq(S), NEW i \in 1..Len(list)
  PROVE  /\ RemoveAt(list, i) \in Seq(S)
         /\ Len(RemoveAt(list, i)) = Len(list) - 1
         /\ \A j \in 1..Len(list) - 1 :
              RemoveAt(list, i)[j] = IF j < i THEN list[j] ELSE list[j + 1]
<1> DEFINE before == SubSeq(list, 1, i - 1)
           after == SubSeq(list, i + 1, Len(list))
<1>0. Len(list) \in Nat /\ \A j \in 1..Len(list) : list[j] \in S
  BY LenProperties, ElementOfSeq
<1>1. /\ before \in Seq(S) /\ Len(before) = i - 1
      /\ \A j \in 1..i - 1 : before[j] = list[j]
  BY <1>0, SubSeqProperties
<1>2. /\ after \in Seq(S) /\ Len(after) = Len(list) - i
      /\ \A j \in 1..Len(list) - i : after[j] = list[i + j]
  <2>1. \A j \in (i + 1)..Len(list) : list[j] \in S
    BY <1>0
  <2>2. /\ after \in Seq(S)
        /\ Len(after) = IF i + 1 <= Len(list) THEN Len(list) - (i + 1) + 1 ELSE 0
        /\ \A j \in 1..Len(list) - (i + 1) + 1 : after[j] = list[i + 1 + j - 1]
    BY <1>0, <2>1, SubSeqProperties, i + 1 \in Int, Len(list) \in Int
  <2> HIDE DEF after
  <2> QED
    BY <1>0, <2>2
<1> HIDE DEF before, after
<1>3. /\ before \o after \in Seq(S)
      /\ Len(before \o after) = Len(before) + Len(after)
      /\ \A j \in 1..Len(before) + Len(after) :
           (before \o after)[j] = IF j <= Len(before) THEN before[j]
                                  ELSE after[j - Len(before)]
  BY <1>1, <1>2, ConcatProperties
<1>4. RemoveAt(list, i) = before \o after
  BY DEF RemoveAt, before, after
<1>5. ASSUME NEW j \in 1..Len(list) - 1
      PROVE  (before \o after)[j] = IF j < i THEN list[j] ELSE list[j + 1]
  <2>1. CASE j < i
    BY <1>0, <1>1, <1>2, <1>3, <2>1
  <2>2. CASE ~(j < i)
    <3>1. j - (i - 1) \in 1..Len(list) - i
      BY <1>0, <2>2
    <3>2. (before \o after)[j] = after[j - (i - 1)]
      BY <1>0, <1>1, <1>2, <1>3, <2>2
    <3>3. after[j - (i - 1)] = list[i + (j - (i - 1))]
      BY <1>2, <3>1
    <3>4. i + (j - (i - 1)) = j + 1
      BY <1>0
    <3> QED
      BY <2>2, <3>2, <3>3, <3>4
  <2> QED
    BY <2>1, <2>2
<1>6. Len(before \o after) = Len(list) - 1
  BY <1>0, <1>1, <1>2, <1>3
<1> QED
  BY <1>3, <1>4, <1>5, <1>6

(***************************************************************************)
(* The same, entry by entry: list_add() moves every entry one place down.  *)
(***************************************************************************)
Added(list, entry, new) ==
  /\ Len(list) \in Nat /\ Len(new) \in Nat
  /\ 1 \in 1..Len(new) /\ new[1] = entry
  /\ \A i \in 1..Len(new) :
       i = 1 \/ (i - 1 \in 1..Len(list) /\ new[i] = list[i - 1])
  /\ \A j \in 1..Len(list) : j + 1 \in 1..Len(new) /\ new[j + 1] = list[j]

LEMMA EntriesAdded ==
  ASSUME NEW S, NEW list \in Seq(S), NEW entry \in S
  PROVE  Added(list, entry, Cons(entry, list))
<1>1. Len(list) \in Nat /\ Len(Cons(entry, list)) = Len(list) + 1
  BY ConsProperties
<1>2. Cons(entry, list)[1] = entry
  BY ConsProperties
<1>3. \A j \in 2..Len(list) + 1 : Cons(entry, list)[j] = list[j - 1]
  BY ConsProperties
<1>4. \A j \in 1..Len(list) : j + 1 \in 2..Len(list) + 1 /\ (j + 1) - 1 = j
  BY <1>1
<1> QED
  BY <1>1, <1>2, <1>3, <1>4 DEF Added

(***************************************************************************)
(* list_del() keeps the others in their order.                             *)
(***************************************************************************)
Left(list, k, new) ==
  /\ Len(list) \in Nat /\ Len(new) \in Nat
  /\ \A i \in 1..Len(new) :
       LET m == IF i < k THEN i ELSE i + 1
       IN m \in 1..Len(list) /\ m # k /\ new[i] = list[m]
  /\ \A m \in 1..Len(list) : m # k => \E i \in 1..Len(new) : new[i] = list[m]

LEMMA EntriesLeft ==
  ASSUME NEW S, NEW list \in Seq(S), NEW k \in 1..Len(list)
  PROVE  Left(list, k, RemoveAt(list, k))
<1> DEFINE new == RemoveAt(list, k)
<1>1. /\ Len(list) \in Nat /\ Len(new) = Len(list) - 1
      /\ \A j \in 1..Len(list) - 1 :
           new[j] = IF j < k THEN list[j] ELSE list[j + 1]
  BY RemoveAtProperties, LenProperties
<1> HIDE DEF new
<1>2. ASSUME NEW i \in 1..Len(new)
      PROVE  LET m == IF i < k THEN i ELSE i + 1
             IN m \in 1..Len(list) /\ m # k /\ new[i] = list[m]
  BY <1>1
<1>3. ASSUME NEW m \in 1..Len(list), m # k
      PROVE  \E i \in 1..Len(new) : new[i] = list[m]
  <2>1. CASE m < k
    BY <1>1, <2>1
  <2>2. CASE m > k
    <3>1. m - 1 \in 1..Len(new) /\ new[m - 1] = list[(m - 1) + 1]
      BY <1>1, <2>2
    <3>2. (m - 1) + 1 = m
      BY <1>1
    <3> QED
      BY <3>1, <3>2
  <2> QED
    BY <1>1, <1>3, <2>1, <2>2
<1>4. Left(list, k, new)
  BY <1>1, <1>2, <1>3 DEF Left
<1> QED
  BY <1>4 DEF new

=============================================================================
