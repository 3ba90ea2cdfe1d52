------------------------- MODULE PanwrapListProofs -------------------------
(***************************************************************************)
(* The linked lists of include/list.h stay rings, nothing on them leaks or *)
(* dangles, and they implement the sequences of PanwrapMmap, for any       *)
(* number of structs.                                                      *)
(***************************************************************************)
EXTENDS PanwrapList, ListLemmas

Pointers == [next: [Links -> Links], prev: [Links -> Links]]

\* The structs on one list, each once.
Distinct(list) ==
  \A i, j \in 1..Len(list) : list[i] = list[j] => i = j

\* The list nodes a ring is made of.
RingNodes(list, head) == {head} \cup {list[i] : i \in 1..Len(list)}

-----------------------------------------------------------------------------
(* One list and the functions of list.h.                                   *)

(***************************************************************************)
(* No two stops of a walk are the same, counting the head once: as the     *)
(* first of them or as the last.                                           *)
(***************************************************************************)
LEMMA StopsDiffer ==
  ASSUME NEW list \in Seq(Nodes), NEW head \in Heads, Distinct(list)
  PROVE  /\ Len(list) \in Nat
         /\ \A i \in 1..Len(list) : Stop(list, head, i) = list[i]
         /\ \A i \in 1..Len(list) : Stop(list, head, i) \in Nodes
         /\ Stop(list, head, 0) = head
         /\ Stop(list, head, Len(list) + 1) = head
         /\ \A i \in 0..Len(list) + 1 : Stop(list, head, i) \in Links
         /\ \A i, j \in 0..Len(list) :
              Stop(list, head, i) = Stop(list, head, j) => i = j
         /\ \A i, j \in 1..Len(list) + 1 :
              Stop(list, head, i) = Stop(list, head, j) => i = j
<1>1. /\ Len(list) \in Nat /\ DOMAIN list = 1..Len(list)
      /\ \A i \in 1..Len(list) : list[i] \in Nodes
  BY LenProperties, ElementOfSeq
<1>2. head \notin Nodes
  BY NodeAssumption
<1>3. \A i \in 1..Len(list) : Stop(list, head, i) = list[i]
  BY <1>1 DEF Stop
<1>4. Stop(list, head, 0) = head /\ Stop(list, head, Len(list) + 1) = head
  BY <1>1 DEF Stop
<1>5. \A i \in 0..Len(list) + 1 : i = 0 \/ i = Len(list) + 1 \/ i \in 1..Len(list)
  BY <1>1
<1>6. \A i \in 0..Len(list) + 1 : Stop(list, head, i) \in Links
  BY <1>1, <1>3, <1>4, <1>5 DEF Links
<1>7. ASSUME NEW i \in 0..Len(list), NEW j \in 0..Len(list),
             Stop(list, head, i) = Stop(list, head, j)
      PROVE  i = j
  BY <1>1, <1>2, <1>3, <1>4, <1>7 DEF Distinct
<1>8. ASSUME NEW i \in 1..Len(list) + 1, NEW j \in 1..Len(list) + 1,
             Stop(list, head, i) = Stop(list, head, j)
      PROVE  i = j
  BY <1>1, <1>2, <1>3, <1>4, <1>8 DEF Distinct
<1> QED
  BY <1>1, <1>3, <1>4, <1>6, <1>7, <1>8

(***************************************************************************)
(* Writing to the pointers of other nodes leaves a ring as it is.          *)
(***************************************************************************)
LEMMA RingUntouched ==
  ASSUME NEW list \in Seq(Nodes), NEW head \in Heads, NEW ln, NEW ln2,
         Ring(ln, list, head),
         \A n \in RingNodes(list, head) :
           ln2.next[n] = ln.next[n] /\ ln2.prev[n] = ln.prev[n]
  PROVE  Ring(ln2, list, head)
<1>1. Len(list) \in Nat /\ DOMAIN list = 1..Len(list)
  BY LenProperties
<1>2. \A i \in 0..Len(list) + 1 : Stop(list, head, i) \in RingNodes(list, head)
  BY <1>1 DEF Stop, RingNodes
<1> QED
  BY <1>1, <1>2 DEF Ring

(***************************************************************************)
(* list_add() of a node that is on no list makes it the first of the ring  *)
(* and touches nothing else.                                               *)
(***************************************************************************)
LEMMA ListAdd ==
  ASSUME NEW ln \in Pointers, NEW list \in Seq(Nodes), NEW head \in Heads,
         NEW entry \in Nodes, Distinct(list), Ring(ln, list, head),
         \A i \in 1..Len(list) : list[i] # entry,
         NEW ln2, ln2 = list_add(list_init(ln, entry), entry, head)
  PROVE  /\ ln2 \in Pointers
         /\ Ring(ln2, Cons(entry, list), head)
         /\ \A n \in Links \ (RingNodes(list, head) \cup {entry}) :
              ln2.next[n] = ln.next[n] /\ ln2.prev[n] = ln.prev[n]
<1> DEFINE first == Stop(list, head, 1)
           S(i) == Stop(list, head, i)
           T(i) == Stop(Cons(entry, list), head, i)
<1>0. /\ Len(list) \in Nat /\ DOMAIN list = 1..Len(list)
      /\ \A i \in 1..Len(list) : list[i] \in Nodes
      /\ head \in Links /\ entry \in Links /\ head # entry
  BY LenProperties, ElementOfSeq, NodeAssumption DEF Links
<1>1. /\ S(0) = head /\ S(Len(list) + 1) = head
      /\ \A i \in 0..Len(list) + 1 : S(i) \in Links
      /\ \A i, j \in 0..Len(list) : S(i) = S(j) => i = j
      /\ \A i, j \in 1..Len(list) + 1 : S(i) = S(j) => i = j
  BY StopsDiffer
<1>2. /\ Len(Cons(entry, list)) = Len(list) + 1
      /\ T(0) = head /\ T(1) = entry
      /\ \A i \in 2..Len(list) + 2 : T(i) = S(i - 1)
  <2>1. /\ Len(Cons(entry, list)) = Len(list) + 1
        /\ DOMAIN Cons(entry, list) = 1..Len(list) + 1
        /\ Cons(entry, list)[1] = entry
        /\ \A j \in 2..Len(list) + 1 : Cons(entry, list)[j] = list[j - 1]
    BY ConsProperties
  <2>2. ASSUME NEW i \in 2..Len(list) + 2 PROVE T(i) = S(i - 1)
    <3>1. i - 1 \in 1..Len(list) <=> i \in 1..Len(list) + 1
      BY <1>0
    <3>2. CASE i \in 1..Len(list) + 1
      BY <1>0, <2>1, <2>2, <3>1, <3>2 DEF Stop
    <3>3. CASE i \notin 1..Len(list) + 1
      BY <1>0, <2>1, <3>1, <3>3 DEF Stop
    <3> QED
      BY <3>2, <3>3
  <2> QED
    BY <1>0, <2>1, <2>2 DEF Stop
<1>3. /\ ln.next[head] = first
      /\ \A i \in 0..Len(list) : ln.next[S(i)] = S(i + 1) /\ ln.prev[S(i + 1)] = S(i)
  BY <1>0, <1>1 DEF Ring
<1>4. \A i \in 0..Len(list) + 1 : S(i) # entry
  BY <1>0 DEF Stop
<1>5. first \in Links /\ first # entry
  BY <1>0, <1>1, <1>4
<1> HIDE DEF S, T, first
<1>6. /\ ln2.next = [[ln.next EXCEPT ![entry] = entry] EXCEPT
                       ![entry] = first, ![head] = entry]
      /\ ln2.prev = [[ln.prev EXCEPT ![entry] = entry] EXCEPT
                       ![first] = entry, ![entry] = head]
      /\ ln2 = [next |-> ln2.next, prev |-> ln2.prev]
  BY <1>0, <1>3 DEF list_add, list_init, LinkBetween, Pointers
<1>7. ln2 \in Pointers
  BY <1>0, <1>5, <1>6 DEF Pointers
<1>8. /\ \A n \in Links : ln2.next[n] = IF n = head THEN entry ELSE
                            IF n = entry THEN first ELSE ln.next[n]
      /\ \A n \in Links : ln2.prev[n] = IF n = entry THEN head ELSE
                            IF n = first THEN entry ELSE ln.prev[n]
  BY <1>0, <1>5, <1>6 DEF Pointers
<1>9. ASSUME NEW i \in 0..Len(list) + 1
      PROVE  ln2.next[T(i)] = T(i + 1) /\ ln2.prev[T(i + 1)] = T(i)
  <2>1. CASE i = 0
    BY <1>0, <1>2, <1>5, <1>8, <2>1
  <2>2. CASE i = 1
    BY <1>0, <1>2, <1>5, <1>8, <2>2, S(1) = first DEF first, S
  <2>3. CASE i > 1
    <3>1. /\ i - 1 \in 1..Len(list) /\ i \in 2..Len(list) + 1
          /\ T(i) = S(i - 1) /\ T(i + 1) = S(i)
      BY <1>0, <1>2, <2>3
    <3>2. S(i - 1) # head /\ S(i) # first
      BY <1>0, <1>1, <3>1, S(1) = first DEF first, S
    <3>3. ln.next[S(i - 1)] = S(i) /\ ln.prev[S(i)] = S(i - 1)
      BY <1>0, <1>3, <3>1
    <3> QED
      BY <1>0, <1>1, <1>4, <1>8, <3>1, <3>2, <3>3
  <2> QED
    BY <1>0, <2>1, <2>2, <2>3
<1>10. Ring(ln2, Cons(entry, list), head)
  BY <1>0, <1>2, <1>9 DEF Ring, T
<1>11. first \in RingNodes(list, head) /\ head \in RingNodes(list, head)
  BY <1>0 DEF RingNodes, first, Stop
<1> QED
  BY <1>7, <1>8, <1>10, <1>11

(***************************************************************************)
(* list_del() of an entry closes the ring over it and touches nothing      *)
(* else.                                                                   *)
(***************************************************************************)
LEMMA ListDel ==
  ASSUME NEW ln \in Pointers, NEW list \in Seq(Nodes), NEW head \in Heads,
         Distinct(list), Ring(ln, list, head), NEW k \in 1..Len(list),
         NEW ln2, ln2 = list_del(ln, list[k])
  PROVE  /\ ln2 \in Pointers
         /\ Ring(ln2, RemoveAt(list, k), head)
         /\ \A n \in Links \ RingNodes(list, head) :
              ln2.next[n] = ln.next[n] /\ ln2.prev[n] = ln.prev[n]
<1> DEFINE S(i) == Stop(list, head, i)
           T(i) == Stop(RemoveAt(list, k), head, i)
           entry == S(k)
           before == S(k - 1)
           after == S(k + 1)
<1>0. /\ Len(list) \in Nat /\ DOMAIN list = 1..Len(list)
      /\ \A i \in 1..Len(list) : list[i] \in Nodes
      /\ k \in 1..Len(list) /\ k - 1 \in 0..Len(list) - 1
      /\ k + 1 \in 2..Len(list) + 1
  BY LenProperties, ElementOfSeq
<1>1. /\ S(0) = head /\ S(Len(list) + 1) = head /\ S(k) = list[k]
      /\ \A i \in 0..Len(list) + 1 : S(i) \in Links
      /\ \A i, j \in 0..Len(list) : S(i) = S(j) => i = j
      /\ \A i, j \in 1..Len(list) + 1 : S(i) = S(j) => i = j
  BY StopsDiffer
<1>2. /\ Len(RemoveAt(list, k)) = Len(list) - 1
      /\ \A i \in 0..Len(list) : T(i) = IF i < k THEN S(i) ELSE S(i + 1)
  <2>1. /\ Len(RemoveAt(list, k)) = Len(list) - 1
        /\ DOMAIN RemoveAt(list, k) = 1..Len(list) - 1
        /\ \A j \in 1..Len(list) - 1 :
             RemoveAt(list, k)[j] = IF j < k THEN list[j] ELSE list[j + 1]
    BY RemoveAtProperties, LenProperties
  <2> QED
    BY <1>0, <2>1 DEF Stop
<1>3. \A i \in 0..Len(list) : ln.next[S(i)] = S(i + 1) /\ ln.prev[S(i + 1)] = S(i)
  BY DEF Ring
<1>4. /\ ln.prev[entry] = before /\ ln.next[entry] = after
  BY <1>0, <1>3, k - 1 \in 0..Len(list), (k - 1) + 1 = k
<1>5. /\ before \in Links /\ after \in Links /\ entry \in Links
      /\ before # entry /\ after # entry
  BY <1>0, <1>1
<1> HIDE DEF S, T
<1>6. /\ ln2.next = [[ln.next EXCEPT ![before] = after] EXCEPT ![entry] = entry]
      /\ ln2.prev = [[ln.prev EXCEPT ![after] = before] EXCEPT ![entry] = entry]
      /\ ln2 = [next |-> ln2.next, prev |-> ln2.prev]
  BY <1>1, <1>4 DEF list_del, list_init, LinkPast
<1>7. ln2 \in Pointers
  BY <1>5, <1>6 DEF Pointers
<1>8. /\ \A n \in Links : ln2.next[n] = IF n = entry THEN entry ELSE
                            IF n = before THEN after ELSE ln.next[n]
      /\ \A n \in Links : ln2.prev[n] = IF n = entry THEN entry ELSE
                            IF n = after THEN before ELSE ln.prev[n]
  BY <1>5, <1>6 DEF Pointers
<1>9. ASSUME NEW i \in 0..Len(list) - 1
      PROVE  ln2.next[T(i)] = T(i + 1) /\ ln2.prev[T(i + 1)] = T(i)
  <2>0. i \in 0..Len(list) /\ i + 1 \in 0..Len(list) /\ i + 1 \in 1..Len(list)
    BY <1>0
  <2>1. CASE i = k - 1
    <3>1. T(i) = before /\ T(i + 1) = after
      BY <1>0, <1>2, <2>0, <2>1
    <3> QED
      BY <1>5, <1>8, <3>1
  <2>2. CASE i < k - 1
    <3>1. T(i) = S(i) /\ T(i + 1) = S(i + 1)
      BY <1>0, <1>2, <2>0, <2>2
    <3>2. S(i) # before /\ S(i) # entry /\ S(i + 1) # after /\ S(i + 1) # entry
      BY <1>0, <1>1, <2>0, <2>2
    <3> QED
      BY <1>0, <1>1, <1>3, <1>8, <2>0, <3>1, <3>2
  <2>3. CASE i > k - 1
    <3>0. i + 2 \in 1..Len(list) + 1 /\ (i + 1) + 1 = i + 2
      BY <1>0
    <3>1. T(i) = S(i + 1) /\ T(i + 1) = S(i + 2)
      BY <1>0, <1>2, <2>0, <2>3, <3>0
    <3>2. /\ S(i + 1) # before /\ S(i + 1) # entry
          /\ S(i + 2) # after /\ S(i + 2) # entry
      BY <1>0, <1>1, <2>0, <2>3, <3>0
    <3>3. ln.next[S(i + 1)] = S(i + 2) /\ ln.prev[S(i + 2)] = S(i + 1)
      BY <1>3, <2>0, <3>0
    <3> QED
      BY <1>0, <1>1, <1>8, <2>0, <3>0, <3>1, <3>2, <3>3
  <2> QED
    BY <1>0, <2>1, <2>2, <2>3
<1>10. Ring(ln2, RemoveAt(list, k), head)
  BY <1>0, <1>2, <1>9 DEF Ring, T
<1>11. {entry, before, after} \subseteq RingNodes(list, head)
  BY <1>0 DEF RingNodes, S, Stop
<1> QED
  BY <1>7, <1>8, <1>10, <1>11

(***************************************************************************)
(* Nothing else is on the new list, and nothing else is missing.           *)
(***************************************************************************)
LEMMA ConsEntries ==
  ASSUME NEW list \in Seq(Nodes), NEW n \in Nodes
  PROVE  \A i \in 1..Len(Cons(n, list)) :
           \/ Cons(n, list)[i] = n
           \/ \E j \in 1..Len(list) : Cons(n, list)[i] = list[j]
<1> SUFFICES ASSUME NEW i \in 1..Len(Cons(n, list)), Cons(n, list)[i] # n
             PROVE  \E j \in 1..Len(list) : Cons(n, list)[i] = list[j]
  OBVIOUS
<1>1. /\ Len(list) \in Nat /\ Len(Cons(n, list)) = Len(list) + 1
      /\ Cons(n, list)[1] = n
      /\ \A j \in 2..Len(list) + 1 : Cons(n, list)[j] = list[j - 1]
  BY ConsProperties
<1>2. i \in 2..Len(list) + 1 /\ i - 1 \in 1..Len(list)
  BY <1>1
<1> QED
  BY <1>1, <1>2

LEMMA RemoveAtEntries ==
  ASSUME NEW list \in Seq(Nodes), NEW k \in 1..Len(list)
  PROVE  \A i \in 1..Len(RemoveAt(list, k)) :
           \E j \in 1..Len(list) : j # k /\ RemoveAt(list, k)[i] = list[j]
<1> SUFFICES ASSUME NEW i \in 1..Len(RemoveAt(list, k))
             PROVE  \E j \in 1..Len(list) : j # k /\ RemoveAt(list, k)[i] = list[j]
  OBVIOUS
<1>1. /\ Len(list) \in Nat /\ Len(RemoveAt(list, k)) = Len(list) - 1
      /\ \A j \in 1..Len(list) - 1 :
           RemoveAt(list, k)[j] = IF j < k THEN list[j] ELSE list[j + 1]
  BY RemoveAtProperties, LenProperties
<1>2. i \in 1..Len(list) - 1 /\ i \in 1..Len(list) /\ i + 1 \in 1..Len(list)
  BY <1>1
<1>3. CASE i < k
  BY <1>1, <1>2, <1>3
<1>4. CASE ~(i < k)
  BY <1>1, <1>2, <1>4
<1> QED
  BY <1>3, <1>4

-----------------------------------------------------------------------------
(* Both lists and the heap.                                                *)

OnList(od, n) == \E h \in Heads : \E i \in 1..Len(od[h]) : od[h][i] = n

\* What WellLinked and HeapOnLists say, of any pointers, heap and lists.
Shape(ln, hp, od) ==
  /\ ln \in Pointers /\ hp \subseteq Nodes /\ od \in [Heads -> Seq(Nodes)]
  /\ \A h \in Heads : Ring(ln, od[h], h)
  /\ \A n \in Nodes : n \in hp <=> OnList(od, n)
  /\ \A h1, h2 \in Heads :
       \A i \in 1..Len(od[h1]), j \in 1..Len(od[h2]) :
         od[h1][i] = od[h2][j] => h1 = h2 /\ i = j

(***************************************************************************)
(* The two invariants are the shape of the lists.                          *)
(***************************************************************************)
LEMMA ShapeIs ==
  TypeOK => (WellLinked /\ HeapOnLists <=> Shape(link, heap, order))
<1> SUFFICES ASSUME TypeOK
             PROVE  WellLinked /\ HeapOnLists <=> Shape(link, heap, order)
  OBVIOUS
<1>1. \A h \in Heads : order[h] \in Seq(Nodes) /\ DOMAIN order[h] = 1..Len(order[h])
  BY LenProperties DEF TypeOK
<1>2. \A h \in Heads : \A i \in 1..Len(order[h]) : order[h][i] \in Nodes
  BY <1>1, ElementOfSeq
<1>3. (heap = UNION {{order[h][i] : i \in DOMAIN order[h]} : h \in Heads})
        <=> \A n \in Nodes : n \in heap <=> OnList(order, n)
  <2> DEFINE U == UNION {{order[h][i] : i \in DOMAIN order[h]} : h \in Heads}
  <2>1. \A n : n \in U <=> OnList(order, n)
    BY <1>1 DEF OnList
  <2>2. \A n \in U : n \in Nodes
    BY <1>2, <2>1 DEF OnList
  <2>3. heap \subseteq Nodes
    BY DEF TypeOK
  <2> HIDE DEF U
  <2>4. heap = U <=> \A n \in Nodes : n \in heap <=> n \in U
    BY <2>2, <2>3
  <2> QED
    BY <2>1, <2>4 DEF U
<1>4. link \in Pointers /\ heap \subseteq Nodes /\ order \in [Heads -> Seq(Nodes)]
  BY DEF TypeOK, Pointers
<1> QED
  BY <1>1, <1>3, <1>4 DEF WellLinked, HeapOnLists, Shape

\* The same after a step.
LEMMA ShapeIsNext ==
  TypeOK' => (WellLinked' /\ HeapOnLists' <=> Shape(link, heap, order)')
BY ShapeIs, PTL

(***************************************************************************)
(* A struct fresh from malloc() put on a list.                             *)
(***************************************************************************)
LEMMA AddShape ==
  ASSUME NEW ln, NEW hp, NEW od, Shape(ln, hp, od),
         NEW h \in Heads, NEW n \in Nodes \ hp
  PROVE  Shape(list_add(list_init(ln, n), n, h), hp \cup {n},
               [od EXCEPT ![h] = Cons(n, @)])
<1> DEFINE ln2 == list_add(list_init(ln, n), n, h)
           od2 == [od EXCEPT ![h] = Cons(n, @)]
<1>0. /\ ln \in Pointers /\ hp \subseteq Nodes /\ od \in [Heads -> Seq(Nodes)]
      /\ \A g \in Heads : Ring(ln, od[g], g) /\ Distinct(od[g])
      /\ \A g \in Heads : \A i \in 1..Len(od[g]) : od[g][i] # n
  BY DEF Shape, Distinct, OnList
<1>1. /\ \A g \in Heads : Len(od[g]) \in Nat
      /\ \A g \in Heads : \A i \in 1..Len(od[g]) : od[g][i] \in Nodes
  BY <1>0, LenProperties, ElementOfSeq
<1>2. /\ ln2 \in Pointers /\ Ring(ln2, Cons(n, od[h]), h)
      /\ \A m \in Links \ (RingNodes(od[h], h) \cup {n}) :
           ln2.next[m] = ln.next[m] /\ ln2.prev[m] = ln.prev[m]
  BY <1>0, ListAdd
<1>3. /\ Cons(n, od[h]) \in Seq(Nodes)
      /\ Len(Cons(n, od[h])) = Len(od[h]) + 1
      /\ Cons(n, od[h])[1] = n
      /\ \A j \in 2..Len(od[h]) + 1 : Cons(n, od[h])[j] = od[h][j - 1]
  BY <1>0, ConsProperties
<1>4. od2 \in [Heads -> Seq(Nodes)] /\ od2[h] = Cons(n, od[h])
      /\ \A g \in Heads \ {h} : od2[g] = od[g]
  BY <1>0, <1>3
<1> HIDE DEF ln2, od2
<1>5. ASSUME NEW g \in Heads PROVE Ring(ln2, od2[g], g)
  <2>1. CASE g = h
    BY <1>2, <1>4, <2>1
  <2>2. CASE g # h
    <3>1. ASSUME NEW m \in RingNodes(od[g], g)
          PROVE  m \in Links \ (RingNodes(od[h], h) \cup {n})
      BY <1>0, <1>1, <2>2, NodeAssumption DEF RingNodes, Links, Shape
    <3> QED
      BY <1>0, <1>2, <1>4, <2>2, <3>1, RingUntouched
  <2> QED
    BY <2>1, <2>2
<1>6. ASSUME NEW m \in Nodes PROVE m \in hp \cup {n} <=> OnList(od2, m)
  <2>1. ASSUME NEW g \in Heads, NEW i \in 1..Len(od[g]), od[g][i] = m
        PROVE  OnList(od2, m)
    <3>1. CASE g # h
      BY <1>4, <2>1, <3>1 DEF OnList
    <3>2. CASE g = h
      <4>1. i + 1 \in 2..Len(od[h]) + 1 /\ (i + 1) - 1 = i
            /\ i + 1 \in 1..Len(od2[h])
        BY <1>1, <1>3, <1>4, <3>2
      <4>2. od2[h][i + 1] = m
        BY <1>3, <1>4, <2>1, <3>2, <4>1
      <4> QED
        BY <4>1, <4>2 DEF OnList
    <3> QED
      BY <3>1, <3>2
  <2>2. OnList(od2, n)
    BY <1>1, <1>3, <1>4, 1 \in 1..Len(od2[h]) DEF OnList
  <2>3. ASSUME NEW g \in Heads, NEW i \in 1..Len(od2[g]), od2[g][i] = m, m # n
        PROVE  OnList(od, m)
    <3>1. CASE g # h
      BY <1>4, <2>3, <3>1 DEF OnList
    <3>2. CASE g = h
      <4>1. i \in 2..Len(od[h]) + 1 /\ i - 1 \in 1..Len(od[h])
        BY <1>1, <1>3, <1>4, <2>3, <3>2
      <4> QED
        BY <1>3, <1>4, <2>3, <3>2, <4>1 DEF OnList
    <3> QED
      BY <3>1, <3>2
  <2>4. m \in hp <=> OnList(od, m)
    BY DEF Shape
  <2> QED
    BY <2>1, <2>2, <2>3, <2>4 DEF OnList
<1>7. ASSUME NEW h1 \in Heads, NEW h2 \in Heads,
             NEW i \in 1..Len(od2[h1]), NEW j \in 1..Len(od2[h2]),
             od2[h1][i] = od2[h2][j]
      PROVE  h1 = h2 /\ i = j
  <2> DEFINE old(g, k) == IF g = h THEN k - 1 ELSE k
  <2>1. ASSUME NEW g \in Heads, NEW k \in 1..Len(od2[g])
        PROVE  \/ g = h /\ k = 1 /\ od2[g][k] = n
               \/ /\ old(g, k) \in 1..Len(od[g])
                  /\ od2[g][k] = od[g][old(g, k)]
    <3>1. CASE g # h
      BY <1>4, <3>1
    <3>2. CASE g = h /\ k = 1
      BY <1>3, <1>4, <3>2
    <3>3. CASE g = h /\ k # 1
      <4>1. k \in 2..Len(od[h]) + 1 /\ k - 1 \in 1..Len(od[h])
        BY <1>1, <1>3, <1>4, <3>3
      <4> QED
        BY <1>3, <1>4, <3>3, <4>1
    <3> QED
      BY <3>1, <3>2, <3>3
  <2>2. \A k, l : \A g \in Heads :
          k \in 1..Len(od2[g]) /\ l \in 1..Len(od2[g]) /\ old(g, k) = old(g, l)
            => k = l
    BY <1>1, <1>3, <1>4
  <2> HIDE DEF old
  <2>3. CASE od2[h1][i] = n
    BY <1>0, <2>1, <2>3, <1>7, SMTT(30)
  <2>4. CASE od2[h1][i] # n
    <3>1. /\ old(h1, i) \in 1..Len(od[h1]) /\ old(h2, j) \in 1..Len(od[h2])
          /\ od[h1][old(h1, i)] = od[h2][old(h2, j)]
      BY <2>1, <2>4, <1>7
    <3>2. h1 = h2 /\ old(h1, i) = old(h2, j)
      BY <3>1 DEF Shape
    <3> QED
      BY <2>2, <3>2
  <2> QED
    BY <2>3, <2>4
<1> QED
  BY <1>0, <1>2, <1>4, <1>5, <1>6, <1>7 DEF Shape, ln2, od2

(***************************************************************************)
(* An entry unlinked and freed.                                            *)
(***************************************************************************)
LEMMA DelShape ==
  ASSUME NEW ln, NEW hp, NEW od, Shape(ln, hp, od),
         NEW h \in Heads, NEW k \in 1..Len(od[h])
  PROVE  Shape(list_del(ln, od[h][k]), hp \ {od[h][k]},
               [od EXCEPT ![h] = RemoveAt(od[h], k)])
<1> DEFINE n == od[h][k]
           ln2 == list_del(ln, n)
           od2 == [od EXCEPT ![h] = RemoveAt(od[h], k)]
<1>0. /\ ln \in Pointers /\ hp \subseteq Nodes /\ od \in [Heads -> Seq(Nodes)]
      /\ \A g \in Heads : Ring(ln, od[g], g) /\ Distinct(od[g])
      /\ \A h1, h2 \in Heads :
           \A i \in 1..Len(od[h1]), j \in 1..Len(od[h2]) :
             od[h1][i] = od[h2][j] => h1 = h2 /\ i = j
  BY DEF Shape, Distinct
<1>1. /\ \A g \in Heads : Len(od[g]) \in Nat
      /\ \A g \in Heads : \A i \in 1..Len(od[g]) : od[g][i] \in Nodes
  BY <1>0, LenProperties, ElementOfSeq
<1>2. /\ ln2 \in Pointers /\ Ring(ln2, RemoveAt(od[h], k), h)
      /\ \A m \in Links \ RingNodes(od[h], h) :
           ln2.next[m] = ln.next[m] /\ ln2.prev[m] = ln.prev[m]
  BY <1>0, ListDel
<1>3. /\ RemoveAt(od[h], k) \in Seq(Nodes)
      /\ Len(RemoveAt(od[h], k)) = Len(od[h]) - 1
      /\ \A j \in 1..Len(od[h]) - 1 :
           RemoveAt(od[h], k)[j] = IF j < k THEN od[h][j] ELSE od[h][j + 1]
  BY <1>0, RemoveAtProperties
<1>4. od2 \in [Heads -> Seq(Nodes)] /\ od2[h] = RemoveAt(od[h], k)
      /\ \A g \in Heads \ {h} : od2[g] = od[g]
  BY <1>0, <1>3
<1> DEFINE old(g, j) == IF g = h /\ j >= k THEN j + 1 ELSE j
<1>5. ASSUME NEW g \in Heads, NEW j \in 1..Len(od2[g])
      PROVE  /\ old(g, j) \in 1..Len(od[g])
             /\ od2[g][j] = od[g][old(g, j)]
             /\ g = h => old(g, j) # k
  <2>1. CASE g # h
    BY <1>4, <2>1
  <2>2. CASE g = h
    BY <1>1, <1>3, <1>4, <2>2
  <2> QED
    BY <2>1, <2>2
<1>6. ASSUME NEW g \in Heads, NEW j \in 1..Len(od[g]), od[g][j] # n
      PROVE  \E i \in 1..Len(od2[g]) : od2[g][i] = od[g][j]
  <2>1. CASE g # h
    BY <1>4, <2>1
  <2>2. CASE g = h /\ j < k
    BY <1>1, <1>3, <1>4, <2>2, j \in 1..Len(od2[h])
  <2>3. CASE g = h /\ ~(j < k)
    <3>1. j # k
      BY <1>6, <2>3
    <3>2. j - 1 \in 1..Len(od2[h]) /\ ~(j - 1 < k) /\ (j - 1) + 1 = j
      BY <1>1, <1>3, <1>4, <2>3, <3>1
    <3>3. od2[h][j - 1] = od[h][j]
      BY <1>3, <1>4, <3>2
    <3> QED
      BY <2>3, <3>2, <3>3
  <2> QED
    BY <2>1, <2>2, <2>3
<1>7. \A g \in Heads : \A i, j \in 1..Len(od2[g]) : old(g, i) = old(g, j) => i = j
  BY <1>1, <1>3, <1>4
<1> HIDE DEF ln2, od2, old, n
<1>8. ASSUME NEW g \in Heads PROVE Ring(ln2, od2[g], g)
  <2>1. CASE g = h
    BY <1>2, <1>4, <2>1
  <2>2. CASE g # h
    <3>1. ASSUME NEW m \in RingNodes(od[g], g)
          PROVE  m \in Links \ RingNodes(od[h], h)
      BY <1>0, <1>1, <2>2, NodeAssumption DEF RingNodes, Links
    <3> QED
      BY <1>0, <1>2, <1>4, <2>2, <3>1, RingUntouched
  <2> QED
    BY <2>1, <2>2
<1>9. ASSUME NEW m \in Nodes PROVE m \in hp \ {n} <=> OnList(od2, m)
  <2>1. m \in hp <=> OnList(od, m)
    BY DEF Shape
  <2>2. ASSUME OnList(od, m), m # n PROVE OnList(od2, m)
    BY <1>6, <2>2 DEF OnList
  <2>3. ASSUME NEW g \in Heads, NEW i \in 1..Len(od2[g]), od2[g][i] = m
        PROVE  OnList(od, m) /\ m # n
    <3>1. old(g, i) \in 1..Len(od[g]) /\ od[g][old(g, i)] = m
      BY <1>5, <2>3
    <3>2. ASSUME m = n PROVE FALSE
      <4>1. od[g][old(g, i)] = od[h][k]
        BY <3>1, <3>2 DEF n
      <4>2. g = h /\ old(g, i) = k
        BY <1>0, <3>1, <4>1
      <4> QED
        BY <1>5, <4>2
    <3> QED
      BY <3>1, <3>2 DEF OnList
  <2> QED
    BY <2>1, <2>2, <2>3 DEF OnList
<1>10. ASSUME NEW h1 \in Heads, NEW h2 \in Heads,
              NEW i \in 1..Len(od2[h1]), NEW j \in 1..Len(od2[h2]),
              od2[h1][i] = od2[h2][j]
       PROVE  h1 = h2 /\ i = j
  <2>1. /\ old(h1, i) \in 1..Len(od[h1]) /\ old(h2, j) \in 1..Len(od[h2])
        /\ od[h1][old(h1, i)] = od[h2][old(h2, j)]
    BY <1>5, <1>10
  <2>2. h1 = h2 /\ old(h1, i) = old(h2, j)
    BY <1>0, <2>1
  <2> QED
    BY <1>7, <2>2
<1> QED
  BY <1>0, <1>2, <1>4, <1>8, <1>9, <1>10 DEF Shape, ln2, od2, n

-----------------------------------------------------------------------------
(* The structs on a list, in the order of a walk.                          *)

Structs == Tracker!Allocation \cup Tracker!Mapping

\* What is in memory, struct by struct.
Fields(S) == [Nodes -> S]

Walk(d, list) == [i \in DOMAIN list |-> d[list[i]]]

(***************************************************************************)
(* A walk visits one struct per entry.                                     *)
(***************************************************************************)
LEMMA WalkType ==
  ASSUME NEW S, NEW d \in Fields(S), NEW list \in Seq(Nodes)
  PROVE  /\ Walk(d, list) \in Seq(S)
         /\ Len(list) \in Nat
         /\ Len(Walk(d, list)) = Len(list)
         /\ DOMAIN Walk(d, list) = 1..Len(list)
         /\ \A i \in 1..Len(list) : Walk(d, list)[i] = d[list[i]]
<1>1. Len(list) \in Nat /\ DOMAIN list = 1..Len(list)
  BY LenProperties
<1>2. /\ Walk(d, list) \in [1..Len(list) -> S]
      /\ \A i \in 1..Len(list) : Walk(d, list)[i] = d[list[i]]
  BY <1>1, ElementOfSeq DEF Walk, Fields
<1>3. Walk(d, list) \in Seq(S)
  BY <1>1, <1>2, SeqDef
<1> QED
  BY <1>1, <1>2, <1>3, LenProperties

(***************************************************************************)
(* Writing to other structs does not change what a walk sees.              *)
(***************************************************************************)
LEMMA WalkUntouched ==
  ASSUME NEW d, NEW d2, NEW list \in Seq(Nodes),
         \A i \in 1..Len(list) : d2[list[i]] = d[list[i]]
  PROVE  Walk(d2, list) = Walk(d, list)
BY LenProperties DEF Walk

(***************************************************************************)
(* A walk of a list with a new entry sees the new struct first.            *)
(***************************************************************************)
LEMMA WalkAdd ==
  ASSUME NEW S, NEW d \in Fields(S), NEW d2 \in Fields(S),
         NEW list \in Seq(Nodes), NEW n \in Nodes,
         \A i \in 1..Len(list) : d2[list[i]] = d[list[i]]
  PROVE  Walk(d2, Cons(n, list)) = Cons(d2[n], Walk(d, list))
<1>1. /\ Cons(n, list) \in Seq(Nodes)
      /\ Len(list) \in Nat
      /\ Len(Cons(n, list)) = Len(list) + 1
      /\ Cons(n, list)[1] = n
      /\ \A j \in 2..Len(list) + 1 : Cons(n, list)[j] = list[j - 1]
  BY ConsProperties
<1>2. /\ Walk(d, list) \in Seq(S)
      /\ Len(Walk(d, list)) = Len(list)
      /\ \A i \in 1..Len(list) : Walk(d, list)[i] = d[list[i]]
  BY WalkType
<1>3. /\ Cons(d2[n], Walk(d, list)) \in Seq(S)
      /\ Len(Cons(d2[n], Walk(d, list))) = Len(list) + 1
      /\ Cons(d2[n], Walk(d, list))[1] = d2[n]
      /\ \A j \in 2..Len(list) + 1 :
           Cons(d2[n], Walk(d, list))[j] = Walk(d, list)[j - 1]
  <2>1. PICK v \in S : v = d2[n]
    BY DEF Fields
  <2>2. PICK w \in Seq(S) : w = Walk(d, list)
    BY <1>2
  <2>3. /\ Cons(v, w) \in Seq(S)
        /\ Len(Cons(v, w)) = Len(w) + 1
        /\ Cons(v, w)[1] = v
        /\ \A j \in 2..Len(w) + 1 : Cons(v, w)[j] = w[j - 1]
    BY ConsProperties
  <2> QED
    BY <1>2, <2>1, <2>2, <2>3
<1>4. \A j \in 2..Len(list) + 1 : j - 1 \in 1..Len(list)
  BY <1>1
<1>6. /\ Walk(d2, Cons(n, list)) \in Seq(S)
      /\ Len(Walk(d2, Cons(n, list))) = Len(list) + 1
      /\ \A j \in 1..Len(list) + 1 :
           Walk(d2, Cons(n, list))[j] = d2[Cons(n, list)[j]]
  BY <1>1, WalkType
<1>7. ASSUME NEW j \in 1..Len(list) + 1
      PROVE  Walk(d2, Cons(n, list))[j] = Cons(d2[n], Walk(d, list))[j]
  <2>1. CASE j = 1
    BY <1>1, <1>3, <1>6, <2>1
  <2>2. CASE j \in 2..Len(list) + 1
    <3>1. j - 1 \in 1..Len(list) /\ Cons(n, list)[j] = list[j - 1]
      BY <1>1, <1>4, <2>2
    <3>2. Walk(d2, Cons(n, list))[j] = d[list[j - 1]]
      BY <1>6, <3>1
    <3> QED
      BY <1>2, <1>3, <2>2, <3>1, <3>2
  <2> QED
    BY <1>1, <2>1, <2>2
<1> QED
  BY <1>3, <1>6, <1>7, SeqEqual

(***************************************************************************)
(* A walk of a list without an entry misses its struct and no other.       *)
(***************************************************************************)
LEMMA WalkDel ==
  ASSUME NEW S, NEW d \in Fields(S), NEW d2 \in Fields(S),
         NEW list \in Seq(Nodes), NEW k \in 1..Len(list),
         \A i \in 1..Len(list) : i # k => d2[list[i]] = d[list[i]]
  PROVE  Walk(d2, RemoveAt(list, k)) = RemoveAt(Walk(d, list), k)
<1>1. /\ RemoveAt(list, k) \in Seq(Nodes)
      /\ Len(list) \in Nat
      /\ Len(RemoveAt(list, k)) = Len(list) - 1
      /\ \A j \in 1..Len(list) - 1 :
           RemoveAt(list, k)[j] = IF j < k THEN list[j] ELSE list[j + 1]
  BY RemoveAtProperties, LenProperties
<1>2. /\ Walk(d, list) \in Seq(S)
      /\ Len(Walk(d, list)) = Len(list)
      /\ \A i \in 1..Len(list) : Walk(d, list)[i] = d[list[i]]
  BY WalkType
<1>3. /\ RemoveAt(Walk(d, list), k) \in Seq(S)
      /\ Len(RemoveAt(Walk(d, list), k)) = Len(list) - 1
      /\ \A j \in 1..Len(list) - 1 :
           RemoveAt(Walk(d, list), k)[j] =
             IF j < k THEN Walk(d, list)[j] ELSE Walk(d, list)[j + 1]
  BY <1>2, RemoveAtProperties
<1>4. ASSUME NEW j \in 1..Len(list) - 1
      PROVE  d2[RemoveAt(list, k)[j]] =
               IF j < k THEN d[list[j]] ELSE d[list[j + 1]]
  BY <1>1
<1>5. \A j \in 1..Len(list) - 1 : j \in 1..Len(list) /\ j + 1 \in 1..Len(list)
  BY <1>1
<1>7. /\ Walk(d2, RemoveAt(list, k)) \in Seq(S)
      /\ Len(Walk(d2, RemoveAt(list, k))) = Len(list) - 1
      /\ \A j \in 1..Len(list) - 1 :
           Walk(d2, RemoveAt(list, k))[j] = d2[RemoveAt(list, k)[j]]
  BY <1>1, WalkType
<1>8. ASSUME NEW j \in 1..Len(list) - 1
      PROVE  Walk(d2, RemoveAt(list, k))[j] = RemoveAt(Walk(d, list), k)[j]
  <2>1. CASE j < k
    BY <1>2, <1>3, <1>4, <1>5, <1>7, <2>1
  <2>2. CASE ~(j < k)
    BY <1>2, <1>3, <1>4, <1>5, <1>7, <2>2
  <2> QED
    BY <2>1, <2>2
<1> QED
  BY <1>3, <1>7, <1>8, SeqEqual

-----------------------------------------------------------------------------
(* The inductive invariant.                                                *)

\* Each list holds structs of its own kind.
Kinds ==
  /\ \A i \in 1..Len(order["allocations"]) :
       data[order["allocations"][i]] \in Tracker!Allocation
  /\ \A i \in 1..Len(order["mmaps"]) :
       data[order["mmaps"][i]] \in Tracker!Mapping

\* What the functions were called with.
ArgInv ==
  /\ op = "track_mmap" => /\ arg.gpu_va \in Handles
                          /\ arg.addr \in Addrs \cup {MapFailed}
  /\ op = "munmap" => arg.addr \in Addrs

ListsInv == TypeOK /\ WellLinked /\ HeapOnLists /\ Kinds

IInv == ListsInv /\ ArgInv /\ CursorOnList

(***************************************************************************)
(* The lists as the lemmas above see them.                                 *)
(***************************************************************************)
LEMMA ListsFacts ==
  ASSUME ListsInv
  PROVE  /\ Shape(link, heap, order)
         /\ data \in Fields(Structs)
         /\ \A h \in Heads : /\ order[h] \in Seq(Nodes)
                             /\ Len(order[h]) \in Nat
                             /\ DOMAIN order[h] = 1..Len(order[h])
                             /\ Distinct(order[h])
                             /\ \A i \in 1..Len(order[h]) : order[h][i] \in heap
         /\ "allocations" \in Heads /\ "mmaps" \in Heads
<1>1. Shape(link, heap, order)
  BY ShapeIs DEF ListsInv
<1>2. data \in Fields(Structs)
  BY DEF ListsInv, TypeOK, Fields, Structs
<1>3. ASSUME NEW h \in Heads
      PROVE  /\ order[h] \in Seq(Nodes)
             /\ Len(order[h]) \in Nat
             /\ DOMAIN order[h] = 1..Len(order[h])
             /\ Distinct(order[h])
             /\ \A i \in 1..Len(order[h]) : order[h][i] \in heap
  <2>1. order[h] \in Seq(Nodes)
    BY DEF ListsInv, TypeOK
  <2>2. \A i \in 1..Len(order[h]) : order[h][i] \in Nodes
    BY <2>1, ElementOfSeq
  <2> QED
    BY <1>1, <2>1, <2>2, LenProperties DEF Shape, Distinct, OnList
<1> QED
  BY <1>1, <1>2, <1>3 DEF Heads

(***************************************************************************)
(* A search that has not come back to the head looks at an entry of its    *)
(* list, the first it has not ruled out.                                   *)
(***************************************************************************)
LEMMA AtAnEntry ==
  ASSUME IInv, op # "none", ~AtEnd
  PROVE  /\ HeadOf[op] \in Heads
         /\ \E k \in 1..Len(order[HeadOf[op]]) :
              /\ pos = order[HeadOf[op]][k]
              /\ \A j \in 1..k - 1 : ~Matches(order[HeadOf[op]][j])
<1>1. HeadOf[op] \in Heads
  BY DEF IInv, ListsInv, TypeOK, Ops, HeadOf, Heads
<1>2. Len(order[HeadOf[op]]) \in Nat /\ DOMAIN order[HeadOf[op]] = 1..Len(order[HeadOf[op]])
  BY <1>1, ListsFacts DEF IInv
<1>3. PICK k \in 1..Len(order[HeadOf[op]]) + 1 :
        /\ pos = Stop(order[HeadOf[op]], HeadOf[op], k)
        /\ \A j \in 1..k - 1 : ~Matches(order[HeadOf[op]][j])
  BY DEF IInv, CursorOnList
<1>4. k \in 1..Len(order[HeadOf[op]])
  BY <1>2, <1>3 DEF Stop, AtEnd
<1>5. pos = order[HeadOf[op]][k]
  BY <1>2, <1>3, <1>4 DEF Stop
<1> QED
  BY <1>1, <1>3, <1>4, <1>5

(***************************************************************************)
(* The initial state: two empty rings.                                     *)
(***************************************************************************)
LEMMA InitInv == Init => IInv
<1> SUFFICES ASSUME Init PROVE IInv
  OBVIOUS
<1>1. TypeOK
  <2>1. NoData \in Tracker!Allocation
    BY DEF NoData, Tracker!Allocation, Tracker!Handles
  <2>2. order \in [Heads -> Seq(Nodes)]
    BY EmptySeq DEF Init
  <2> QED
    BY <2>1, <2>2 DEF Init, TypeOK, Links, Heads, Ops, Args, NoArg, Handles
<1>2. \A h \in Heads : order[h] = <<>> /\ Len(order[h]) = 0 /\ DOMAIN order[h] = {}
  BY DEF Init
<1>3. WellLinked
  BY <1>2 DEF WellLinked, Ring, Stop, Init, Links
<1>4. HeapOnLists
  BY <1>2 DEF HeapOnLists, Init
<1>5. Kinds
  BY <1>2 DEF Kinds, Heads
<1> QED
  BY <1>1, <1>3, <1>4, <1>5 DEF IInv, ListsInv, ArgInv, CursorOnList, Init

(***************************************************************************)
(* A step that writes to no list keeps them, and is no step of the         *)
(* tracker.                                                                *)
(***************************************************************************)
LEMMA ListsUntouched ==
  ASSUME ListsInv, UNCHANGED <<link, data, heap, order>>,
         op' \in Ops, pos' \in Links, arg' \in Args
  PROVE  ListsInv' /\ UNCHANGED Tracker!tracker
<1>1. TypeOK'
  BY DEF ListsInv, TypeOK
<1>2. WellLinked' /\ HeapOnLists' /\ Kinds'
  BY DEF ListsInv, WellLinked, HeapOnLists, Kinds
<1>3. UNCHANGED Tracker!tracker
  BY DEF Tracker!tracker, Contents
<1> QED
  BY <1>1, <1>2, <1>3 DEF ListsInv

(***************************************************************************)
(* What returns leaves no search behind.                                   *)
(***************************************************************************)
LEMMA DoneInv ==
  ASSUME Done
  PROVE  /\ ArgInv' /\ CursorOnList'
         /\ op' \in Ops /\ pos' \in Links /\ arg' \in Args
BY DEF Done, ArgInv, CursorOnList, Ops, Links, Heads, Args, NoArg, Handles

(***************************************************************************)
(* panwrap_track_allocation().                                             *)
(***************************************************************************)
LEMMA TrackAllocationStep ==
  ASSUME IInv, NEW gpu_va \in Handles, NEW same_va \in BOOLEAN, NEW node \in Nodes,
         track_allocation(gpu_va, same_va, node)
  PROVE  IInv' /\ Tracker!TrackAllocation(gpu_va, same_va)
<1> DEFINE a == [gpu_va |-> gpu_va, same_va |-> same_va]
<1>0. /\ op = "none" /\ node \in Nodes \ heap /\ heap' = heap \cup {node}
      /\ data' = [data EXCEPT ![node] = a]
      /\ link' = list_add(list_init(link, node), node, "allocations")
      /\ order' = [order EXCEPT !["allocations"] = Cons(node, @)]
      /\ UNCHANGED <<op, pos, arg>>
  BY DEF track_allocation, Malloc
<1>1. /\ Shape(link, heap, order) /\ data \in Fields(Structs)
      /\ \A h \in Heads : /\ order[h] \in Seq(Nodes)
                          /\ Len(order[h]) \in Nat
                          /\ \A i \in 1..Len(order[h]) : order[h][i] \in heap
      /\ "allocations" \in Heads /\ "mmaps" \in Heads
  BY ListsFacts DEF IInv
<1>2. a \in Tracker!Allocation
  BY DEF Tracker!Allocation, Tracker!Handles, Handles
<1>3. Shape(link, heap, order)'
  BY <1>0, <1>1, AddShape
<1>4. data' \in Fields(Structs) /\ data'[node] = a
      /\ \A n \in heap : data'[n] = data[n]
  BY <1>0, <1>1, <1>2 DEF Fields, Structs, Shape
<1>5. TypeOK'
  BY <1>0, <1>3, <1>4 DEF IInv, ListsInv, TypeOK, Shape, Pointers, Fields, Structs
<1>6. order'["allocations"] = Cons(node, order["allocations"])
      /\ order'["mmaps"] = order["mmaps"]
  BY <1>0, <1>1 DEF IInv, ListsInv, TypeOK
<1>7. Kinds'
  <2>1. ASSUME NEW i \in 1..Len(order'["allocations"])
        PROVE  data'[order'["allocations"][i]] \in Tracker!Allocation
    <3>1. \/ order'["allocations"][i] = node
          \/ \E j \in 1..Len(order["allocations"]) :
               order'["allocations"][i] = order["allocations"][j]
      <4>1. PICK old \in Seq(Nodes) : old = order["allocations"]
        BY <1>1
      <4>2. \A k \in 1..Len(Cons(node, old)) :
              \/ Cons(node, old)[k] = node
              \/ \E j \in 1..Len(old) : Cons(node, old)[k] = old[j]
        BY ConsEntries
      <4> QED
        BY <4>1, <4>2, <1>6
    <3> QED
      BY <1>1, <1>2, <1>4, <3>1 DEF IInv, ListsInv, Kinds
  <2>2. ASSUME NEW i \in 1..Len(order'["mmaps"])
        PROVE  data'[order'["mmaps"][i]] \in Tracker!Mapping
    BY <1>1, <1>4, <1>6 DEF IInv, ListsInv, Kinds
  <2> QED
    BY <2>1, <2>2 DEF Kinds
<1>8. ListsInv'
  BY <1>3, <1>5, <1>7, ShapeIsNext DEF ListsInv
<1>9. ArgInv' /\ CursorOnList'
  BY <1>0 DEF ArgInv, CursorOnList
<1>10. Contents("allocations")' = Cons(a, Contents("allocations"))
  <2>1. Contents("allocations") = Walk(data, order["allocations"])
        /\ Contents("allocations")' = Walk(data', order'["allocations"])
    BY DEF Contents, Walk
  <2>2. Walk(data', Cons(node, order["allocations"]))
          = Cons(data'[node], Walk(data, order["allocations"]))
    BY <1>1, <1>4, WalkAdd
  <2> QED
    BY <1>4, <1>6, <2>1, <2>2
<1>11. Contents("mmaps")' = Contents("mmaps")
  <2>1. Contents("mmaps") = Walk(data, order["mmaps"])
        /\ Contents("mmaps")' = Walk(data', order'["mmaps"])
    BY DEF Contents, Walk
  <2> QED
    BY <1>1, <1>4, <1>6, <2>1, WalkUntouched
<1> QED
  BY <1>8, <1>9, <1>10, <1>11 DEF IInv, Tracker!TrackAllocation, Tracker!AddEntry,
                                        Tracker!Cons, Cons

(***************************************************************************)
(* The start of panwrap_track_mmap(), of munmap() and of a lookup: the     *)
(* loop variable is the first entry, or the head of an empty list.         *)
(***************************************************************************)
LEMMA SearchStep ==
  ASSUME IInv, NEW function \in Ops \ {"none"}, NEW argument \in Args,
         Search(function, argument),
         function = "track_mmap" => /\ argument.gpu_va \in Handles
                                    /\ argument.addr \in Addrs \cup {MapFailed},
         function = "munmap" => argument.addr \in Addrs
  PROVE  IInv' /\ UNCHANGED Tracker!tracker
<1> DEFINE h == HeadOf[function]
<1>1. h \in Heads
  BY DEF HeadOf, Ops, Heads
<1>2. /\ op' = function /\ arg' = argument /\ pos' = link.next[h]
      /\ UNCHANGED <<link, data, heap, order>>
  BY DEF Search
<1> HIDE DEF h
<1>3. order[h] \in Seq(Nodes) /\ Len(order[h]) \in Nat /\ DOMAIN order[h] = 1..Len(order[h])
  BY <1>1, ListsFacts DEF IInv
<1>4. link.next[h] = Stop(order[h], h, 1)
  <2>1. Ring(link, order[h], h)
    BY <1>1 DEF IInv, ListsInv, WellLinked
  <2>2. link.next[Stop(order[h], h, 0)] = Stop(order[h], h, 0 + 1)
    BY <1>3, <2>1 DEF Ring
  <2> QED
    BY <1>3, <2>2 DEF Stop
<1>5. link.next[h] \in Links
  BY <1>1, h \in Links DEF IInv, ListsInv, TypeOK, Links
<1>6. ListsInv' /\ UNCHANGED Tracker!tracker
  BY <1>2, <1>5, ListsUntouched DEF IInv
<1>7. CursorOnList'
  <2>1. HeadOf[op'] = h
    BY <1>2 DEF h
  <2>2. 1 \in 1..Len(order[h]) + 1 /\ 1..1 - 1 = {}
    BY <1>3
  <2>3. pos' = Stop(order'[HeadOf[op']], HeadOf[op'], 1)
    BY <1>2, <1>4, <2>1
  <2> QED
    BY <1>2, <2>1, <2>2, <2>3 DEF CursorOnList
<1>8. ArgInv'
  BY <1>2 DEF ArgInv
<1> QED
  BY <1>6, <1>7, <1>8 DEF IInv

(***************************************************************************)
(* One more iteration of a loop.                                           *)
(***************************************************************************)
LEMMA AdvanceStep ==
  ASSUME IInv, Advance
  PROVE  IInv' /\ UNCHANGED Tracker!tracker
<1> DEFINE h == HeadOf[op]
<1>1. /\ op # "none" /\ ~AtEnd /\ ~Matches(pos) /\ pos' = link.next[pos]
      /\ UNCHANGED <<link, data, heap, op, arg, order>>
  BY DEF Advance
<1>2. h \in Heads
  BY <1>1, AtAnEntry
<1>3. PICK k \in 1..Len(order[h]) :
        /\ pos = order[h][k] /\ \A j \in 1..k - 1 : ~Matches(order[h][j])
  BY <1>1, AtAnEntry
<1>4. HeadOf[op'] = h
  BY <1>1
<1> HIDE DEF h
<1>5. /\ order[h] \in Seq(Nodes) /\ Len(order[h]) \in Nat
      /\ DOMAIN order[h] = 1..Len(order[h])
  BY <1>2, ListsFacts DEF IInv
<1>6. link.next[pos] = Stop(order[h], h, k + 1)
  <2>1. Ring(link, order[h], h)
    BY <1>2 DEF IInv, ListsInv, WellLinked
  <2>2. k \in 0..Len(order[h])
    BY <1>5
  <2>3. link.next[Stop(order[h], h, k)] = Stop(order[h], h, k + 1)
    BY <2>1, <2>2 DEF Ring
  <2> QED
    BY <1>3, <1>5, <2>3 DEF Stop
<1>7. link.next[pos] \in Links
  BY DEF IInv, ListsInv, TypeOK
<1>8. ListsInv' /\ UNCHANGED Tracker!tracker
  BY <1>1, <1>7, ListsUntouched DEF IInv, ListsInv, TypeOK
<1>9. CursorOnList'
  <2>1. k + 1 \in 1..Len(order[h]) + 1
    BY <1>5
  <2>2. ASSUME NEW j \in 1..(k + 1) - 1 PROVE ~Matches(order[h][j])'
    <3>1. j = k \/ j \in 1..k - 1
      BY <1>5
    <3>2. ~Matches(order[h][j])
      BY <1>1, <1>3, <3>1
    <3> QED
      BY <1>1, <3>2 DEF Matches, h
  <2>3. pos' = Stop(order[h], h, k + 1)
    BY <1>1, <1>6
  <2> QED
    BY <1>1, <1>4, <2>1, <2>2, <2>3 DEF CursorOnList, h
<1>10. ArgInv'
  BY <1>1 DEF IInv, ArgInv
<1> QED
  BY <1>8, <1>9, <1>10 DEF IInv

(***************************************************************************)
(* A search that returns without having changed a list.                    *)
(***************************************************************************)
LEMMA ReturnStep ==
  ASSUME IInv, NotFound \/ FoundGpu
  PROVE  IInv' /\ UNCHANGED Tracker!tracker
BY DoneInv, ListsUntouched DEF IInv, NotFound, FoundGpu

(***************************************************************************)
(* The first match is where SelectInSeq() stops.                           *)
(***************************************************************************)
LEMMA FirstMatch ==
  ASSUME NEW n \in Nat, NEW I \in SUBSET (1..n), NEW k \in I,
         \A j \in 1..k - 1 : j \notin I
  PROVE  (IF I # {} THEN Min(I) ELSE 0) = k
<1>1. PICK i : i = IF I # {} THEN Min(I) ELSE 0
  OBVIOUS
<1>2. /\ i \in 0..n
      /\ i # 0 => i \in I /\ \A j \in I : i <= j
      /\ i = 0 => I = {}
  BY <1>1, FirstPosition
<1>3. i \in I /\ i <= k /\ i \in 1..n /\ k \in 1..n
  BY <1>2
<1>4. i \notin 1..k - 1
  BY <1>3
<1> QED
  BY <1>1, <1>3, <1>4

(***************************************************************************)
(* The history drops the entry that is unlinked.                           *)
(***************************************************************************)
LEMMA UnlinkedIs ==
  ASSUME ListsInv, NEW h \in Heads, NEW k \in 1..Len(order[h])
  PROVE  Unlinked(h, order[h][k]) = RemoveAt(order[h], k)
<1> DEFINE I == {j \in 1..Len(order[h]) : order[h][j] = order[h][k]}
<1>1. Len(order[h]) \in Nat /\ Distinct(order[h])
  BY ListsFacts
<1>2. I \in SUBSET (1..Len(order[h])) /\ k \in I /\ \A j \in 1..k - 1 : j \notin I
  BY <1>1 DEF Distinct
<1> HIDE DEF I
<1>3. (IF I # {} THEN Min(I) ELSE 0) = k
  BY <1>1, <1>2, FirstMatch
<1> QED
  BY <1>3 DEF Unlinked, SelectInSeq, I

(***************************************************************************)
(* The tail of munmap().                                                   *)
(***************************************************************************)
LEMMA FoundMappingStep ==
  ASSUME IInv, FoundMapping
  PROVE  IInv' /\ arg.addr \in Addrs /\ Tracker!TrackMunmap(arg.addr)
<1>0. /\ op = "munmap" /\ ~AtEnd /\ Matches(pos)
      /\ heap' = heap \ {pos} /\ link' = list_del(link, pos)
      /\ order' = [order EXCEPT !["mmaps"] = Unlinked("mmaps", pos)]
      /\ data' = [data EXCEPT ![pos] = NoData]
      /\ Done
  BY DEF FoundMapping, Free
<1>1. PICK list \in Seq(Nodes) : list = order["mmaps"]
  BY ListsFacts DEF IInv
<1>2. /\ Shape(link, heap, order) /\ data \in Fields(Structs)
      /\ \A h \in Heads : /\ order[h] \in Seq(Nodes)
                          /\ Len(order[h]) \in Nat
                          /\ \A i \in 1..Len(order[h]) : order[h][i] \in heap
      /\ Distinct(list) /\ Len(list) \in Nat
      /\ "allocations" \in Heads /\ "mmaps" \in Heads
  BY <1>1, ListsFacts DEF IInv
<1>3. PICK k \in 1..Len(list) : pos = list[k] /\ \A j \in 1..k - 1 : ~Matches(list[j])
  BY <1>0, <1>1, AtAnEntry DEF HeadOf
<1>4. order' = [order EXCEPT !["mmaps"] = RemoveAt(order["mmaps"], k)]
  BY <1>0, <1>1, <1>2, <1>3, UnlinkedIs DEF IInv
<1>5. Shape(link, heap, order)'
  <2>1. Shape(list_del(link, order["mmaps"][k]), heap \ {order["mmaps"][k]},
              [order EXCEPT !["mmaps"] = RemoveAt(order["mmaps"], k)])
    BY <1>1, <1>2, DelShape
  <2> QED
    BY <1>0, <1>1, <1>3, <1>4, <2>1
<1>6. /\ data' \in Fields(Structs)
      /\ \A n \in heap : n # pos => data'[n] = data[n]
  <2>1. NoData \in Structs
    BY DEF NoData, Structs, Tracker!Allocation, Tracker!Handles
  <2> QED
    BY <1>0, <1>2, <2>1 DEF Fields, Shape
<1>7. TypeOK'
  BY <1>0, <1>5, <1>6, DoneInv DEF TypeOK, Shape, Pointers, Fields, Structs
<1>8. order'["allocations"] = order["allocations"] /\ order'["mmaps"] = RemoveAt(list, k)
  BY <1>1, <1>2, <1>4 DEF Shape
<1>9. \A i \in 1..Len(order["allocations"]) : order["allocations"][i] # pos
  BY <1>1, <1>2, <1>3 DEF Shape
<1>10. \A i \in 1..Len(list) : i # k => data'[list[i]] = data[list[i]]
  BY <1>1, <1>2, <1>3, <1>6 DEF Distinct
<1>11. Kinds'
  <2>1. ASSUME NEW i \in 1..Len(order'["allocations"])
        PROVE  data'[order'["allocations"][i]] \in Tracker!Allocation
    BY <1>2, <1>6, <1>8, <1>9 DEF IInv, ListsInv, Kinds
  <2>2. ASSUME NEW i \in 1..Len(order'["mmaps"])
        PROVE  data'[order'["mmaps"][i]] \in Tracker!Mapping
    <3>1. PICK j \in 1..Len(list) : j # k /\ order'["mmaps"][i] = list[j]
      BY <1>8, RemoveAtEntries
    <3> QED
      BY <1>1, <1>10, <3>1 DEF IInv, ListsInv, Kinds
  <2> QED
    BY <2>1, <2>2 DEF Kinds
<1>12. IInv'
  BY <1>0, <1>5, <1>7, <1>11, ShapeIsNext, DoneInv DEF IInv, ListsInv
<1>13. Contents("mmaps") = Walk(data, list)
       /\ Contents("mmaps")' = RemoveAt(Walk(data, list), k)
  <2>1. Contents("mmaps") = Walk(data, list)
        /\ Contents("mmaps")' = Walk(data', RemoveAt(list, k))
    BY <1>1, <1>8 DEF Contents, Walk
  <2> QED
    BY <1>2, <1>6, <1>10, <2>1, WalkDel
<1>14. Contents("allocations")' = Contents("allocations")
  <2>1. Contents("allocations") = Walk(data, order["allocations"])
        /\ Contents("allocations")' = Walk(data', order["allocations"])
    BY <1>8 DEF Contents, Walk
  <2> QED
    BY <1>2, <1>6, <1>9, <2>1, WalkUntouched
<1>15. Tracker!MappedIndex(arg.addr) = k
  <2> DEFINE w == Walk(data, list)
             I == {j \in 1..Len(w) : w[j].addr = arg.addr}
  <2>1. Len(w) = Len(list) /\ \A j \in 1..Len(list) : w[j] = data[list[j]]
    BY <1>2, WalkType
  <2>2. /\ I \in SUBSET (1..Len(list)) /\ k \in I
        /\ \A j \in 1..k - 1 : j \notin I
    BY <1>0, <1>2, <1>3, <2>1 DEF Matches
  <2>3. (IF I # {} THEN Min(I) ELSE 0) = k
    BY <1>2, <2>2, FirstMatch
  <2>4. Tracker!MappedIndex(arg.addr) = IF I # {} THEN Min(I) ELSE 0
    <3> DEFINE c == Contents("mmaps")
               J == {j \in 1..Len(c) : c[j].addr = arg.addr}
    <3>1. Tracker!MappedIndex(arg.addr) = IF J # {} THEN Tracker!Min(J) ELSE 0
      BY DEF Tracker!MappedIndex, Tracker!SelectInSeq
    <3>2. J = I
      BY <1>13
    <3> HIDE DEF J, I
    <3>3. Tracker!Min(I) = Min(I)
      BY DEF Tracker!Min, Min
    <3> QED
      BY <3>1, <3>2, <3>3
  <2> QED
    BY <2>3, <2>4
<1>16. Tracker!TrackMunmap(arg.addr)
  <2>1. k # 0
    BY <1>2
  <2>2. Contents("mmaps")' = RemoveAt(Contents("mmaps"), k)
    BY <1>13
  <2> QED
    BY <1>14, <1>15, <2>1, <2>2 DEF Tracker!TrackMunmap, Tracker!RemoveAt, RemoveAt
<1> QED
  BY <1>0, <1>12, <1>16 DEF IInv, ArgInv

(***************************************************************************)
(* The rest of panwrap_track_mmap().                                       *)
(***************************************************************************)
LEMMA FoundPendingStep ==
  ASSUME IInv, NEW node \in Nodes, FoundPending(node)
  PROVE  /\ IInv'
         /\ arg.gpu_va \in Handles /\ arg.addr \in Addrs \cup {MapFailed}
         /\ Tracker!TrackMmap(arg.gpu_va, arg.addr)
<1> DEFINE m == [gpu_va |-> IF data[pos].same_va THEN arg.addr ELSE arg.gpu_va,
                 addr |-> arg.addr]
<1>0. /\ op = "track_mmap" /\ ~AtEnd /\ Matches(pos)
      /\ node \in Nodes \ heap /\ heap' = (heap \cup {node}) \ {pos}
      /\ data' = [data EXCEPT ![node] = m, ![pos] = NoData]
      /\ link' = list_del(list_add(list_init(link, node), node, "mmaps"), pos)
      /\ order' = [order EXCEPT !["allocations"] = Unlinked("allocations", pos),
                               !["mmaps"] = Cons(node, @)]
      /\ Done
  BY DEF FoundPending, Free, Malloc
<1>1. /\ Shape(link, heap, order) /\ data \in Fields(Structs)
      /\ \A h \in Heads : /\ order[h] \in Seq(Nodes)
                          /\ Len(order[h]) \in Nat
                          /\ Distinct(order[h])
                          /\ \A i \in 1..Len(order[h]) : order[h][i] \in heap
      /\ "allocations" \in Heads /\ "mmaps" \in Heads
  BY ListsFacts DEF IInv
<1>2. PICK list \in Seq(Nodes) : list = order["allocations"]
  BY <1>1
<1>3. PICK mapped \in Seq(Nodes) : mapped = order["mmaps"]
  BY <1>1
<1>4. PICK k \in 1..Len(list) : pos = list[k] /\ \A j \in 1..k - 1 : ~Matches(list[j])
  BY <1>0, <1>2, AtAnEntry DEF HeadOf
<1>5. pos \in heap /\ pos # node
  BY <1>0, <1>1, <1>2, <1>4
<1>6. Shape(link, heap, order)'
  <2> DEFINE ln == list_add(list_init(link, node), node, "mmaps")
             od == [order EXCEPT !["mmaps"] = Cons(node, @)]
  <2>1. Shape(ln, heap \cup {node}, od)
    BY <1>0, <1>1, AddShape
  <2>2. od["allocations"] = list
    BY <1>1, <1>2 DEF Shape
  <2> HIDE DEF ln, od
  <2>3. Shape(list_del(ln, pos), (heap \cup {node}) \ {pos},
              [od EXCEPT !["allocations"] = RemoveAt(list, k)])
    BY <1>1, <1>4, <2>1, <2>2, DelShape
  <2>4. Unlinked("allocations", pos) = RemoveAt(list, k)
    BY <1>1, <1>2, <1>4, UnlinkedIs DEF IInv
  <2>5. order' = [od EXCEPT !["allocations"] = RemoveAt(list, k)]
    BY <1>0, <1>1, <2>4 DEF od, Shape
  <2> QED
    BY <1>0, <2>3, <2>5 DEF ln
<1>7. order'["allocations"] = RemoveAt(list, k) /\ order'["mmaps"] = Cons(node, mapped)
  <2>1. Unlinked("allocations", pos) = RemoveAt(list, k)
    BY <1>1, <1>2, <1>4, UnlinkedIs DEF IInv
  <2> QED
    BY <1>0, <1>1, <1>3, <2>1 DEF Shape
<1>8. m \in Tracker!Mapping /\ arg.gpu_va \in Handles /\ arg.addr \in Addrs \cup {MapFailed}
  BY <1>0 DEF IInv, ArgInv, Tracker!Mapping, Tracker!Handles, Handles
<1>9. /\ data' \in Fields(Structs) /\ data'[node] = m
      /\ \A n \in heap : n # pos => data'[n] = data[n]
  <2>1. NoData \in Structs /\ m \in Structs
    BY <1>8 DEF NoData, Structs, Tracker!Allocation, Tracker!Handles
  <2> HIDE DEF m
  <2> QED
    BY <1>0, <1>1, <1>5, <2>1 DEF Fields, Shape
<1>10. TypeOK'
  BY <1>0, <1>6, <1>9, DoneInv DEF TypeOK, Shape, Pointers, Fields, Structs
<1>11. \A i \in 1..Len(mapped) : data'[mapped[i]] = data[mapped[i]]
  <2>1. \A i \in 1..Len(mapped) : mapped[i] # pos
    BY <1>1, <1>2, <1>3, <1>4 DEF Shape
  <2> QED
    BY <1>1, <1>3, <1>9, <2>1
<1>12. \A i \in 1..Len(list) : i # k => data'[list[i]] = data[list[i]]
  BY <1>1, <1>2, <1>4, <1>9 DEF Distinct
<1> HIDE DEF m
<1>13. Kinds'
  <2>1. ASSUME NEW i \in 1..Len(order'["allocations"])
        PROVE  data'[order'["allocations"][i]] \in Tracker!Allocation
    <3>1. PICK j \in 1..Len(list) : j # k /\ order'["allocations"][i] = list[j]
      BY <1>7, RemoveAtEntries
    <3> QED
      BY <1>2, <1>12, <3>1 DEF IInv, ListsInv, Kinds
  <2>2. ASSUME NEW i \in 1..Len(order'["mmaps"])
        PROVE  data'[order'["mmaps"][i]] \in Tracker!Mapping
    <3>1. \/ order'["mmaps"][i] = node
          \/ \E j \in 1..Len(mapped) : order'["mmaps"][i] = mapped[j]
      <4>1. \A j \in 1..Len(Cons(node, mapped)) :
              \/ Cons(node, mapped)[j] = node
              \/ \E l \in 1..Len(mapped) : Cons(node, mapped)[j] = mapped[l]
        BY ConsEntries
      <4> QED
        BY <1>7, <4>1
    <3> QED
      BY <1>3, <1>8, <1>9, <1>11, <3>1 DEF IInv, ListsInv, Kinds
  <2> QED
    BY <2>1, <2>2 DEF Kinds
<1>14. IInv'
  BY <1>0, <1>6, <1>10, <1>13, ShapeIsNext, DoneInv DEF IInv, ListsInv
<1>15. /\ Contents("allocations") = Walk(data, list)
       /\ Contents("allocations")' = RemoveAt(Walk(data, list), k)
  <2>1. Contents("allocations") = Walk(data, list)
        /\ Contents("allocations")' = Walk(data', RemoveAt(list, k))
    BY <1>2, <1>7 DEF Contents, Walk
  <2> QED
    BY <1>1, <1>9, <1>12, <2>1, WalkDel
<1>16. Contents("mmaps")' = Cons(m, Contents("mmaps"))
  <2>1. Contents("mmaps") = Walk(data, mapped)
        /\ Contents("mmaps")' = Walk(data', Cons(node, mapped))
    BY <1>3, <1>7 DEF Contents, Walk
  <2>2. Walk(data', Cons(node, mapped)) = Cons(data'[node], Walk(data, mapped))
    BY <1>1, <1>9, <1>11, WalkAdd
  <2> QED
    BY <1>9, <2>1, <2>2
<1>17. Tracker!PendingIndex(arg.gpu_va) = k /\ Walk(data, list)[k] = data[pos]
  <2> DEFINE w == Walk(data, list)
             I == {j \in 1..Len(w) : w[j].gpu_va = arg.gpu_va}
  <2>1. /\ Len(w) = Len(list) /\ Len(list) \in Nat
        /\ \A j \in 1..Len(list) : w[j] = data[list[j]]
    BY <1>1, WalkType
  <2>2. /\ I \in SUBSET (1..Len(list)) /\ k \in I
        /\ \A j \in 1..k - 1 : j \notin I
    BY <1>0, <1>4, <2>1 DEF Matches
  <2>3. (IF I # {} THEN Min(I) ELSE 0) = k
    BY <2>1, <2>2, FirstMatch
  <2>4. Tracker!PendingIndex(arg.gpu_va) = IF I # {} THEN Min(I) ELSE 0
    <3> DEFINE c == Contents("allocations")
               J == {j \in 1..Len(c) : c[j].gpu_va = arg.gpu_va}
    <3>1. Tracker!PendingIndex(arg.gpu_va) = IF J # {} THEN Tracker!Min(J) ELSE 0
      BY DEF Tracker!PendingIndex, Tracker!SelectInSeq
    <3>2. J = I
      BY <1>15
    <3> HIDE DEF J, I
    <3>3. Tracker!Min(I) = Min(I)
      BY DEF Tracker!Min, Min
    <3> QED
      BY <3>1, <3>2, <3>3
  <2> QED
    BY <1>4, <2>1, <2>3, <2>4
<1>18. Tracker!TrackMmap(arg.gpu_va, arg.addr)
  <2>1. k # 0
    OBVIOUS
  <2>2. Contents("allocations")' = RemoveAt(Contents("allocations"), k)
        /\ Contents("allocations")[k] = data[pos]
    BY <1>15, <1>17
  <2> QED
    BY <1>16, <1>17, <2>1, <2>2
    DEF Tracker!TrackMmap, Tracker!AddEntry, Tracker!RemoveAt, RemoveAt,
        Tracker!Cons, Cons, m
<1> QED
  BY <1>8, <1>14, <1>18

(***************************************************************************)
(* Every step keeps the invariant, and is a step of the tracker or leaves  *)
(* its two lists alone.                                                    *)
(***************************************************************************)
LEMMA StepInv ==
  IInv /\ [Next]_vars => IInv' /\ [Tracker!TrackerNext]_(Tracker!tracker)
<1> SUFFICES ASSUME IInv, [Next]_vars
             PROVE  IInv' /\ [Tracker!TrackerNext]_(Tracker!tracker)
  OBVIOUS
<1> USE DEF Tracker!TrackerNext, Tracker!Handles, Handles
<1>1. CASE UNCHANGED vars
  <2>1. ListsInv' /\ UNCHANGED Tracker!tracker
    BY <1>1, ListsUntouched DEF vars, IInv, ListsInv, TypeOK
  <2>2. ArgInv' /\ CursorOnList'
    BY <1>1 DEF vars, IInv, ArgInv, CursorOnList, Matches
  <2> QED
    BY <2>1, <2>2 DEF IInv
<1>2. ASSUME NEW gpu_va \in Handles, NEW same_va \in BOOLEAN, NEW node \in Nodes,
             track_allocation(gpu_va, same_va, node)
      PROVE  IInv' /\ [Tracker!TrackerNext]_(Tracker!tracker)
  BY <1>2, TrackAllocationStep
<1>3. CASE StartTrackMmap
  <2>1. PICK gpu_va \in Handles, addr \in Addrs \cup {MapFailed} :
          Search("track_mmap", [gpu_va |-> gpu_va, addr |-> addr])
    BY <1>3 DEF StartTrackMmap
  <2> QED
    BY <2>1, SearchStep DEF Ops, Args
<1>4. CASE StartMunmap
  <2>1. PICK addr \in Addrs : Search("munmap", [gpu_va |-> NullPtr, addr |-> addr])
    BY <1>4 DEF StartMunmap
  <2> QED
    BY <2>1, SearchStep DEF Ops, Args
<1>5. CASE StartFindGpu
  <2>1. PICK gpu_va \in Handles \cup Addrs :
          Search("find_gpu", [gpu_va |-> gpu_va, addr |-> NullPtr])
    BY <1>5 DEF StartFindGpu
  <2> QED
    BY <2>1, SearchStep DEF Ops, Args
<1>6. CASE Advance
  BY <1>6, AdvanceStep
<1>7. CASE NotFound \/ FoundGpu
  BY <1>7, ReturnStep
<1>8. CASE FoundMapping
  BY <1>8, FoundMappingStep
<1>9. ASSUME NEW node \in Nodes, FoundPending(node)
      PROVE  IInv' /\ [Tracker!TrackerNext]_(Tracker!tracker)
  BY <1>9, FoundPendingStep
<1> QED
  BY <1>1, <1>2, <1>3, <1>4, <1>5, <1>6, <1>7, <1>8, <1>9 DEF Next, Continue

-----------------------------------------------------------------------------

(***************************************************************************)
(* No insertion or removal breaks a ring, in any order of calls of         *)
(* panwrap_track_allocation(), panwrap_track_mmap() and munmap().          *)
(***************************************************************************)
THEOREM ListsWellLinked == Spec => []WellLinked
<1>1. IInv => WellLinked
  BY DEF IInv, ListsInv
<1> QED
  BY <1>1, InitInv, StepInv, PTL DEF Spec

(***************************************************************************)
(* No struct leaks and no freed struct is on a list.                       *)
(***************************************************************************)
THEOREM NothingLeaks == Spec => []HeapOnLists
<1>1. IInv => HeapOnLists
  BY DEF IInv, ListsInv
<1> QED
  BY <1>1, InitInv, StepInv, PTL DEF Spec

(***************************************************************************)
(* A loop looks at allocated entries of its own list, and passes none that *)
(* matches.                                                                *)
(***************************************************************************)
THEOREM SearchesAreSound == Spec => []CursorOnList
<1>1. IInv => CursorOnList
  BY DEF IInv
<1> QED
  BY <1>1, InitInv, StepInv, PTL DEF Spec

(***************************************************************************)
(* The linked lists, the heap and the loops implement the two sequences of *)
(* PanwrapMmap.                                                            *)
(***************************************************************************)
THEOREM ListsImplementTracker == Spec => TrackerSpec
<1>1. Init => Tracker!TrackerInit
  <2>1. ASSUME Init PROVE order["allocations"] = <<>> /\ order["mmaps"] = <<>>
    BY <2>1 DEF Init, Heads
  <2>2. \A h \in {"allocations", "mmaps"} : order[h] = <<>> => Contents(h) = <<>>
    BY DEF Contents
  <2> QED
    BY <2>1, <2>2 DEF Tracker!TrackerInit
<1> QED
  BY <1>1, InitInv, StepInv, PTL DEF Spec, TrackerSpec, Tracker!TrackerSpec

=============================================================================
