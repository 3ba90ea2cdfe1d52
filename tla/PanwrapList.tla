----------------------------- MODULE PanwrapList -----------------------------
(***************************************************************************)
(* The circular doubly linked lists of include/list.h under the memory     *)
(* tracker of panwrap/panwrap-mmap.c: two list heads, entries that come    *)
(* from malloc() and go back to free(), and loops that walk from entry to  *)
(* entry.  Everything happens under the mutex of panwrap-syscall.c, so one *)
(* operation runs at a time; an operation that searches takes one step per *)
(* iteration of list_for_each_entry.                                       *)
(*                                                                         *)
(* PanwrapMmap is the abstract view: it has each list as a sequence.       *)
(***************************************************************************)
EXTENDS Integers, Sequences, SequencesExt

CONSTANTS
  Nodes,     \* the memory malloc() hands out, one struct at a time
  GpuVas, Cookies, Addrs, NullPtr, MapFailed   \* as in PanwrapMmap

Heads == {"allocations", "mmaps"}

ASSUME NodeAssumption == Nodes \cap Heads = {}

Links == Nodes \cup Heads

VARIABLES
  link,     \* link.next and link.prev: the two pointers of every struct list
  data,     \* the fields of the struct around the list node
  heap,     \* what malloc() has handed out
  op,       \* the function in progress, "none" outside
  pos,      \* its loop variable
  arg,      \* its arguments
  order     \* history: the entries of each list, first to last

vars == <<link, data, heap, op, pos, arg, order>>

Handles == GpuVas \cup Cookies \cup {NullPtr}

\* The abstract tracker: the structs on each list in the order of a walk.
Contents(head) == [i \in DOMAIN order[head] |-> data[order[head][i]]]

Tracker == INSTANCE PanwrapMmap WITH
  allocations <- Contents("allocations"), mmaps <- Contents("mmaps")

Ops == {"none", "track_mmap", "munmap", "find_gpu"}

\* The list each search walks.
HeadOf == [track_mmap |-> "allocations", munmap |-> "mmaps",
           find_gpu |-> "mmaps"]

Args == [gpu_va: Handles \cup Addrs \cup {MapFailed},
         addr: Addrs \cup {NullPtr, MapFailed}]

NoArg == [gpu_va |-> NullPtr, addr |-> NullPtr]

TypeOK ==
  /\ link \in [next: [Links -> Links], prev: [Links -> Links]]
  /\ data \in [Nodes -> Tracker!Allocation \cup Tracker!Mapping]
  /\ heap \subseteq Nodes
  /\ op \in Ops
  /\ pos \in Links
  /\ arg \in Args
  /\ order \in [Heads -> Seq(Nodes)]

-----------------------------------------------------------------------------
(* list.h                                                                  *)

list_init(ln, node) ==
  [next |-> [ln.next EXCEPT ![node] = node],
   prev |-> [ln.prev EXCEPT ![node] = node]]

\* A mutant: the old first entry keeps pointing back at the head.
LinkBetweenForward(ln, entry, before, after) ==
  [next |-> [ln.next EXCEPT ![entry] = after, ![before] = entry],
   prev |-> [ln.prev EXCEPT ![entry] = before]]

\* __list_add(entry, prev, next)
LinkBetween(ln, entry, before, after) ==
  [next |-> [ln.next EXCEPT ![entry] = after, ![before] = entry],
   prev |-> [ln.prev EXCEPT ![after] = entry, ![entry] = before]]

\* A mutant: new entries go to the end of the list.
list_add_tail(ln, entry, head) == LinkBetween(ln, entry, ln.prev[head], head)

list_add(ln, entry, head) == LinkBetween(ln, entry, head, ln.next[head])

\* __list_del(prev, next)
LinkPast(ln, before, after) ==
  [next |-> [ln.next EXCEPT ![before] = after],
   prev |-> [ln.prev EXCEPT ![after] = before]]

\* A mutant: the entry is made a list of its own before it is unlinked.
list_del_init_first(ln, entry) ==
  LET alone == list_init(ln, entry)
  IN LinkPast(alone, alone.prev[entry], alone.next[entry])

list_del(ln, entry) ==
  list_init(LinkPast(ln, ln.prev[entry], ln.next[entry]), entry)

-----------------------------------------------------------------------------

\* What is in memory that is not allocated: anything, nobody reads it.
NoData == [gpu_va |-> NullPtr, same_va |-> FALSE]

\* LIST_HEAD(allocations), LIST_HEAD(mmaps).
Init ==
  /\ link = [next |-> [n \in Links |-> n], prev |-> [n \in Links |-> n]]
  /\ data = [n \in Nodes |-> NoData]
  /\ heap = {}
  /\ op = "none" /\ pos = "allocations" /\ arg = NoArg
  /\ order = [head \in Heads |-> <<>>]

\* The function returns.
Done ==
  /\ op' = "none" /\ pos' = "allocations" /\ arg' = NoArg

\* malloc() succeeds as long as there is memory; the code assumes it does.
Malloc(node) == node \in Nodes \ heap

track_allocation(gpu_va, same_va, node) ==
  /\ op = "none"
  /\ Malloc(node) /\ heap' = heap \cup {node}
  /\ data' = [data EXCEPT ![node] = [gpu_va |-> gpu_va, same_va |-> same_va]]
  /\ link' = list_add(list_init(link, node), node, "allocations")
  /\ order' = [order EXCEPT !["allocations"] = Cons(node, @)]
  /\ UNCHANGED <<op, pos, arg>>

\* list_for_each_entry: the loop starts at the entry after the head.
Search(function, argument) ==
  /\ op = "none"
  /\ op' = function /\ arg' = argument
  /\ pos' = link.next[HeadOf[function]]
  /\ UNCHANGED <<link, data, heap, order>>

AtEnd == pos = HeadOf[op]

\* The test in the body of each loop.
Matches(node) ==
  \/ op \in {"track_mmap", "find_gpu"} /\ data[node].gpu_va = arg.gpu_va
  \/ op = "munmap" /\ data[node].addr = arg.addr

Advance ==
  /\ op # "none" /\ ~AtEnd /\ ~Matches(pos)
  /\ pos' = link.next[pos]
  /\ UNCHANGED <<link, data, heap, op, arg, order>>

\* Nothing matched: an untracked mapping is reported, nothing changes.
NotFound ==
  /\ op # "none" /\ AtEnd
  /\ Done
  /\ UNCHANGED <<link, data, heap, order>>

FoundGpu ==
  /\ op = "find_gpu" /\ ~AtEnd /\ Matches(pos)
  /\ Done
  /\ UNCHANGED <<link, data, heap, order>>

\* The entries that stay on the list; an entry is on it once.
Unlinked(head, node) ==
  RemoveAt(order[head], SelectInSeq(order[head], LAMBDA n : n = node))

\* A mutant: the entry that was mapped is unlinked and not freed.
FreeNothing(node) == {}

\* free()
Free(node) == {node}

\* The rest of panwrap_track_mmap(), with the entry to map found.
FoundPending(node) ==
  /\ op = "track_mmap" /\ ~AtEnd /\ Matches(pos)
  /\ Malloc(node) /\ heap' = (heap \cup {node}) \ Free(pos)
  /\ data' = [data EXCEPT ![node] =
                [gpu_va |-> IF data[pos].same_va THEN arg.addr ELSE arg.gpu_va,
                 addr |-> arg.addr],
                           ![pos] = NoData]
  /\ link' = list_del(list_add(list_init(link, node), node, "mmaps"), pos)
  /\ order' = [order EXCEPT !["allocations"] = Unlinked("allocations", pos),
                            !["mmaps"] = Cons(node, @)]
  /\ Done

\* The rest of munmap(), with the mapping found.
FoundMapping ==
  /\ op = "munmap" /\ ~AtEnd /\ Matches(pos)
  /\ heap' = heap \ Free(pos)
  /\ link' = list_del(link, pos)
  /\ order' = [order EXCEPT !["mmaps"] = Unlinked("mmaps", pos)]
  /\ data' = [data EXCEPT ![pos] = NoData]
  /\ Done

StartTrackMmap ==
  /\ heap # Nodes
  /\ \E gpu_va \in Handles, addr \in Addrs \cup {MapFailed} :
       Search("track_mmap", [gpu_va |-> gpu_va, addr |-> addr])

StartMunmap ==
  \E addr \in Addrs : Search("munmap", [gpu_va |-> NullPtr, addr |-> addr])

StartFindGpu ==
  \E gpu_va \in Handles \cup Addrs :
    Search("find_gpu", [gpu_va |-> gpu_va, addr |-> NullPtr])

\* A step of the function in progress.
Continue ==
  \/ Advance \/ NotFound \/ FoundGpu \/ FoundMapping
  \/ \E node \in Nodes : FoundPending(node)

Next ==
  \/ \E gpu_va \in Handles, same_va \in BOOLEAN, node \in Nodes :
       track_allocation(gpu_va, same_va, node)
  \/ StartTrackMmap \/ StartMunmap \/ StartFindGpu
  \/ Continue

Spec == Init /\ [][Next]_vars

\* The thread that runs a loop keeps running.
FairSpec == Spec /\ WF_vars(Continue)

-----------------------------------------------------------------------------
(* Properties.                                                             *)

\* The i-th stop of a walk along the list; the head is stop 0 and the last.
Stop(list, head, i) == IF i \in DOMAIN list THEN list[i] ELSE head

\* Stop by stop, next leads forward and prev leads back.
Ring(ln, list, head) ==
  \A i \in 0..Len(list) :
    /\ ln.next[Stop(list, head, i)] = Stop(list, head, i + 1)
    /\ ln.prev[Stop(list, head, i + 1)] = Stop(list, head, i)

(***************************************************************************)
(* From every head, the next pointers lead through the entries in the      *)
(* order they were added, newest first, and back to the head, and the prev *)
(* pointers lead the other way: no insertion or removal breaks the ring.   *)
(***************************************************************************)
WellLinked == \A head \in Heads : Ring(link, order[head], head)

(***************************************************************************)
(* Every struct that was allocated is on exactly one list, once, and no    *)
(* freed struct is on a list: nothing leaks and nothing dangles.           *)
(***************************************************************************)
HeapOnLists ==
  /\ heap = UNION {{order[head][i] : i \in DOMAIN order[head]} : head \in Heads}
  /\ \A h1, h2 \in Heads : \A i \in DOMAIN order[h1], j \in DOMAIN order[h2] :
       order[h1][i] = order[h2][j] => h1 = h2 /\ i = j

(***************************************************************************)
(* A loop only looks at structs that are allocated and on the list it      *)
(* walks, and every entry it has passed did not match.                     *)
(***************************************************************************)
CursorOnList ==
  op # "none" =>
    \E i \in 1..Len(order[HeadOf[op]]) + 1 :
      /\ pos = Stop(order[HeadOf[op]], HeadOf[op], i)
      /\ \A j \in 1..i - 1 : ~Matches(order[HeadOf[op]][j])

(***************************************************************************)
(* The linked lists implement the sequences of PanwrapMmap.                *)
(***************************************************************************)
TrackerSpec == Tracker!TrackerSpec

(***************************************************************************)
(* Every loop ends: no list becomes a ring that misses its head.           *)
(***************************************************************************)
LoopsEnd == op # "none" ~> op = "none"

=============================================================================
