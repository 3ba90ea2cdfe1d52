------------------------- MODULE PanwrapUtilProofs -------------------------
(***************************************************************************)
(* Proofs about what panwrap does to make sense of the program's words and *)
(* calls: LogFlags and CoreReq, for any tables of flags (overlapping ones  *)
(* and empty flags included) and any words; Prolog, for any threads and    *)
(* functions; IoctlDispatch, for any requests.                             *)
(***************************************************************************)
EXTENDS CoreReq, Prolog, IoctlDispatch, TLAPS

\* The entries of a table.
LEMMA FlagType ==
  ASSUME flag_info \in Tables
  PROVE  /\ Len(flag_info) \in Nat
         /\ \A k \in 1..Len(flag_info) : Flag(k) \in SUBSET Bits
<1>1. flag_info \in Seq(Entry)
  BY TableAssumption
<1>2. Len(flag_info) \in Nat /\ \A k \in 1..Len(flag_info) : flag_info[k] \in Entry
  BY <1>1
<1>3. \A e \in Entry : e.flag \in SUBSET Bits
  BY DEF Entry
<1> QED
  BY <1>2, <1>3 DEF Flag

\* A flag that has been passed is not set in what is left, unless it is empty.
PassedUnset ==
  \A k \in 1..i - 1 : Flag(k) \subseteq flags => Flag(k) = {}

Inv ==
  /\ TypeOK
  /\ BitsOnce
  /\ PassedUnset
  /\ decodable_flags_found <=> shown # {}
  /\ done => i > Len(flag_info) /\ (shown # {} => rest = flags)

\* No flag is shown and no bit cleared when the function is entered.
LEMMA InvInit == Init => Inv
<1> SUFFICES ASSUME Init
             PROVE  Inv
  OBVIOUS
<1> USE DEF Init
<1>1. flag_info \in Tables /\ Len(flag_info) \in Nat
  BY FlagType
<1>2. TypeOK
  <2>1. word \in SUBSET Bits /\ flags = word
    BY WordAssumption
  <2>2. i \in 1..Len(flag_info) + 1
    BY <1>1
  <2> QED
    BY <1>1, <2>1, <2>2 DEF TypeOK
<1>3. BitsOnce
  BY DEF BitsOnce, Named
<1>4. PassedUnset
  BY DEF PassedUnset
<1> QED
  BY <1>2, <1>3, <1>4 DEF Inv

\* A flag that is not set keeps its bits in the word, and is not shown.
LEMMA SkipInv ==
  ASSUME Inv, Skip
  PROVE  Inv'
<1> USE DEF Skip, NextEntry
<1>1. /\ flag_info \in Tables /\ Len(flag_info) \in Nat
      /\ i \in 1..Len(flag_info) /\ i' = i + 1
  BY FlagType DEF Inv, TypeOK
<1>2. TypeOK'
  BY <1>1 DEF Inv, TypeOK
<1>3. BitsOnce'
  BY DEF Inv, BitsOnce, Named, Flag
<1>4. PassedUnset'
  <2> SUFFICES ASSUME NEW k \in 1..i, Flag(k) \subseteq flags
               PROVE  Flag(k) = {}
    BY <1>1 DEF PassedUnset, Flag
  <2>1. CASE k = i
    BY <2>1 DEF IsSet
  <2>2. CASE k \in 1..i - 1
    BY <2>2 DEF Inv, PassedUnset
  <2> QED
    BY <1>1, <2>1, <2>2
<1> QED
  BY <1>1, <1>2, <1>3, <1>4 DEF Inv

\* The bits of a flag that is shown leave the word.
LEMMA ShowInv ==
  ASSUME Inv, Show
  PROVE  Inv'
<1>1. /\ flag_info \in Tables /\ Len(flag_info) \in Nat
      /\ i \in 1..Len(flag_info) /\ i' = i + 1
      /\ shown \subseteq 1..i - 1
  BY FlagType DEF Inv, TypeOK, Show, NextEntry
<1>2. /\ Flag(i) \in SUBSET Bits /\ Flag(i) \subseteq flags
      /\ flags' = flags \ Flag(i) /\ shown' = shown \cup {i}
      /\ UNCHANGED <<flag_info, rest, done, word>>
  BY <1>1, FlagType DEF Show, IsSet, Clear
<1>3. \A k : Flag(k)' = Flag(k)
  BY <1>2 DEF Flag
<1>4. TypeOK'
  BY <1>1, <1>2 DEF Inv, TypeOK, Show
<1>5. BitsOnce'
  <2>1. Named' = Named \cup Flag(i)
    BY <1>2, <1>3 DEF Named
  <2>2. Named \cup flags = word /\ Named \cap flags = {}
    BY DEF Inv, BitsOnce
  <2>3. ASSUME NEW j \in shown', NEW k \in shown', j # k
        PROVE  Flag(j) \cap Flag(k) = {}
    <3>1. CASE j \in shown /\ k \in shown
      BY <2>3, <3>1 DEF Inv, BitsOnce
    <3>2. ASSUME NEW m \in shown
          PROVE  Flag(m) \cap Flag(i) = {}
      BY <1>2, <2>2 DEF Named
    <3> QED
      BY <1>2, <2>3, <3>1, <3>2
  <2> QED
    BY <1>2, <1>3, <2>1, <2>2, <2>3 DEF BitsOnce
<1>6. PassedUnset'
  <2> SUFFICES ASSUME NEW k \in 1..i, Flag(k) \subseteq flags'
               PROVE  Flag(k) = {}
    BY <1>1, <1>3 DEF PassedUnset
  <2>1. CASE k = i
    BY <1>2, <2>1
  <2>2. CASE k \in 1..i - 1
    BY <1>2, <2>2 DEF Inv, PassedUnset
  <2> QED
    BY <1>1, <2>1, <2>2
<1>7. decodable_flags_found' /\ shown' # {}
  BY <1>2 DEF Show
<1>8. ~done'
  BY <1>1, <1>2 DEF Inv
<1> QED
  BY <1>4, <1>5, <1>6, <1>7, <1>8 DEF Inv

\* The value printed at the end is what no flag took from the word.
LEMMA FinishInv ==
  ASSUME Inv, Finish
  PROVE  Inv'
<1>1. /\ UNCHANGED <<flag_info, i, flags, decodable_flags_found, shown, word>>
      /\ i > Len(flag_info)
      /\ rest' = IF decodable_flags_found THEN flags ELSE {}
      /\ done' = TRUE
  BY DEF Finish, ShowRest
<1>2. TypeOK'
  BY <1>1 DEF Inv, TypeOK
<1>3. BitsOnce'
  BY <1>1 DEF Inv, BitsOnce, Named, Flag
<1>4. PassedUnset'
  BY <1>1 DEF Inv, PassedUnset, Flag
<1>5. /\ (decodable_flags_found <=> shown # {})'
      /\ (done => i > Len(flag_info) /\ (shown # {} => rest = flags))'
  BY <1>1 DEF Inv
<1> QED
  BY <1>2, <1>3, <1>4, <1>5 DEF Inv

\* The invariant holds in every reachable state.
LEMMA InvHolds == Spec => []Inv
<1>1. Inv /\ [Next]_vars => Inv'
  <2> SUFFICES ASSUME Inv, [Next]_vars
               PROVE  Inv'
    OBVIOUS
  <2>1. CASE Skip
    BY <2>1, SkipInv
  <2>2. CASE Show
    BY <2>2, ShowInv
  <2>3. CASE Finish
    BY <2>3, FinishInv
  <2>4. CASE UNCHANGED vars
    BY <2>4 DEF vars, Inv, TypeOK, BitsOnce, Named, Flag, PassedUnset
  <2> QED
    BY <2>1, <2>2, <2>3, <2>4 DEF Next
<1> QED
  BY <1>1, InvInit, PTL DEF Spec

(***************************************************************************)
(* panwrap_log_decoded_flags() accounts for every bit of the word exactly  *)
(* once, whatever the table: also when flags share bits, as the types of   *)
(* soft jobs would, or have none, as MALI_EXT_RES_ACCESS_SHARED.           *)
(***************************************************************************)
THEOREM EveryBitOnce == Spec => []BitsOnce
<1>1. Inv => BitsOnce
  BY DEF Inv
<1> QED
  BY <1>1, InvHolds, PTL

(***************************************************************************)
(* The line that is written tells the whole word, and leaves no flag as a  *)
(* number that the table has a name for.                                   *)
(***************************************************************************)
THEOREM WordComplete == Spec => []Complete
<1>1. Inv => Complete
  <2> SUFFICES ASSUME Inv, done
               PROVE  /\ shown # {} => Named \cup rest = word
                      /\ \A k \in 1..Len(flag_info) :
                           Flag(k) \subseteq flags => Flag(k) = {}
    BY DEF Complete
  <2>1. shown # {} => Named \cup rest = word
    BY DEF Inv, BitsOnce
  <2>2. 1..Len(flag_info) \subseteq 1..i - 1
    BY FlagType DEF Inv, TypeOK
  <2> QED
    BY <2>1, <2>2 DEF Inv, PassedUnset
<1> QED
  BY <1>1, InvHolds, PTL

-----------------------------------------------------------------------------
(* Core requirements of atoms.                                             *)

(***************************************************************************)
(* What is shown before the flags, and in place of them, leaves the word   *)
(* alone: the steps of CoreReq are those of LogFlags or change nothing of  *)
(* it, so that the theorems above hold of CoreReq.                         *)
(***************************************************************************)
THEOREM RequirementsAreFlags == ReqSpec => Spec
<1>1. ReqInit => Init
  BY DEF ReqInit
<1>2. [ReqNext]_<<vars, job_type, soft_name>> => [Next]_vars
  BY DEF ReqNext, ShowType, ShowSoft, ShowFlags
<1> QED
  BY <1>1, <1>2, PTL DEF ReqSpec, Spec

-----------------------------------------------------------------------------
(* The pointers to libc's functions, which module Prolog is about.         *)

\* dlopen() of libc gives the same answer every time.
SteadyLinker == Linkers \subseteq {"works", "fails"}

\* What is known of the handle: libc_dl, once set, stays set.
HandleKept ==
  /\ libc_dl = Handle => linker = "works"
  /\ \A t \in Threads : handle[t] \in {Null, libc_dl}
  /\ \A t \in Threads : pc[t] = "dlsym" => libc_dl = Handle

\* What a thread on its way to the call has found.
OwnFound ==
  \A t \in Threads :
    /\ pc[t] = "found" => func[t] \in {NoFunction, Libc(called[t])}
    /\ pc[t] = "assign" => func[t] = Libc(called[t])

LookupInv ==
  /\ PrologTypeOK
  /\ HandleKept
  /\ \A t \in Threads : pc[t] = "dlsym" => handle[t] = Handle
  /\ OwnFound
  /\ OwnFunction

\* The statics that hold the pointers are null or point to libc's function.
LEMMA LookupTypes ==
  ASSUME LookupInv, NEW t \in Threads
  PROVE  /\ called[t] \in Functions
         /\ orig[called[t]] \in {NoFunction, Libc(called[t])}
BY DEF LookupInv, PrologTypeOK, OwnFunction

\* A step of one thread that leaves the handles, the pointers and what it has
\* found alone.
LEMMA QuietLookup ==
  ASSUME LookupInv, NEW t \in Threads, NEW label \in Labels,
         pc' = [pc EXCEPT ![t] = label],
         label \notin {"dlsym", "found", "assign"},
         label = "call" => orig[called[t]] = Libc(called[t]),
         UNCHANGED <<linker, orig, libc_dl, called, handle, func, exited>>
  PROVE  LookupInv'
BY DEF LookupInv, PrologTypeOK, HandleKept, OwnFound, OwnFunction

\* dlopen() sets the handle it set before.
LEMMA DlopenStep ==
  ASSUME SteadyLinker, LookupInv, NEW t \in Threads, Dlopen(t)
  PROVE  LookupInv'
<1>1. /\ linker \in {"works", "fails"} /\ linker' = linker
      /\ UNCHANGED <<orig, called, func, exited>>
      /\ pc' = [pc EXCEPT ![t] = "opened"]
  BY DEF LookupInv, PrologTypeOK, SteadyLinker, Dlopen, Goto
<1>2. PICK h \in {Null, Handle} :
        /\ libc_dl' = h /\ handle' = [handle EXCEPT ![t] = h]
        /\ h = Null => linker # "works"
        /\ h = Handle => linker # "fails"
  BY <1>1 DEF Dlopen, Null, Handle
<1>3. PrologTypeOK'
  BY <1>1, <1>2 DEF LookupInv, PrologTypeOK, Labels
<1>4. libc_dl = Null \/ libc_dl' = libc_dl
  BY <1>1, <1>2 DEF LookupInv, HandleKept, PrologTypeOK
<1>5. HandleKept'
  BY <1>1, <1>2, <1>4
  DEF LookupInv, HandleKept, PrologTypeOK, Null, Handle
<1>6. /\ \A u \in Threads : pc'[u] = "dlsym" => handle'[u] = Handle
      /\ OwnFound' /\ OwnFunction'
  BY <1>1, <1>2 DEF LookupInv, PrologTypeOK, OwnFound, OwnFunction
<1> QED
  BY <1>3, <1>5, <1>6 DEF LookupInv

\* The handle is not null past the test.
LEMMA OpenedStep ==
  ASSUME LookupInv, NEW t \in Threads, Opened(t)
  PROVE  LookupInv'
<1> USE DEF Opened
<1>1. UNCHANGED <<linker, orig, libc_dl, called, func>>
  OBVIOUS
<1>2. PICK h \in {handle[t], libc_dl} :
        \/ exited' = {t} /\ UNCHANGED <<pc, handle>>
        \/ /\ h # Null /\ UNCHANGED exited
           /\ handle' = [handle EXCEPT ![t] = h]
           /\ pc' = [pc EXCEPT ![t] = "dlsym"]
  BY DEF Seen, NoLibc, Goto
<1>3. CASE exited' = {t} /\ UNCHANGED <<pc, handle>>
  BY <1>1, <1>3
  DEF LookupInv, PrologTypeOK, HandleKept, OwnFound, OwnFunction
<1>4. CASE /\ h # Null /\ UNCHANGED exited
           /\ handle' = [handle EXCEPT ![t] = h]
           /\ pc' = [pc EXCEPT ![t] = "dlsym"]
  <2>1. h = Handle /\ libc_dl = Handle
    BY <1>2, <1>4 DEF LookupInv, HandleKept, PrologTypeOK
  <2>2. PrologTypeOK'
    BY <1>1, <1>4, <2>1 DEF LookupInv, PrologTypeOK, Labels
  <2>3. HandleKept'
    BY <1>1, <1>4, <2>1 DEF LookupInv, HandleKept, PrologTypeOK
  <2>4. /\ \A u \in Threads : pc'[u] = "dlsym" => handle'[u] = Handle
        /\ OwnFound' /\ OwnFunction'
    BY <1>1, <1>4, <2>1 DEF LookupInv, PrologTypeOK, OwnFound, OwnFunction
  <2> QED
    BY <2>2, <2>3, <2>4 DEF LookupInv
<1> QED
  BY <1>2, <1>3, <1>4

\* dlsym() is asked for the function that was called, in libc.
LEMMA LookUpStep ==
  ASSUME LookupInv, NEW t \in Threads, LookUp(t)
  PROVE  LookupInv'
<1>1. /\ UNCHANGED <<linker, orig, libc_dl, called, handle, exited>>
      /\ pc[t] = "dlsym" /\ pc' = [pc EXCEPT ![t] = "found"]
  BY DEF LookUp, At, Goto
<1>2. called[t] \in Functions
  BY LookupTypes
<1>3. PICK f \in {NoFunction, Libc(called[t])} :
        func' = [func EXCEPT ![t] = f]
  <2>1. \A h \in Seen(t) : h = Handle
    BY <1>1 DEF LookupInv, HandleKept, Seen
  <2> QED
    BY <2>1 DEF LookUp, SetFunc, Dlsym, Handle, Null
<1>4. PrologTypeOK'
  BY <1>1, <1>2, <1>3 DEF LookupInv, PrologTypeOK, Labels, Pointers
<1> QED
  BY <1>1, <1>3, <1>4
  DEF LookupInv, PrologTypeOK, HandleKept, OwnFound, OwnFunction

\* The pointer that was found is stored for the function that was called.
LEMMA AssignStep ==
  ASSUME LookupInv, NEW t \in Threads, Assign(t)
  PROVE  LookupInv'
<1>1. /\ UNCHANGED <<linker, libc_dl, called, handle, func, exited>>
      /\ orig' = [orig EXCEPT ![called[t]] = func[t]]
      /\ pc[t] = "assign" /\ pc' = [pc EXCEPT ![t] = "call"]
  BY DEF Assign, At, Goto, locals
<1>2. called[t] \in Functions /\ func[t] = Libc(called[t])
  BY <1>1, LookupTypes DEF LookupInv, OwnFound
<1>3. PrologTypeOK'
  BY <1>1, <1>2 DEF LookupInv, PrologTypeOK, Labels
<1>4. HandleKept' /\ OwnFound'
      /\ \A u \in Threads : pc'[u] = "dlsym" => handle'[u] = Handle
  BY <1>1 DEF LookupInv, PrologTypeOK, HandleKept, OwnFound
<1>5. OwnFunction'
  <2>1. /\ orig \in [Functions -> Pointers] /\ called \in [Threads -> Functions]
        /\ pc \in [Threads -> Labels]
        /\ \A fn \in Functions : orig[fn] \in {NoFunction, Libc(fn)}
        /\ \A u \in Threads : pc[u] = "call" => orig[called[u]] = Libc(called[u])
    BY DEF LookupInv, PrologTypeOK, OwnFunction
  <2> QED
    BY <1>1, <1>2, <2>1 DEF OwnFunction
<1> QED
  BY <1>3, <1>4, <1>5 DEF LookupInv

(***************************************************************************)
(* However many threads make their first calls at once, each overridden    *)
(* function only ever calls the function of libc it replaces: the statics  *)
(* that PROLOG and __rd_dlsym_helper() set without a lock hold nothing     *)
(* else, when dlopen() of libc does not fail one time and work another.    *)
(***************************************************************************)
THEOREM OwnFunctionCalled ==
  ASSUME SteadyLinker
  PROVE  PrologSpec => []OwnFunction
<1>1. PrologInit => LookupInv
  <2> SUFFICES ASSUME PrologInit
               PROVE  LookupInv
    OBVIOUS
  <2>1. PrologTypeOK
    BY DEF PrologInit, PrologTypeOK, Labels, Pointers
  <2>2. HandleKept /\ OwnFound /\ OwnFunction
    BY DEF PrologInit, HandleKept, OwnFound, OwnFunction, Null, Handle
  <2> QED
    BY <2>1, <2>2 DEF LookupInv, PrologInit
<1>2. LookupInv /\ [PrologNext]_prologVars => LookupInv'
  <2> SUFFICES ASSUME LookupInv, [PrologNext]_prologVars
               PROVE  LookupInv'
    OBVIOUS
  <2>1. ASSUME NEW t \in Threads, NEW fn \in Functions, Enter(t, fn)
        PROVE  LookupInv'
    BY <2>1
    DEF Enter, At, Goto, Labels, LookupInv, PrologTypeOK, HandleKept,
        OwnFound, OwnFunction
  <2>2. ASSUME NEW t \in Threads, Check(t)
        PROVE  LookupInv'
    <3>1. PICK label \in {"helper", "call"} :
            /\ pc' = [pc EXCEPT ![t] = label]
            /\ label = "call" => orig[called[t]] = Libc(called[t])
      BY <2>2, LookupTypes DEF Check, Goto
    <3>2. UNCHANGED <<linker, orig, libc_dl, called, handle, func, exited>>
      BY <2>2 DEF Check, locals
    <3> QED
      BY <3>1, <3>2, QuietLookup DEF Labels
  <2>3. ASSUME NEW t \in Threads, Helper(t)
        PROVE  LookupInv'
    BY <2>3
    DEF Helper, At, Goto, Labels, LookupInv, PrologTypeOK, HandleKept,
        OwnFound, OwnFunction
  <2>4. ASSUME NEW t \in Threads, Found(t)
        PROVE  LookupInv'
    BY <2>4
    DEF Found, At, Goto, locals, Labels, LookupInv, PrologTypeOK,
        HandleKept, OwnFound, OwnFunction
  <2>5. ASSUME NEW t \in Threads, CallThrough(t)
        PROVE  LookupInv'
    BY <2>5
    DEF CallThrough, At, Goto, Labels, LookupInv, PrologTypeOK,
        Pointers, HandleKept, OwnFound, OwnFunction
  <2>6. CASE UNCHANGED prologVars
    BY <2>6
    DEF prologVars, locals, LookupInv, PrologTypeOK, HandleKept, OwnFound,
        OwnFunction
  <2> QED
    BY <2>1, <2>2, <2>3, <2>4, <2>5, <2>6, DlopenStep, OpenedStep, LookUpStep,
       AssignStep
    DEF PrologNext, Step
<1>3. LookupInv => OwnFunction
  BY DEF LookupInv
<1> QED
  BY <1>1, <1>2, <1>3, PTL DEF PrologSpec

-----------------------------------------------------------------------------
(* The decoding of one ioctl(), for any requests a program passes.         *)

\* The names that have a case in one of the two switches.
CaseNames == PreNames \cup PostNames

Req(n) == MALI_IOCTL[n]

\* No two requests of mali-ioctl.h have the type and the number of one that has
\* a case.
LEMMA OneRequest ==
  ASSUME NEW n \in CaseNames, NEW m \in IoctlNames,
         Req(m).type = Req(n).type, Req(m).nr = Req(n).nr
  PROVE  m = n
BY DEF CaseNames, PreNames, PostNames, IoctlNames,
       MALI_IOCTL, R, P, Req

\* A request with a case has its type and number, whatever else it has.
LEMMA CaseFields ==
  ASSUME NEW r, NEW n \in CaseNames, IoctlCase(r, n)
  PROVE  r.type = Req(n).type /\ r.nr = Req(n).nr
BY DEF IoctlCase, Req

\* The table of names has one name for a request with a case.
LEMMA InfoOfCase ==
  ASSUME NEW r, NEW n \in CaseNames, IoctlCase(r, n)
  PROVE  Info(r) = {n}
<1>1. /\ r.type = Req(n).type /\ r.nr = Req(n).nr
      /\ n \in IoctlNames
  <2>1. n \in IoctlNames
    BY DEF CaseNames, PreNames, PostNames,
           IoctlNames, MALI_IOCTL
  <2> QED
    BY <2>1, CaseFields
<1>2. \A m \in IoctlNames : Req(m).type \in Int /\ Req(m).nr \in Int
  BY DEF IoctlNames, MALI_IOCTL, R, P, Req
<1>3. \A m \in IoctlNames :
        m \in Info(r) <=>
          Req(m).type = Req(n).type /\ Req(m).nr = Req(n).nr
  BY <1>1, <1>2
  DEF Info, TypeIndex, MALI_IOCTL_TYPE_BASE, Req
<1>4. Info(r) \subseteq IoctlNames
  BY DEF Info
<1> QED
  BY <1>1, <1>3, <1>4, OneRequest

\* The cases of a set of names that the request meets.
Cases(names) == {n \in names : IoctlCase(request, n)}

\* What has been read and dumped, at each stage.
DispatchInv ==
  /\ stage \in {"app", "info", "no_args", "pre", "sys", "post", "out"}
  /\ sync \in SyncTypes
  /\ stage \in {"app", "info", "no_args", "pre"} => read = {} /\ dumped = {}
  /\ stage \in {"sys", "post"} =>
       /\ read = Cases(PreNames)
       /\ dumped = {t \in {"before"} : "SYNC" \in read /\ sync = "to_device"}
  /\ stage = "out" =>
       /\ read = Cases(CaseNames)
       /\ dumped = {t \in {"before"} : "SYNC" \in read /\ sync = "to_device"}
                     \cup {t \in {"after"} : "SYNC" \in read /\ sync = "to_cpu"}
  /\ stage \in {"pre", "sys", "post", "out"} =>
       Info(request) = {} \/ name \in Info(request)

\* The invariant holds in every reachable state.
LEMMA DispatchInvariant == DispatchSpec => []DispatchInv
<1>1. DispatchInit => DispatchInv
  BY DEF DispatchInit, DispatchInv, SyncTypes
<1>2. DispatchInv /\ [DispatchNext]_dispatchVars => DispatchInv'
  <2> SUFFICES ASSUME DispatchInv, [DispatchNext]_dispatchVars
               PROVE  DispatchInv'
    OBVIOUS
  <2>1. ASSUME NEW r \in Requests, NEW type \in SyncTypes,
               Ioctl(r, type)
        PROVE  DispatchInv'
    BY <2>1 DEF DispatchInv, Ioctl
  <2>2. CASE LogInfo
    <3>1. /\ stage = "info" /\ stage' \in {"pre", "no_args"}
          /\ UNCHANGED <<request, sync, read, dumped>>
      BY <2>2 DEF LogInfo
    <3>2. Info(request) = {} \/ name' \in Info(request)
      BY <2>2 DEF LogInfo
    <3>3. Info(request)' = Info(request)
      BY <3>1 DEF Info
    <3> QED
      BY <3>1, <3>2, <3>3 DEF DispatchInv
  <2>3. CASE NoArgs \/ Out
    BY <2>3
    DEF DispatchInv, NoArgs, Out, Return,
        SyncTypes
  <2>4. CASE Pre
    <3>1. /\ stage = "pre" /\ stage' = "sys" /\ UNCHANGED <<request, sync, name>>
          /\ read = {} /\ dumped = {}
          /\ read' = read \cup Cases(PreNames)
          /\ dumped' = IF \E n \in Cases(PreNames) :
                            DumpsBefore(n)
                       THEN dumped \cup {"before"} ELSE dumped
      BY <2>4 DEF Pre, DispatchInv, Cases
    <3>2. dumped' = {t \in {"before"} : "SYNC" \in read' /\ sync' = "to_device"}
      BY <3>1 DEF DumpsBefore
    <3>3. /\ read' = Cases(PreNames)'
          /\ Info(request)' = Info(request)
      BY <3>1 DEF Cases, Info, IoctlCase
    <3> QED
      BY <3>1, <3>2, <3>3 DEF DispatchInv
  <2>5. CASE Sys
    BY <2>5 DEF DispatchInv, Sys, Cases, Info,
                IoctlCase
  <2>6. CASE Post
    <3>1. /\ stage = "post" /\ stage' = "out" /\ UNCHANGED <<request, sync, name>>
          /\ read = Cases(PreNames)
          /\ dumped = {t \in {"before"} : "SYNC" \in read /\ sync = "to_device"}
          /\ read' = read \cup Cases(PostNames)
          /\ dumped' = IF \E n \in Cases(PostNames) :
                            DumpsAfter(n)
                       THEN dumped \cup {"after"} ELSE dumped
      BY <2>6 DEF Post, DispatchInv, Cases
    <3>2. read' = Cases(CaseNames)
      BY <3>1 DEF Cases, CaseNames
    <3>3. /\ "SYNC" \in PreNames /\ "SYNC" \in PostNames
          /\ "SYNC" \in CaseNames
      BY DEF PreNames, PostNames, CaseNames
    <3>4. /\ "SYNC" \in read <=> "SYNC" \in read'
          /\ "SYNC" \in Cases(PostNames) <=> "SYNC" \in read'
      BY <3>1, <3>2, <3>3 DEF Cases
    <3>5. dumped' = {t \in {"before"} : "SYNC" \in read' /\ sync' = "to_device"}
                      \cup {t \in {"after"} : "SYNC" \in read' /\ sync' = "to_cpu"}
      BY <3>1, <3>4 DEF DumpsAfter
    <3>6. /\ read' = Cases(CaseNames)'
          /\ Info(request)' = Info(request)
      BY <3>1, <3>2 DEF Cases, Info, IoctlCase
    <3> QED
      BY <3>1, <3>5, <3>6 DEF DispatchInv
  <2>7. CASE UNCHANGED dispatchVars
    BY <2>7 DEF DispatchInv, dispatchVars, Cases, Info,
                IoctlCase
  <2> QED
    BY <2>1, <2>2, <2>3, <2>4, <2>5, <2>6, <2>7 DEF DispatchNext
<1> QED
  BY <1>1, <1>2, PTL DEF DispatchSpec

\* What has been read are cases the request meets.
LEMMA ReadCases ==
  ASSUME DispatchInv, NEW n \in read
  PROVE  /\ n \in CaseNames /\ IoctlCase(request, n)
         /\ stage \in {"sys", "post", "out"}
BY DEF DispatchInv, Cases, CaseNames

(***************************************************************************)
(* The name logged is that of the struct that is decoded, before and after *)
(* the call: the table of names and the two switches agree on any request. *)
(***************************************************************************)
THEOREM LoggedNameIsDecoded == DispatchSpec => []NameIsDecoded
<1>1. DispatchInv => NameIsDecoded
  <2> SUFFICES ASSUME DispatchInv, NEW n \in read
               PROVE  n = name
    BY DEF NameIsDecoded
  <2>1. /\ n \in CaseNames /\ IoctlCase(request, n)
        /\ stage \in {"sys", "post", "out"}
    BY ReadCases
  <2>2. Info(request) = {n}
    BY <2>1, InfoOfCase
  <2> QED
    BY <2>1, <2>2 DEF DispatchInv
<1> QED
  BY <1>1, DispatchInvariant, PTL

(***************************************************************************)
(* The memory of a SYNC is dumped before the call when it goes to the      *)
(* device, after it when it comes back, and only then.                     *)
(***************************************************************************)
THEOREM SyncIsDumpedOnce == DispatchSpec => []SyncDumpedOnce
<1>1. DispatchInv => SyncDumpedOnce
  <2> SUFFICES ASSUME DispatchInv, stage = "out", read = {"SYNC"}
               PROVE  dumped = CASE sync = "to_device" -> {"before"}
                                 [] sync = "to_cpu" -> {"after"}
                                 [] OTHER -> {}
    BY DEF SyncDumpedOnce
  <2>1. dumped = {t \in {"before"} : sync = "to_device"}
                   \cup {t \in {"after"} : sync = "to_cpu"}
    BY DEF DispatchInv
  <2>2. CASE sync = "to_device"
    BY <2>1, <2>2
  <2>3. CASE sync = "to_cpu"
    BY <2>1, <2>3
  <2>4. CASE sync # "to_device" /\ sync # "to_cpu"
    BY <2>1, <2>4
  <2> QED
    BY <2>2, <2>3, <2>4
<1> QED
  BY <1>1, DispatchInvariant, PTL

=============================================================================
