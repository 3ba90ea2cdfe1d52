--------------------------- MODULE IoctlDispatch ----------------------------
(***************************************************************************)
(* How one ioctl() on the device is decoded (ioctl(), ioctl_decode_pre()   *)
(* and ioctl_decode_post() of panwrap/panwrap-syscall.c): its name is      *)
(* looked up in a table, and the handlers two switches choose read the     *)
(* struct of the program before and after the kernel call.  What the       *)
(* handlers print of it is left out, except for the memory they dump;      *)
(* their effects on the tracker are in module PanwrapSyscall, the decoding *)
(* of job chains is in JobDecoder.                                         *)
(***************************************************************************)
EXTENDS IoctlRequests

CONSTANT Requests   \* what programs and other driver versions pass

SyncTypes == {"to_device", "to_cpu", "other"}

VARIABLES
  stage, request,
  sync,      \* args->type of a SYNC
  name,      \* the name logged
  read,      \* history: the names of the structs handlers have read
  dumped,    \* history: when the memory of a SYNC was dumped
  indent     \* panwrap_indent

dispatchVars == <<stage, request, sync, name, read, dumped, indent>>

NoRequest == [dir |-> "none", type |-> 0, nr |-> 0, size |-> 0]

DispatchTypeOK ==
  /\ stage \in {"app", "info", "no_args", "pre", "sys", "post", "out"}
  /\ request \in Requests \cup {NoRequest}
  /\ sync \in SyncTypes
  /\ name \in IoctlNames \cup {"", "???"}
  /\ read \subseteq IoctlNames
  /\ dumped \subseteq {"before", "after"}
  /\ indent \in Nat

DispatchInit ==
  /\ stage = "app" /\ request = NoRequest /\ sync = "other" /\ name = ""
  /\ read = {} /\ dumped = {} /\ indent = 0

-----------------------------------------------------------------------------

\* IOCTL_CASE(request) == IOCTL_CASE(MALI_IOCTL_n).  _IOWR() takes the size of
\* its third argument, a number here, the same on both sides: the size of the
\* request is not compared, nor the direction.
IoctlCase(r, n) == r.type = MALI_IOCTL[n].type /\ r.nr = MALI_IOCTL[n].nr

\* The row of mali_info.info[][].
TypeIndex(r) == r.type - MALI_IOCTL_TYPE_BASE

\* A mutant: the table is indexed with the number alone.
InfoByNumber(r) == {n \in IoctlNames : MALI_IOCTL[n].nr = r.nr}

\* The entries IOCTL_INFO puts there; the rest of the table is null.
Info(r) ==
  {n \in IoctlNames : /\ TypeIndex(MALI_IOCTL[n]) = TypeIndex(r)
                      /\ MALI_IOCTL[n].nr = r.nr}

\* ioctl() of a traced descriptor, with the struct the program has set up.
Ioctl(r, type) ==
  /\ stage = "app"
  /\ request' = r /\ sync' = type
  /\ stage' = "info"
  /\ UNCHANGED <<name, read, dumped, indent>>

\* ptr is only taken from the arguments when the request has a size, and the
\* program may pass NULL.
ArgMayBe(r) == IF r.size # 0 THEN {"struct", "NULL"} ELSE {"NULL"}

LogInfo ==
  /\ stage = "info"
  /\ name' \in IF Info(request) = {} THEN {"???"} ELSE Info(request)
  /\ \E ptr \in ArgMayBe(request) :
       \/ ptr = "struct" /\ stage' = "pre" /\ indent' = indent + 1
       \/ ptr = "NULL" /\ stage' = "no_args" /\ UNCHANGED indent
  /\ UNCHANGED <<request, sync, read, dumped>>

\* The call returns to the program.
Return ==
  /\ stage' = "app" /\ request' = NoRequest /\ sync' = "other" /\ name' = ""
  /\ read' = {} /\ dumped' = {}

\* The line with the result is indented, and the indentation undone.
GotoOut == indent

\* "has no arguments? Cannot decode :("
NoArgs == stage = "no_args" /\ Return /\ indent' = GotoOut

\* The cases of the switch of ioctl_decode_pre(), and their handlers.
PreNames ==
  {"MEM_ALLOC", "MEM_IMPORT", "MEM_COMMIT", "MEM_QUERY", "MEM_FREE",
   "MEM_FLAGS_CHANGE", "MEM_ALIAS", "SYNC", "SET_FLAGS", "STREAM_CREATE",
   "JOB_SUBMIT"}

\* A mutant: memory is dumped before the call whichever way it is synced.
DumpsBeforeAny(n) == n = "SYNC" /\ sync # "other"

\* The end of ioctl_decode_pre_sync().
DumpsBefore(n) == n = "SYNC" /\ sync = "to_device"

Pre ==
  /\ stage = "pre"
  /\ LET cases == {n \in PreNames : IoctlCase(request, n)}
     IN /\ read' = read \cup cases
        /\ dumped' = IF \E n \in cases : DumpsBefore(n)
                     THEN dumped \cup {"before"} ELSE dumped
  /\ stage' = "sys"
  /\ UNCHANGED <<request, sync, name, indent>>

\* orig_ioctl(): the kernel leaves the [in] fields of the struct alone.
Sys ==
  /\ stage = "sys" /\ stage' = "post"
  /\ UNCHANGED <<request, sync, name, read, dumped, indent>>

\* The cases of the switch of ioctl_decode_post(), and their handlers.
PostNames ==
  {"GET_VERSION", "GET_VERSION_NEW", "MEM_ALLOC", "MEM_IMPORT", "MEM_COMMIT",
   "MEM_QUERY", "MEM_ALIAS", "SYNC", "GPU_PROPS_REG_DUMP", "STREAM_CREATE",
   "GET_CONTEXT_ID"}

\* ioctl_decode_post_sync() returns early for the other types.
DumpsAfter(n) == n = "SYNC" /\ sync = "to_cpu"

Post ==
  /\ stage = "post"
  /\ LET cases == {n \in PostNames : IoctlCase(request, n)}
     IN /\ read' = read \cup cases
        /\ dumped' = IF \E n \in cases : DumpsAfter(n)
                     THEN dumped \cup {"after"} ELSE dumped
  /\ stage' = "out"
  /\ indent' = indent - 1
  /\ UNCHANGED <<request, sync, name>>

Out == stage = "out" /\ Return /\ UNCHANGED indent

DispatchNext ==
  \/ \E r \in Requests, type \in SyncTypes : Ioctl(r, type)
  \/ LogInfo \/ NoArgs \/ Pre \/ Sys \/ Post \/ Out

DispatchSpec == DispatchInit /\ [][DispatchNext]_dispatchVars

-----------------------------------------------------------------------------
(* Properties.                                                             *)

(***************************************************************************)
(* IOCTL_CASE names _IOC_SIZE(request): the struct a handler reads has the *)
(* size the request says.                                                  *)
(***************************************************************************)
StructFits == \A n \in read : MALI_IOCTL[n].size = request.size

(***************************************************************************)
(* The table of names and the two switches agree: the call is logged under *)
(* the name of the struct that is decoded, before and after, also when it  *)
(* has the size or the direction of another version of the driver.         *)
(***************************************************************************)
NameIsDecoded == read # {} => read = {name}

(***************************************************************************)
(* The memory of a SYNC is dumped once, when it holds what is being        *)
(* synced: before the call on its way to the device, after the call on its *)
(* way back.                                                               *)
(***************************************************************************)
SyncDumpedOnce ==
  stage = "out" /\ read = {"SYNC"} =>
    dumped = CASE sync = "to_device" -> {"before"}
               [] sync = "to_cpu" -> {"after"}
               [] OTHER -> {}

=============================================================================
