# A formal model of panwrap

`panwrap` is a library that is preloaded into a program that uses ARM's closed
Mali driver. It overrides `open`, `close`, `ioctl`, `mmap` and `munmap` of
libc, passes every call on to the kernel, and logs what the driver says to
`/dev/mali0` and what is in the GPU memory it passes. A library of this kind
has to be invisible: it must not deadlock, misroute or kill the program it
watches, and what it logs must be what happened. This directory holds TLA+
modules that model it, TLC configurations that check them, and proofs checked
by TLAPS.

Paths below are relative to `src/`. File names are shortened: *syscall* is
`panwrap/panwrap-syscall.c`, *mmap* is `panwrap/panwrap-mmap.c`, *util* is
`panwrap/panwrap-util.c`, *decoder* is `panwrap/panwrap-decoder.c`.

## 1. Inventory

| Component | State | Operations | Correct when |
|---|---|---|---|
| Overridden functions (*syscall* 784-997) | the mutex `l`, `mali_fd`; locals of each call | `open`, `open64`, `close`, `ioctl`, `mmap`, `mmap64`, `munmap` | only calls on the device are traced and all of them are; no thread waits for a mutex it holds; the mutex is given back |
| Memory tracker (*mmap* 26-174) | lists `allocations`, `mmaps` | track an allocation, a mapping; find; untrack (in `munmap`) | the lists agree with what the kernel gave the process, across reuse of addresses, descriptors and cookies |
| Linked lists (`include/list.h`) | `next`, `prev` of every entry | `list_init`, `list_add`, `list_del`, `list_for_each_entry` | rings stay rings; nothing leaks or dangles; loops end |
| GPU memory access (`panwrap/panwrap-mmap.h` 64-83, *mmap* 164-174, 219-250) | none (reads the tracker) | find the mapping, check bounds, convert the address, or abort | accesses stay inside tracked memory, and those of the driver's structures are not refused |
| Job decoder (*syscall* 407-492, *decoder*) | the pointers followed so far, `panwrap_indent` | decode a submission, an atom, a job, its shader, attribute list and buffers | follows the driver's structures as the headers lay them out, ends, and undoes its indentation |
| ioctl decoding (*syscall* 35-107, 494-534, 744-782, 858-922) | the request, `panwrap_indent` | name, handler before and after the call | handlers read the struct that was named, at the right time |
| Core requirements (*syscall* 192-256) | none | type of an atom, name of a soft job | names agree with the masks of `mali-ioctl.h` |
| Flags (*util* 37-67, tables of *syscall* 113-168 and *mmap* 30-52) | the word, what was shown | show a word by a table | each bit is shown once, none is lost |
| Time (*util* 173-288, the freezes of *syscall*) | `start_time`, `time_is_frozen`, `total_time_frozen`, ... | freeze, unfreeze, take a timestamp | the log's clock leaves panwrap's own time out |
| Hex dumps (*util* 69-145) | loop variables | trim zeros, show rows | the buffer can be read back from the dump |
| Symbol lookup (`panwrap.h` 33-36, *util* 151-171) | a static pointer per function, the handle of libc | look up on first use, without the mutex | every call reaches the function of libc it replaces, also when first calls race |
| Start-up (*util* 336-372) | the settings, the log stream | read the environment | set before the first line is logged |
| `pandev` client (`src/`) | none | open the device, print its version | – |

How they interact: a thread of the program calls an overridden function; the
function decides, *before* taking the mutex, whether the call is about the
device; under the mutex it freezes the clock, decodes the arguments (reading
GPU memory through the tracker), unfreezes the clock for the kernel call,
freezes it again, decodes the results (which feeds the tracker), unfreezes and
unlocks. Everything but the first decision is serialised by the mutex.

What is hard: the unlocked decisions on `mali_fd`, descriptors the kernel
reuses, and libraries that call back into `close()` while panwrap holds its
mutex; signal handlers that interrupt a thread that holds it; first calls that
race for the pointers to libc; the tracker, a mirror of kernel state kept from
what passes by, with failed calls, reuse of addresses, SAME_VA cookies and
ranges that are unmapped in part or replaced; the decoder, which reads
memory through pointers somebody else left there; and unsigned, inclusive and
off-by-one arithmetic nearly everywhere. Nothing is persistent and nothing is
sent over a network, so there is no recovery and no message loss to model. The
repository has no tests; the hazards are listed, with the properties aimed at
them, in `PROJECT.json`.

## 2. The modules

| Module | What it models |
|---|---|
| `PanwrapSyscall` | the overridden functions, for any number of threads |
| `PanwrapSignals` | `PanwrapSyscall` in a program with signal handlers |
| `Prolog` | the pointers to the functions of libc, set on first use |
| `PanwrapMmap` | the tracker, its lists as sequences, newest entry first: the abstract specification of `PanwrapList` |
| `MaliKernel` | the kernel as the wrappers see it (external) |
| `PanwrapList` | `list.h` pointer by pointer under the tracker's functions; implements `PanwrapMmap` |
| `GpuMemory` | lookup, bounds check and address conversion of GPU memory |
| `MappedRanges` | the tracked ranges beside the kernel's pages; extends `GpuMemory` |
| `JobDecoder` | JOB_SUBMIT decoding over `GpuMemory` |
| `IoctlRequests`, `IoctlDispatch` | the table of requests; naming and handlers of one `ioctl()` |
| `LogFlags`, `FlagTables` | `panwrap_log_decoded_flags()` and the tables it is called with |
| `CoreReq` | its callers: types of atoms and names of soft jobs before the flags; extends `LogFlags` |
| `Timespec`, `Stopwatch`, `PanwrapTime` | timespec arithmetic; the abstract clock; freezing and timestamps |
| `HexDump` | trimming and rows of a dump |
| `MC*` | instances for TLC |
| `ListLemmas` | lemmas about sequences: `Cons`, `RemoveAt`, the first position |
| `PanwrapSyscallProofs` | theorems about `PanwrapSyscall`, `PanwrapSignals` and `PanwrapMmap` |
| `PanwrapUtilProofs` | theorems about `LogFlags`, `CoreReq`, `Prolog` and `IoctlDispatch` |
| `PanwrapListProofs`, `MappedRangesProofs`, `JobDecoderProofs`, `PanwrapTimeProofs`, `HexDumpProofs` | theorems about the module of that name; `JobDecoderProofs` has those about `GpuMemory` |

### PanwrapSyscall, PanwrapMmap, MaliKernel

Each thread has a program counter `pc[t]`, `"app"` outside panwrap. There is
one step for every unlocked read of `mali_fd` (`Close` and `CloseCheck`,
`Mmap` and `MmapCheck`, `Ioctl`), for every acquisition of the mutex (`Lock`),
for every kernel call (`OpenSys`, `CloseSys`, `IoctlSys`, `IoctlPass`,
`MmapSys`, `MmapPass`, `MunmapSys`) and for every rest of a locked section
(`OpenRecord`, `CloseForget`, `IoctlPost`, `MmapTrack`, `MunmapUntrack`).
`LibOpen` and `LibClose` are what system libraries do while panwrap calls
them: they open a file without passing through `open()`, and close it through
`close()`, which is what the comment at *syscall* 842 is about. C's data race
on `mali_fd`, an `int`, is modelled as the read of an old or a new value.

The traced program uses the kernel correctly: it names descriptors,
allocations and mappings it has been given and does not close, free or unmap
what another thread of it is using. The kernel hands out any free descriptor,
cookie, GPU address and CPU address, so numbers are reused at once; a SAME_VA
allocation is known by its cookie until it is mapped and by its CPU address
from then on; `open()`, MEM_ALLOC and, where `MmapMayFail` says so, `mmap()` of
the device may fail. Ordinary GPU addresses, cookies and CPU addresses are
numbers of three kinds (`HandleAssumption`): the driver gives them out from
zones of its own, a SAME_VA zone (`include/mali-ioctl.h` 71) among them, and
`panwrap_track_mmap()` tells allocations apart by nothing else. Unmapping always succeeds and unmaps a whole mapping here;
`MappedRanges` has the rest. Lengths, protections and log output are left out.

`PanwrapSignals` adds no state. A signal handler is one more thread that has a
host: while the handler is in a call the host stands still, wherever it is, also
inside a locked section. A handler calls what `Entries` allows, for files that
are not the device. Every behaviour of `SignalSpec` is one of `PanwrapSyscall`, so
its theorems hold with handlers as well. What is new is that a handler may wait
for a mutex its host holds, and that is for ever.

### Prolog

One step per access to the two kinds of statics: the pointer of each overridden
function (`orig`), tested, assigned and called through by the wrapper, and the
handle `libc_dl` in `__rd_dlsym_helper()`, tested, assigned, tested again and
used. Where C names `libc_dl` again after a test, the build may read memory
again or use a register; `Seen` allows both. `dlsym()` with a null handle
searches the whole process, where panwrap's own function comes first. The
dynamic linker and libc are external, and taken not to call back into panwrap.

### MappedRanges

The kernel is a function from pages to the mapping each belongs to; a tracked
mapping keeps the address and the length of its `mmap()`, which need not be a
whole number of pages. `munmap()` and MAP_FIXED take any range of pages. `odd`
is a history variable: the pages of every mapping from which a call took
something else than the whole mapping and nothing else. About those panwrap can
be wrong, since it removes the one entry that starts at the address; the
properties say that it is never wrong about another one. A call is one step,
because kernel call and tracker are under the mutex; memory is SAME_VA, and the
lookups, the bounds check and the addresses are those of `GpuMemory`.

### PanwrapList

`link.next` and `link.prev` are functions over list heads and malloc'd
structs; `list_add` and `list_del` change them in the order of the code. A search takes
one step per iteration. `order` is a history variable: the entries of each
list as a sequence. The refinement mapping turns it into the sequences of
`PanwrapMmap`, and `WellLinked` says that the pointers agree with it.

### GpuMemory, JobDecoder

Addresses are numbers modulo `Space`; the sizes of structures are those of the
headers on a 64-bit machine. One step is one access through
`__panwrap_deref_gpu_mem()`, or the abort it ends in. What is read is chosen
when it is read: pointers to either end of a tracked mapping, 0, and an
address where there is nothing; sizes of attribute buffers are any, those near
the end of the address space among them. `valid` is a history variable that
tells an abort that was the driver's fault from one that is panwrap's: it says
whether the structures the driver's pointers led to so far have all been in
tracked memory, each as long as the headers say. A job of a type that
`include/mali-job.h` knows no payload of has only its header, a shader is
`ShaderBytes` long, the array of attributes reaches up to the element an entry
names, and what is read for an element at the wrong place is no pointer of the
driver. `at` remembers where the access was refused that ended the program.
In four places the decoder asks for more than the driver's structures have
(`Overread`): the 256 bytes it dumps of an unknown job, the 832 it takes a
shader to have, the 48 it checks for a list entry of 8, and the buffer of an
attribute it read at an index in bytes. There a valid job can be refused, and
section 4 has a counterexample for each; `ValidDecoded` says that it can nowhere
else. The stride of an attribute buffer may be 0: the division is undefined, so
the program may be killed (`trapped`) or go on. With a size near 2^64 the rows
shown reach beyond the mapping; reading there may kill it as well.

### IoctlDispatch, LogFlags, CoreReq, HexDump, PanwrapTime

A request is a record of direction, type, number and size. The table of
`mali_info` is indexed with type and number, and the two switches compare the
same two fields: the third argument `IOCTL_CASE` gives to `_IOWR` is a number,
`_IOWR` takes its `sizeof`, and so the size of the request is not compared
(*syscall* 35). A word of flags is the set of its bits; the steps of `LogFlags` are those of
`CoreReq`, after the type of an atom and in place of the name of a soft job. A byte of a dump is a
member of a small set; `size_t` and `off_t` wrap around at `SizeMod`.
`PanwrapTime` has one program counter, since all of it happens under the
mutex; `Tick` lets a nanosecond pass in any place, and `spent` charges it to
the part of the program the mutex holder is in.

## 3. What TLC checks

Runs that pass:

| Run | Properties | Instance |
|---|---|---|
| `fds` | `TypeOK`, `MaliFdLive`, `TracedIsDevice`, `NoSelfDeadlock`, `ForgetOnlyOwn`, `OneDeviceTraced`, `LockReleased`, the invariant `FdInv` | 3 threads, 2 descriptors, 2 devices |
| `signals` | `HandlerNotStuck`, `HandlerReturns` | 2 threads and a handler on one of them, otherwise as `fds` |
| `memory` | `PendingTracked`, `NoLostMapping`, `NoStaleMapping`, `LookupCurrent` | 2 threads, one ordinary address, one cookie, 2 CPU addresses, 3 entries |
| `ranges` | `StaleOnlyOdd`, `LostOnlyOdd`, `LiveReadable`, `ReadsMapped` | 4 pages of 2 bytes, 3 entries, every length and range, one odd call |
| `prolog` | `OwnFunction`, `CallsServed` | 3 threads, 3 functions of which libc lacks one |
| `list` | `WellLinked`, `HeapOnLists`, `CursorOnList`, refinement `TrackerSpec`, `LoopsEnd` | 3 structs on two lists |
| `jobs` | `ReadsInside`, `ValidDecoded`, `IndentBalanced`, `SubmitEnds` | 2 atoms, indices 0 and 1, buffers of 0, 32 and 2^20 - 8 bytes in a space of 2^20, shaders of 16, no or two SAME_VA mappings |
| `ioctl` | `NameIsDecoded`, `SyncDumpedOnce` | every request of the header, both directions, 4 other sizes |
| `flags` | `BitsOnce`, `Complete` | the 6 tables and one that overlaps, words of up to 3 of 20 bits, soft jobs with one more bit, the full word |
| `time` | `TypeOK`, `OverheadRemoved`, refinement `WatchSpec` | seconds of 3 ns, 8 ns |
| `hexdump` | `BufferShown`, `RowsWhole` | buffers of up to 7 bytes, rows of 3 |

Every module states its type invariant: `TypeOK`, with a prefix where several
modules are used together (`TrackerTypeOK`, `DispatchTypeOK`, `PrologTypeOK`).
Those of `fds` and `time` are
theorems, so the runs check them as well; in the other runs it holds too, as
adding it to the list of the configuration shows, and says less than the
properties that are there.
`OneDeviceTraced` has its assumption inside: it
speaks of the behaviours in which at most one device is open at a time.

Why the bounds suffice. Two threads race for one descriptor and a third holds
the mutex or reuses the number; a fourth would repeat one of their roles. Two
CPU addresses let a mapping be unmapped and its address be reused while
another exists, and three entries let a pending entry, a stale entry and a
current one of the same address coexist. Three structs make lists with a first,
a middle and a last entry, or two lists that are not empty. Two mappings, two
atoms and both ends of each mapping make every comparison of the bounds check
come out both ways, a job that starts in one mapping and points into the
other, and a second atom that finds what the first left behind. A size 8 below
the end of the space makes the sum of the check wrap around from 8 bytes into
a mapping on, and not before; a shader of 16 bytes at the end of a mapping is
shorter than its dump. Four pages
hold a mapping with neighbours on both sides, a range that spans two mappings,
and a part at either end or in the middle of one; the only odd call of a
behaviour may come first, last or in between, and more of them would only make
more pages odd. Three first calls can be one behind the other at every
access, two of them to the same function. A dump of
seven bytes has two full rows and one with a rest, or ends at a row.

`CHECK_DEADLOCK FALSE` is set where the system stops only: a function that is
called once has returned (`flags`, `hexdump`), the program was aborted or
trapped (`jobs`), or the process has ended (`prolog`).

Symmetry over threads and CPU addresses is used in `memory`, which checks no
liveness; both are only compared in the model.

Fairness. `LockReleased` assumes weak fairness of the steps made inside locked
sections: a thread keeps running there and the kernel call it makes returns.
Nothing is assumed of threads that wait, since a pthread mutex promises no
order. In `signals` the fairness of a thread with a handler is strong: it gets
on between two signals, however many come; a handler's own steps have weak
fairness, and it never needs the mutex. `CallsServed` assumes that each thread
keeps running; no step there waits for another thread. `LoopsEnd` and `SubmitEnds` assume that the thread in the loop keeps
running (and, for `SubmitEnds`, that the kernel call returns), and nothing
else; the loops end by what is in memory. The rows of one attribute buffer are a
single step, so that what `SubmitEnds` says of a size near 2^64 is that it ends,
not that it does so soon.

## 4. Where code and documentation disagree

One run ends in a counterexample; `PROJECT.json` quotes the line of the comment
that says otherwise.

| Run | Property | What happens |
|---|---|---|
| `stdin` | `OnlyDeviceDecoded` | every `ioctl()` on descriptor 0 is decoded as one of the device |

More disagreements came up while modelling. They are no runs of
`PROJECT.json`; each has a configuration, and `tlc -config <file> <module>`
shows the counterexample. TLC stops at the first property it finds violated:
where a configuration lists several, take out those seen already.

| Configuration | Property | What happens | Against |
|---|---|---|---|
| `MCJobsAdjacent` | `ValidDecoded` | *mmap* 169: the inclusive end of a mapping hides the one that starts there; the program is aborted | *mmap* 227, "INVALID GPU MEMORY ACCESS", of an access that is valid |
| `MCSyscallPending` | `PendingTracked` | *syscall* 938: a failed `mmap()` of the device uses up the pending allocation; the mapping that succeeds afterwards is "Untracked gpu memory" | *mmap* 74, "Find the pending unmapped allocation" |
| `MCSyscallPending` | `EntriesPending` | *syscall* 320: an allocation that is freed before it is mapped stays on the list | *mmap* 74, "Find the pending unmapped allocation" |
| `MCSignalsOpen` | `HandlerNotStuck` | *syscall* 800, 974: `open()` and `munmap()` take the mutex for every call; a handler that calls them waits for the thread below it | *syscall* 842, "prevents us from trying to hold the global mutex in calls from system libraries" |
| `MCPrologFlaky` | `OwnFunction` | *util* 158: a `dlopen()` that fails after another thread's has worked puts NULL back, and a function calls itself | *util* 152, "the system's libc instead of our preloaded one" |
| `MCTimeOpen` | `OverheadHidden` | *syscall* 847: `open()` and `close()` log without freezing the clock | *util* 215, "our timestamps never reflect the amount of time an application spent in panwrap's code" |
| `MCJobsOrdinary` | `ReadsInside` | `panwrap-mmap.h` 75: memory that is not SAME_VA is read at a wrong address | *mmap* 108, "GPU VA ... mapped to" |
| `MCJobsDoc` | `SoftJobsSkipped` | *syscall* 438: soft jobs are decoded as job chains | `include/mali-ioctl.h` 294, the `jc` of a soft job is an ID |
| `MCJobsDoc` | `AttrIsEntry` | *decoder* 137: the attribute index counts bytes instead of entries | `include/mali-job.h` 108, "struct attribute_buffer[]" |
| `MCJobsDoc` | `DepsPrinted` | *syscall* 470: `pre_dep[i]` is printed in a loop over `j` | `include/mali-ioctl.h` 704 |
| `MCJobsDoc` | `EntriesDecoded` | *decoder* 129: list entries of 8 bytes are checked with the 48 of another struct; the program is aborted | the assertion of `include/mali-job.h` 93 |
| `MCJobsDoc` | `ShadersDecoded` | *decoder* 117: 832 bytes of a shader are dumped, whatever its length; the program is aborted when it ends near the end of its mapping | *mmap* 227, of memory that is valid |
| `MCJobsDoc` | `OtherJobsDecoded` | *decoder* 201: 256 bytes are dumped behind the header of a null, fragment or other job; the same | *mmap* 227 |
| `MCJobsDoc` | `AttributesDecoded` | *decoder* 137, 61: what is read at an index in bytes is followed as a pointer; the same | *mmap* 227 |
| `MCJobsDoc` | `ReadsInFull` | `panwrap-mmap.h` 72: a size near 2^64 makes the sum wrap around, and the access passes | *mmap* 227, which that access is not told |
| `MCIoctlDoc` | `StructFits` | *syscall* 35: the size of a request is not compared, and a handler reads a struct longer or shorter than the one passed | `_IOC_SIZE(request)` in the same macro |
| `MCFlagsDoc` | `OnlySetNamed` | *util* 46: the flag of value 0 is shown in every word | `include/mali-ioctl.h` 674 |
| `MCFlagsDoc` | `SoftJobNamed` | *syscall* 237: a soft job with another requirement is shown as "???" | `include/mali-ioctl.h` 400 |
| `MCFlagsDoc` | `DependencyOnly` | *syscall* 204: atoms with only V or CF are shown as dependencies | `include/mali-ioctl.h` 391 |
| `MCHexDumpEmpty` | `EmptyTrimmed` | *util* 136: a buffer of zeros is not trimmed | *util* 114 |

The passing run `jobs` keeps away from two of these by its constants: its
mappings are apart and SAME_VA. The theorem `ValidJobsDecoded` assumes no more.
The other disagreements about jobs happen in that run as well; `ReadsInside` and
`ValidDecoded` name them as the exceptions they are.

## 5. What is proved

The theorems hold for all values of the constants that satisfy the assumptions
named in the modules (`ThreadAssumption`, `FdAssumption`, `HandleAssumption`,
`SpaceAssumption`, ...). TLC evaluates these on the runs. Every safety property
a passing run checks is the statement of a theorem; the inductive invariants
below were checked by TLC on the instance of the run before they were proved.

### The overridden functions (`PanwrapSyscallProofs`)

* **The mutex and the descriptors.** `Typing`: `TypeOK`.
  `DescriptorInvariant`: `FdInv` is inductive. `MaliFdLive` alone is not: a
  `close()` that is about to
  call the kernel must not hold the traced descriptor. So `FdInv` adds who
  holds the mutex (`LockInv`), that the descriptor of a call in progress is
  open and used by nobody who closes it (`CallInv`, `CloserAlone`), that what
  the kernel is about to close has been forgotten (`ForgottenFirst`), and that a
  decision made before the mutex still holds after it (`ChosenIsDevice`).
  From it follow `TracedDeviceIsOpen`, `OnlyDevicesTraced`,
  `NeverSelfDeadlocked` and the action property `OwnDeviceForgotten`. This is
  the argument that the "intentionally racy" test of `close()` is safe, for
  any number of threads, descriptors and devices.
* **Signal handlers.** `HandlersKeptOut`: a handler that calls `close()`,
  `ioctl()` and `mmap()` on files other than the device never comes to the
  mutex. The steps of `SignalSpec` are steps of `PanwrapSyscall`, so `FdInv`
  holds; added to it is `HandlerInv`, that the handler's file is not the device
  and stays open (`CloserAlone`), so that the tests made without the mutex come
  out right (`MaliFdLive`). It is assumed that handlers do not call `open()` or
  `munmap()` and that descriptor 0 is not in `Fd`: `ioctl()` lets 0 through, and
  `mmap()` may take it for the device when `mali_fd` is cleared between its two
  reads.
* **The one device is traced.** `OneDeviceIsTraced`. To `FdInv` it adds that an
  open device is the traced one unless an `open()` has yet to record it or a
  `close()` has already forgotten it (`Recorded`), and that nobody uses the
  descriptor of an `open()` that has not returned (`OpenerAlone`).
* **The tracker and the kernel.** `MemoryInvariant`, and from it
  `PendingIsTracked`, `MappingsAreFound`, `EntriesAreMappings` and
  `LookupsAreCurrent`. The four properties speak of moments when no call is on
  its way, so they are not inductive: between a kernel call and the locked
  section that records it, lists and kernel differ. `MemoryInv` says by how
  much: each entry, pending allocation and mapping is either on both sides or is
  that of one thread in `Recording` (`PendingKept`, `EntriesCurrent`,
  `MappingsKept`, `ToRecord`, `ToForget`). `NewestFirst` is what makes lookups
  by GPU address right: in front of the entry of a live mapping there is no
  other of the same GPU address but those of the same allocation. `TracedCalls`
  says that the calls that change memory have come to the locked sections, which
  is where `OneDeviceIsTraced` is needed.

  The theorems assume what the code needs, and nothing else: that at most one
  device is open at a time, since panwrap traces one; that the kernel refuses no
  mapping of GPU memory (`MmapMayFail = FALSE`; `MCSyscallPending` shows what
  happens otherwise); and that 0 is not a descriptor of the device (run
  `stdin`).
* **The tracker alone.** `TrackerTyping` only says that every operation keeps the
  types of the lists.

### The linked lists (`PanwrapListProofs`)

`ListsWellLinked`, `NothingLeaks`, `SearchesAreSound` and the refinement
`ListsImplementTracker`, for lists of any length. `WellLinked` is inductive only
with `HeapOnLists`: that no struct is on a list twice, or on both, is what makes
`list_del` leave the other ring alone. `CursorOnList` is added because the loops
run step by step: the entry a loop ends at, and then unlinks or returns, is still
on the list; and `ArgInv` says that what a function was called with is what its specification may
be called with. A step of a loop is a stutter of `PanwrapMmap`, the step that
ends it is the operation: the entry the loop stops at is the first that matches,
which is what the lookup of `PanwrapMmap` returns.

### The tracked ranges (`MappedRangesProofs`)

`EntriesAreThere`, `NoneForgotten`, `LiveMappingsReadable` and `OnlyMappedRead`,
for any page size, number of pages and entries, and any number of odd calls. The
invariant adds that a page belongs to a mapping made for it (`VmaMade`), that a
mapping with a page no odd call touched is whole (`VmaWhole`), and that the
entries of such mappings overlap no newer entry (`NewestFirst`); the last is why
the lookup, which takes the newest, finds the right one.

### The decoder (`JobDecoderProofs`)

* `ReadsAlwaysInside`: whatever pointers and sizes the decoder follows (`Strays`
  and `BufferSizes` may be the whole address space), an access that passes the
  check starts in one mapping of SAME_VA memory and goes to its CPU address. It
  ends there too, unless its size makes the sum of the check wrap around, which
  takes an attribute buffer: no structure or dump is long enough. The
  assumption `SameVaLayouts` says that the mappings have the same address for
  the CPU and the GPU and that none is nearly as long as the address space.
  `OrdinaryAddressWrong`: for all other memory the address is
  wrong (unless the two addresses are half the address space apart).
* `ValidJobsDecoded`: the program is aborted only where a structure of the driver
  is not in tracked memory, or at one of the four places of `Overread` when what
  the decoder asks for in excess is not. The invariant (`GoodAt`) says, for each
  place, which structure is known to be mapped and whether the decoder has its
  mapping at hand. It assumes, beside `SameVaLayouts`, that mappings do not touch
  (`ApartLayouts`); `MCJobsAdjacent` shows why.
* `IndentationBalanced`: the indentation is a function of the place in the code.

### The log (`PanwrapTimeProofs`, `PanwrapUtilProofs`, `HexDumpProofs`)

* Addition and subtraction of timespecs are exact and
  stay normalised; the invariant says that the time frozen in total is what was
  charged to decoding, up to the freeze in progress. `DecodingNotCounted` and
  the refinement `LogClockIsStopwatch` follow, for seconds of any length.
* `EveryBitOnce` and `WordComplete`, for any tables of flags; the
  invariant relates the bits that are left to those of the flags shown.
  `RequirementsAreFlags` shows that `CoreReq` implements `LogFlags`, so that
  both hold of the requirements of an atom.
* `TrimmingLosesNothing` and `NoRowIsPartial`, for buffers and rows of any size.
  The invariants say that what was scanned is zero, that what was shown is a
  prefix, and how many characters the rows hold; the padding makes the last one
  whole, and there is none after a buffer that ends with a row.

### The symbol lookup (`PanwrapUtilProofs`)

`OwnFunctionCalled`, for any number of threads and functions. `OwnFunction`
speaks of the pointers; the invariant adds what the threads that are still
looking have in hand (`OwnFound`) and that the handle of libc, once it is set, is
only set to itself (`HandleKept`). That is where `SteadyLinker` comes in: a
`dlopen()` that fails for one thread after it worked for another breaks it
(`MCPrologFlaky`).

### The decoding of a request (`PanwrapUtilProofs`)

`LoggedNameIsDecoded` and `SyncIsDumpedOnce`, for any set of requests, of any
size and direction. The invariant says that what has been read is exactly the cases
of the two switches that the request meets; `OneRequest`, that no two requests
of the header with a case share type and number, is why the table has one name
for it.

### Only model-checked

Liveness (`LockReleased`, `HandlerReturns`, `CallsServed`, `LoopsEnd`,
`SubmitEnds`): TLAPS does not reach it under fairness, no more than `ENABLED` or
induction over data. No module uses a RECURSIVE operator: lookups are written
with `SelectInSeq`, loops as steps.

## 6. What is not modelled

* `panwrap_log()` beyond its timestamp, wording and layout, the names of job
  types, GL modes, priorities and coherency modes, and the GPU properties: pure
  output.
* Start-up but for the clock: the environment variables and the log file are
  read once, before the program starts. A constructor of another library that
  opens a file of `/dev` before `panwrap_util_init()` has run would log to a null
  stream; that is the order of the dynamic linker, not of this code.
* `fork()`: the child has the mutex as it was, and nobody to give it back when
  another thread held it. The model has one process.
* Memory that is not SAME_VA in `MappedRanges`: it is read at a wrong address
  anyway (section 5, `OrdinaryAddressWrong`).
* External resources of atoms: they are read from memory of the program, without
  a check and only to be printed, and the headers leave their layout open.
* The 32-bit build (`PAD_PTR`, `mmap` through `mmap64`).
* The `pandev` client, which shares nothing with panwrap.
* Functions without a caller: `panwrap_track_munmap()`,
  `panwrap_assert_gpu_same()`, `panwrap_assert_gpu_mem_zero()`,
  `panwrap_find_mapped_mem_containing()`, `panwrap_trace_atom()`,
  `panwrap_download_mem()`.

## 7. Plan

The order is that of importance: the mutex and the descriptor first, since a
mistake there stops or misleads the program; then the tracker; then the decoder,
which can abort it; then what only affects the log.

Done: all modules, runs and theorems above.

Next, the model: composition of `IoctlDispatch` with `PanwrapTime`, so that
indentation and clock are on the same paths.

Next, the proofs:
1. The type invariants of `JobDecoder`, `MappedRanges`, `HexDump` and
   `IoctlDispatch`, which the proofs use in part.
2. The whole of `SignalSpec`: that the theorems about memory hold with
   handlers, as those about descriptors do.
3. `ValidDecoded` for adjacent mappings, should the test of *mmap* 169 be made
   exclusive; and `HandlersKeptOut` for handlers that call `munmap()`, should it
   get a test before the mutex.
