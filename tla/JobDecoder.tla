----------------------------- MODULE JobDecoder -----------------------------
(***************************************************************************)
(* The decoding of JOB_SUBMIT before it goes to the kernel:                *)
(* ioctl_decode_pre_job_submit() of panwrap/panwrap-syscall.c and, for     *)
(* every atom, panwrap_trace_hw_chain() of panwrap/panwrap-decoder.c.  It  *)
(* follows pointers the traced driver left in GPU memory; each access goes *)
(* through __panwrap_deref_gpu_mem(), which aborts the program when the    *)
(* address is not tracked.  One step of the model is one access.  The      *)
(* mutex is held throughout, so the tracked mappings do not change.        *)
(*                                                                         *)
(* What is read is chosen when it is read: pointers lead to either end of  *)
(* a mapping, or nowhere; sizes are any, those near 2^64 among them.       *)
(* "valid" remembers whether the driver's structures, each as long as the  *)
(* headers say, have all been in tracked memory so far.                    *)
(***************************************************************************)
EXTENDS GpuMemory

CONSTANTS
  Layouts,     \* lists of mappings the tracker may hold
  MaxAtoms,    \* bound: atoms of a submission
  ListBytes,   \* bytes from the start of an attribute list to the end of its
               \* mapping
  Strays,      \* other addresses pointers may have
  ShaderBytes, \* bytes of the shortest shader; the headers give no length
  Indices,     \* attribute indices jobs use
  BufferSizes, Strides,   \* sizes and strides read for attribute buffers
  Cores        \* kinds of atoms: "hw" job chains, "soft" jobs

ASSUME LayoutAssumption == Layouts \subseteq Seq(Region)
ASSUME AddressAssumption == Strays \subseteq Address
ASSUME SizeAssumption ==
  /\ Indices \subseteq Nat
  /\ BufferSizes \subseteq Address /\ Strides \subseteq Address
ASSUME BoundAssumption ==
  MaxAtoms \in Nat /\ ListBytes \in Nat /\ ShaderBytes \in Nat

\* sizeof() of the structures of mali-job.h, of struct panwrap_mapped_memory,
\* and the lengths of the two dumps, on a 64-bit machine.
HeaderSize == 32
SetValueSize == 16
VertexSize == 304
ShaderMetaSize == 24
AttrSize == 24
AttrMetaSize == 8
MappedMemorySize == 48
DumpSize == 256
ShaderDump == 832

VARIABLES
  maps,    \* the tracker's list of mappings
  pc,      \* what is read next
  atoms,   \* nr_atoms
  i,       \* the atom being decoded
  core,    \* its core_req
  mem,     \* index in maps of the mapping of its job, 0 for NULL
  job,     \* the pointers of the job read so far
  p,       \* the entry of the attribute list being read
  indent,  \* panwrap_indent
  deps,    \* the pre-dependencies printed for the last atom
  valid,   \* history: the driver's structures have all been tracked
  access,  \* history: the last access
  at       \* history: where the access was refused that ended the program

vars == <<maps, pc, atoms, i, core, mem, job, p, indent, deps, valid,
          access, at>>

JobTypes == {"set_value", "vertex_tiler", "other"}

\* What the decoder reads behind the header.
PayloadSize == [set_value |-> SetValueSize, vertex_tiler |-> VertexSize,
                other |-> DumpSize]

\* What the driver has there: mali-job.h knows no payload of other jobs.
DriverSize == [PayloadSize EXCEPT !.other = 0]

\* Places of one access each.
ChainPcs == {"header", "payload", "shader", "blob", "attributes", "entry_zero",
             "entry", "attr", "buffer"}

Pcs == {"app", "submit", "kernel", "atoms", "atom_end", "aborted", "trapped"}
         \cup ChainPcs

NoJob == [va |-> 0, type |-> "other", shader |-> 0, code |-> 0,
          attribute_meta |-> 0, attributes |-> 0, index |-> 0,
          elements |-> 0, size |-> 0, stride |-> 0]

NoAccess == [index |-> 0, va |-> 0, size |-> 0, cpu |-> 0]

\* The driver's structure of that size at va is in GPU memory.
Mapped(va, size) == \E k \in DOMAIN maps : Inside(maps[k], va, size)

\* Where a structure may be: at either end of a mapping, or astray.
Spots(size) ==
  Strays \cup UNION {{maps[k].gpu_va, maps[k].gpu_va + maps[k].length - size}
                       : k \in DOMAIN maps}

\* Lists end with a zero entry, or not; then only the end of the mapping stops
\* the walk.
Lists ==
  {0} \cup Strays \cup {maps[k].gpu_va + maps[k].length - ListBytes
                       : k \in DOMAIN maps}

TypeOK ==
  /\ maps \in Layouts
  /\ pc \in Pcs
  /\ atoms \in 0..MaxAtoms /\ i \in 0..MaxAtoms
  /\ core \in Cores
  /\ mem \in 0..Len(maps)
  /\ job.type \in JobTypes
  /\ p \in Address
  /\ indent \in Nat
  /\ valid \in BOOLEAN
  /\ access.index \in 0..Len(maps)
  /\ at \in ChainPcs \cup {"nowhere"}

Init ==
  /\ maps \in Layouts
  /\ pc = "app" /\ atoms = 0 /\ i = 0 /\ core = "hw"
  /\ mem = 0 /\ job = NoJob /\ p = 0
  /\ indent = 0 /\ deps = <<>>
  /\ valid = TRUE /\ access = NoAccess /\ at = "nowhere"

-----------------------------------------------------------------------------
(* __panwrap_deref_gpu_mem(mem, va, size)                                  *)

\* The mapping looked in: the one given, or the one that contains va.
Lookup(given, va) == IF given = 0 THEN ContainingIndex(maps, va) ELSE given

Allowed(given, va, size) ==
  LET k == Lookup(given, va)
  IN k # 0 /\ ~OutOfBounds(maps[k], va, size)

\* The access is made and decoding goes on at next.
Reads(given, va, size, next) ==
  LET k == Lookup(given, va)
  IN /\ Allowed(given, va, size)
     /\ access' = [index |-> k, va |-> va, size |-> size,
                   cpu |-> CpuAddress(maps[k], va)]
     /\ pc' = next
     /\ UNCHANGED at

\* __panwrap_deref_mem_err(): the program is aborted.
Aborts(given, va, size) ==
  /\ ~Allowed(given, va, size)
  /\ pc' = "aborted" /\ at' = pc /\ indent' = 0
  /\ UNCHANGED <<maps, atoms, i, core, mem, job, p, deps, valid, access>>

-----------------------------------------------------------------------------
(* ioctl() around ioctl_decode_pre_job_submit()                            *)

Ioctl ==
  /\ pc = "app"
  /\ pc' = "submit" /\ indent' = indent + 1
  /\ UNCHANGED <<maps, atoms, i, core, mem, job, p, deps, valid, access, at>>

\* "Maybe it's a legacy job format?": nothing is decoded.
LegacySubmit ==
  /\ pc = "submit"
  /\ pc' = "kernel"
  /\ UNCHANGED <<maps, atoms, i, core, mem, job, p, indent, deps, valid,
                 access, at>>

Submit ==
  /\ pc = "submit"
  /\ atoms' \in 0..MaxAtoms
  /\ pc' = "atoms" /\ indent' = indent + 1
  /\ UNCHANGED <<maps, i, core, mem, job, p, deps, valid, access, at>>

\* The loop body up to panwrap_trace_hw_chain(), whatever the core_req is.
NextAtom ==
  /\ pc = "atoms" /\ i < atoms
  /\ core' \in Cores
  /\ \E va \in Spots(HeaderSize + VertexSize)
               \cup Spots(HeaderSize + SetValueSize) :
       /\ job' = [NoJob EXCEPT !.va = va]
       /\ valid' = (valid /\ Mapped(va, HeaderSize))
  /\ pc' = "header" /\ indent' = indent + 2
  /\ UNCHANGED <<maps, atoms, i, mem, p, deps, access, at>>

\* A mutant: the indentation of a decoded chain is not undone.
AtomOutdentForgotten == indent' = indent

AtomOutdent == indent' = indent - 2

\* A mutant: the loop does not get to the next atom.
SameAtom == i

FollowingAtom == i + 1

\* The rest of the loop body, with the dependencies it prints: pre_dep[i] for
\* each j.
AtomEnd ==
  /\ pc = "atom_end"
  /\ deps' = <<i, i>>
  /\ i' = FollowingAtom /\ pc' = "atoms"
  /\ AtomOutdent
  /\ mem' = 0 /\ p' = 0 /\ job' = NoJob /\ access' = NoAccess
  /\ UNCHANGED <<maps, atoms, core, valid, at>>

Submitted ==
  /\ pc = "atoms" /\ i = atoms
  /\ pc' = "kernel" /\ indent' = indent - 1
  /\ UNCHANGED <<maps, atoms, i, core, mem, job, p, deps, valid, access, at>>

\* The kernel call, ioctl_decode_post() and the end of ioctl().
IoctlReturns ==
  /\ pc = "kernel"
  /\ pc' = "app" /\ indent' = indent - 1
  /\ atoms' = 0 /\ i' = 0 /\ core' = "hw" /\ deps' = <<>> /\ valid' = TRUE
  /\ UNCHANGED <<maps, mem, job, p, access, at>>

-----------------------------------------------------------------------------
(* panwrap_trace_hw_chain()                                                *)

Payload == job.va + HeaderSize

Header ==
  /\ pc = "header"
  /\ LET k == ContainingIndex(maps, job.va)
     IN \/ Aborts(k, job.va, HeaderSize)
        \/ /\ Reads(k, job.va, HeaderSize, "payload")
           /\ mem' = k
           /\ \E type \in JobTypes :
                /\ job' = [job EXCEPT !.type = type]
                /\ valid' = (valid /\ Mapped(job.va,
                                             HeaderSize + DriverSize[type]))
           /\ indent' = indent + 1
           /\ UNCHANGED <<maps, atoms, i, core, p, deps>>

\* Set-value jobs, and jobs that are only dumped.
PayloadShown ==
  /\ pc = "payload" /\ job.type # "vertex_tiler"
  /\ \/ Aborts(mem, Payload, PayloadSize[job.type])
     \/ /\ Reads(mem, Payload, PayloadSize[job.type], "atom_end")
        /\ indent' = indent - 1
        /\ UNCHANGED <<maps, atoms, i, core, mem, job, p, deps, valid>>

-----------------------------------------------------------------------------
(* panwrap_decode_vertex_or_tiler_job()                                    *)

VertexTiler ==
  /\ pc = "payload" /\ job.type = "vertex_tiler"
  /\ \/ Aborts(mem, Payload, VertexSize)
     \/ /\ \E shader \in Spots(ShaderMetaSize),
              list \in Lists,
              attributes \in Spots(AttrSize) :
             /\ job' = [job EXCEPT !.shader = shader, !.attribute_meta = list,
                                   !.attributes = attributes]
             /\ valid' = /\ valid
                         /\ shader # 0 => Mapped(shader, ShaderMetaSize)
                         /\ list # 0 => Mapped(list, AttrMetaSize)
             /\ Reads(mem, Payload, VertexSize,
                      IF shader # 0 THEN "shader" ELSE "attributes")
        /\ UNCHANGED <<maps, atoms, i, core, mem, p, indent, deps>>

ShaderMeta ==
  /\ pc = "shader"
  /\ \/ Aborts(0, job.shader, ShaderMetaSize)
     \/ /\ Reads(0, job.shader, ShaderMetaSize, "blob")
        /\ \E code \in Spots(ShaderDump) \cup Spots(ShaderBytes) :
             /\ job' = [job EXCEPT !.code = code]
             /\ valid' = (valid /\ Mapped(code, ShaderBytes))
        /\ UNCHANGED <<maps, atoms, i, core, mem, p, indent, deps>>

ShaderBlob ==
  /\ pc = "blob"
  /\ \/ Aborts(0, job.code, ShaderDump)
     \/ /\ Reads(0, job.code, ShaderDump, "attributes")
        /\ UNCHANGED <<maps, atoms, i, core, mem, job, p, indent, deps,
                       valid>>

\* "if (v->attribute_meta)".  The mapping of the list is looked up once, and
\* is NULL when the list is not tracked.
Attributes ==
  /\ pc = "attributes"
  /\ \/ /\ job.attribute_meta = 0
        /\ pc' = "atom_end" /\ indent' = indent - 1
        /\ UNCHANGED <<mem, p>>
     \/ /\ job.attribute_meta # 0
        /\ mem' = ContainingIndex(maps, job.attribute_meta)
        /\ p' = job.attribute_meta
        /\ pc' = "entry_zero" /\ indent' = indent + 1
  /\ UNCHANGED <<maps, atoms, i, core, job, deps, valid, access, at>>

\* The condition of the loop: the entry at p is not zero.  A good list then has
\* another one.
EntryIsZero ==
  /\ pc = "entry_zero"
  /\ \/ Aborts(mem, p, AttrMetaSize)
     \/ /\ Reads(mem, p, AttrMetaSize, "atom_end")
        /\ indent' = indent - 2
        /\ UNCHANGED <<maps, atoms, i, core, mem, job, p, deps, valid>>
     \/ /\ Reads(mem, p, AttrMetaSize, "entry")
        /\ valid' = (valid /\ Mapped(p, 2 * AttrMetaSize))
        /\ UNCHANGED <<maps, atoms, i, core, mem, job, p, indent, deps>>

\* The size asked for is that of the mapping's struct.  A good index is that of
\* an element of the array at v->attributes.
Entry ==
  /\ pc = "entry"
  /\ \/ Aborts(mem, p, MappedMemorySize)
     \/ /\ Reads(mem, p, MappedMemorySize, "attr")
        /\ \E index \in Indices :
             /\ job' = [job EXCEPT !.index = index]
             /\ valid' = (valid /\ Mapped(job.attributes,
                                          (index + 1) * AttrSize))
        /\ indent' = indent + 1
        /\ UNCHANGED <<maps, atoms, i, core, mem, p, deps>>

-----------------------------------------------------------------------------
(* panwrap_decode_attributes()                                             *)

AttrRead == job.attributes + job.index

\* A size near 2^64 is a small one below zero.
Distance(size) == IF 2 * size < Space THEN size ELSE Space - size

\* What is read at an index other than 0 is not an element of the array but
\* bytes of two of them: no pointer of the driver.
Attr ==
  /\ pc = "attr"
  /\ \/ Aborts(0, AttrRead, AttrSize)
     \/ /\ Reads(0, AttrRead, AttrSize, "buffer")
        /\ \E size \in BufferSizes, stride \in Strides :
             \E elements \in Spots(Distance(size)) :
               /\ job' = [job EXCEPT !.elements = elements, !.size = size,
                                     !.stride = stride]
               /\ valid' = (valid /\ (job.index = 0 => Mapped(elements, size)))
        /\ UNCHANGED <<maps, atoms, i, core, mem, p, indent, deps>>

\* Every row that is shown is the first of the buffer.
RowsMapped == job.stride <= job.size => Mapped(job.elements, job.stride)

\* attr->size / attr->stride: when the stride is 0 the processor may trap, or
\* the result is 0 and nothing of the buffer is shown.  It may also trap where
\* the rows go beyond the mapping, which takes a size that wraps around.
Buffer ==
  /\ pc = "buffer"
  /\ \/ Aborts(0, job.elements, job.size)
     \/ /\ Reads(0, job.elements, job.size, "entry_zero")
        /\ p' = p + AttrMetaSize
        /\ indent' = indent - 1
        /\ job' = [job EXCEPT !.index = 0, !.elements = 0, !.size = 0,
                              !.stride = 0]
        /\ UNCHANGED <<maps, atoms, i, core, mem, deps, valid>>
     \/ /\ job.stride = 0 \/ ~RowsMapped
        /\ Reads(0, job.elements, job.size, "trapped")
        /\ UNCHANGED <<maps, atoms, i, core, mem, job, p, indent, deps,
                       valid>>

-----------------------------------------------------------------------------

Decode ==
  \/ Header \/ PayloadShown \/ VertexTiler \/ ShaderMeta \/ ShaderBlob
  \/ Attributes \/ EntryIsZero \/ Entry \/ Attr \/ Buffer

InSubmit ==
  LegacySubmit \/ Submit \/ NextAtom \/ AtomEnd \/ Submitted \/ Decode
    \/ IoctlReturns

Next == Ioctl \/ InSubmit

Spec == Init /\ [][Next]_vars

\* The thread that decodes keeps running, and the kernel call returns.
FairSpec == Spec /\ WF_vars(InSubmit)

-----------------------------------------------------------------------------
(* Properties.                                                             *)

(***************************************************************************)
(* Whatever pointers are followed, every access the decoder makes starts   *)
(* in a tracked mapping and goes to the CPU address that mapping has.  It  *)
(* lies in the mapping in full, unless it is that of a buffer whose size   *)
(* makes the sum of the bounds check wrap around.                          *)
(***************************************************************************)
ReadsInside ==
  access # NoAccess =>
    LET m == maps[access.index]
    IN /\ Inside(m, access.va, 0) /\ access.cpu = MappedAt(m, access.va)
       /\ \/ Inside(m, access.va, access.size)
          \/ access.size > ShaderDump /\ SumWraps(m, access.va, access.size)

(***************************************************************************)
(* The check is that of the whole access, "INVALID GPU MEMORY ACCESS"      *)
(* otherwise.                                                              *)
(***************************************************************************)
ReadsInFull ==
  access # NoAccess => Inside(maps[access.index], access.va, access.size)

\* The decoder was refused something the driver's structures do not have: the
\* 256 bytes it dumps of a job it does not know, the 832 it takes a shader to
\* have, the 48 it asks for to read an entry of 8; or a buffer that is none.
Overread ==
  \/ at = "payload" /\ job.type = "other" /\ ~Mapped(Payload, DumpSize)
  \/ at = "blob" /\ ~Mapped(job.code, ShaderDump)
  \/ at = "entry" /\ ~Mapped(p, MappedMemorySize)
  \/ at = "buffer" /\ job.index # 0

(***************************************************************************)
(* A job whose structures all lie in tracked memory is decoded, except     *)
(* where the decoder asks for more than the structures are: the program    *)
(* being traced is aborted for nothing else but a pointer of the driver to *)
(* memory panwrap does not know.                                           *)
(***************************************************************************)
ValidDecoded == pc = "aborted" /\ valid => Overread

(***************************************************************************)
(* The four exceptions.  A job of a type without a payload, a shader       *)
(* shorter than the dump, an entry of an attribute list and an attribute   *)
(* other than the first do not end the program.                            *)
(***************************************************************************)
OtherJobsDecoded == pc = "aborted" /\ at = "payload" => ~valid
ShadersDecoded == pc = "aborted" /\ at = "blob" => ~valid
EntriesDecoded == pc = "aborted" /\ at = "entry" => ~valid
AttributesDecoded == pc = "aborted" /\ at = "buffer" => ~valid

(***************************************************************************)
(* Decoding leaves the indentation of the log as it found it, on every     *)
(* path back to the program.                                               *)
(***************************************************************************)
IndentBalanced == pc = "app" => indent = 0

(***************************************************************************)
(* Every JOB_SUBMIT that is decoded ends: it goes on to the kernel, or the *)
(* program dies.  A list of attributes that no zero ends runs into the end *)
(* of its mapping.  The rows of one buffer are one step here: there are    *)
(* finitely many, however large the size is.                               *)
(***************************************************************************)
SubmitEnds == pc = "submit" ~> pc \in {"app", "aborted", "trapped"}

(***************************************************************************)
(* Soft jobs are not decoded as job chains: their jc is not a pointer to   *)
(* one.                                                                    *)
(***************************************************************************)
SoftJobsSkipped == core = "soft" => pc \notin ChainPcs

(***************************************************************************)
(* An attribute is read from its entry of the array at v->attributes.      *)
(***************************************************************************)
AttrIsEntry ==
  pc = "buffer" => access.va = job.attributes + job.index * AttrSize

(***************************************************************************)
(* The dependencies printed for an atom are its two pre-dependencies.      *)
(***************************************************************************)
DepsPrinted == deps # <<>> => deps = <<0, 1>>

=============================================================================
