------------------------------ MODULE MCFlags -------------------------------
(***************************************************************************)
(* CoreReq, with LogFlags in it, for TLC: the tables of the code, one with *)
(* flags of several bits, words of few bits, and the words of soft jobs.   *)
(***************************************************************************)
EXTENDS CoreReq

SourceTables ==
  {mem_flag_info, jd_req_flag_info, external_resources_access_flag_info,
   mali_jd_dep_type_flag_info, mmap_flags_flag_info, mmap_prot_flag_info}

\* Flags that share bits, and one of several bits.
Overlapping ==
  {<<[name |-> "RW", flag |-> {0, 1}], [name |-> "R", flag |-> {0}],
     [name |-> "W", flag |-> {1}], [name |-> "WX", flag |-> {1, 2}]>>}

AllTables == SourceTables \cup Overlapping

\* Bit 5 is not in the table of memory flags, bit 9 not in that of
\* requirements, and bit 2 not in that of mmap() flags.
WordBits == 0..18 \cup {26}

FewBits == {{a, b, c} : a, b, c \in WordBits} \cup {{}, WordBits}

\* Each soft job alone and with one other requirement.
SoftWords == {SoftJob(name) \cup {b} : name \in SoftNames, b \in WordBits}

MCWords == FewBits \cup SoftWords

=============================================================================
