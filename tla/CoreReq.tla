------------------------------- MODULE CoreReq -------------------------------
(***************************************************************************)
(* What panwrap-syscall.c shows of words of flags.  Most words go straight *)
(* to panwrap_log_decoded_flags() (module LogFlags).  Of the core          *)
(* requirements of an atom, which go with the table jd_req_flag_info, the  *)
(* type is shown first, by ioctl_get_job_type_from_jd_core_req(), and then *)
(* the requirements, by ioctl_log_decoded_jd_core_req(): the name of a     *)
(* soft job, or flags.                                                     *)
(***************************************************************************)
EXTENDS LogFlags, FlagTables

VARIABLES
  job_type,   \* the type shown, "" before
  soft_name   \* the name of the soft job shown, "" when there is none

\* MALI_JD_REQ_..., by the number of the bit.
FS == 0
CS == 1
T == 2
CF == 3
V == 4
SOFT_JOB == 9
ONLY_COMPUTE == 10

\* MALI_JD_REQ_ATOM_TYPE and MALI_JD_REQ_SOFT_JOB_TYPE.
ATOM_TYPE == {FS, CS, T, CF, V, SOFT_JOB, ONLY_COMPUTE}
SOFT_JOB_TYPE == {SOFT_JOB} \cup 0..4

\* MALI_JD_REQ_SOFT_...: the bit of soft jobs and a number.
SoftBits ==
  [DUMP_CPU_GPU_TIME |-> {0}, FENCE_TRIGGER |-> {1}, FENCE_WAIT |-> {0, 1},
   REPLAY |-> {2}, EVENT_WAIT |-> {0, 2}, EVENT_SET |-> {1, 2},
   EVENT_RESET |-> {0, 1, 2}, DEBUG_COPY |-> {3}, JIT_ALLOC |-> {0, 3},
   JIT_FREE |-> {1, 3}, EXT_RES_MAP |-> {0, 1, 3}, EXT_RES_UNMAP |-> {2, 3}]

SoftNames == DOMAIN SoftBits
SoftJob(name) == {SOFT_JOB} \cup SoftBits[name]

ReqInit == Init /\ job_type = "" /\ soft_name = ""

OfAtom == flag_info = jd_req_flag_info

\* The types with names like "Fragment shader + tiler job" are "units".
JobType(req) ==
  CASE SOFT_JOB \in req -> "soft"
    [] SOFT_JOB \notin req /\ ONLY_COMPUTE \in req -> "compute"
    [] req \cap {SOFT_JOB, ONLY_COMPUTE} = {} ->
         IF req \cap {FS, CS, T} = {} THEN "dependency" ELSE "units"

ShowType ==
  /\ OfAtom /\ job_type = ""
  /\ job_type' = JobType(word)
  /\ UNCHANGED <<vars, soft_name>>

\* switch (req)
IsNamed(req, name) == req = SoftJob(name)

ShowSoft ==
  /\ OfAtom /\ job_type # "" /\ soft_name = "" /\ SOFT_JOB \in word
  /\ soft_name' \in
       IF \E name \in SoftNames : IsNamed(word, name)
       THEN {name \in SoftNames : IsNamed(word, name)} ELSE {"???"}
  /\ UNCHANGED <<vars, job_type>>

ShowFlags ==
  /\ OfAtom => job_type # "" /\ SOFT_JOB \notin word
  /\ Next
  /\ UNCHANGED <<job_type, soft_name>>

ReqNext == ShowType \/ ShowSoft \/ ShowFlags

ReqSpec == ReqInit /\ [][ReqNext]_<<vars, job_type, soft_name>>

-----------------------------------------------------------------------------
(* Properties.                                                             *)

(***************************************************************************)
(* A soft job with other requirements keeps its name: MALI_JD_REQ_SOFT_-   *)
(* JOB_TYPE is the mask of "all bits in mali_jd_core_req that control the  *)
(* type of a soft job".                                                    *)
(***************************************************************************)
SoftJobNamed ==
  soft_name # "" /\ (\E name \in SoftNames :
                       SoftJob(name) = word \cap SOFT_JOB_TYPE)
    => soft_name # "???"

(***************************************************************************)
(* An atom is shown as "Dependency only job" when it is one by the test of *)
(* MALI_JD_REQ_SOFT_JOB_OR_DEP: none of the bits of its type is set.       *)
(***************************************************************************)
DependencyOnly == job_type = "dependency" => word \cap ATOM_TYPE = {}

=============================================================================
