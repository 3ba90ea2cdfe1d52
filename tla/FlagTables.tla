----------------------------- MODULE FlagTables -----------------------------
(***************************************************************************)
(* The tables of flags of panwrap/panwrap-syscall.c with the values        *)
(* include/mali-ioctl.h gives them, by the numbers of their bits, and      *)
(* those of panwrap/panwrap-mmap.c with the values of Linux.               *)
(***************************************************************************)
EXTENDS Integers

LOCAL F(name, bit) == [name |-> name, flag |-> {bit}]

mem_flag_info ==
  << F("PROT_CPU_RD", 0), F("PROT_CPU_WR", 1), F("PROT_GPU_RD", 2),
     F("PROT_GPU_WR", 3), F("PROT_GPU_EX", 4), F("GROW_ON_GPF", 9),
     F("COHERENT_SYSTEM", 10), F("COHERENT_LOCAL", 11), F("CACHED_CPU", 12),
     F("SAME_VA", 13), F("NEED_MMAP", 14), F("COHERENT_SYSTEM_REQUIRED", 15),
     F("SECURE", 16), F("DONT_NEED", 17), F("IMPORT_SHARED", 18) >>

jd_req_flag_info ==
  << F("FS", 0), F("CS", 1), F("T", 2), F("CF", 3), F("V", 4),
     F("FS_AFBC", 13), F("EVENT_COALESCE", 5), F("COHERENT_GROUP", 6),
     F("PERMON", 7), F("EXTERNAL_RESOURCES", 8), F("ONLY_COMPUTE", 10),
     F("SPECIFIC_COHERENT_GROUP", 11), F("EVENT_ONLY_ON_FAILURE", 12),
     F("EVENT_NEVER", 14), F("SKIP_CACHE_START", 15),
     F("SKIP_CACHE_END", 16) >>

external_resources_access_flag_info ==
  << [name |-> "MALI_EXT_RES_ACCESS_SHARED", flag |-> {}],
     F("MALI_EXT_RES_ACCESS_EXCLUSIVE", 0) >>

mali_jd_dep_type_flag_info ==
  << F("MALI_JD_DEP_TYPE_DATA", 0), F("MALI_JD_DEP_TYPE_ORDER", 1) >>

mmap_flags_flag_info ==
  << F("MAP_SHARED", 0), F("MAP_PRIVATE", 1), F("MAP_ANONYMOUS", 5),
     F("MAP_DENYWRITE", 11), F("MAP_FIXED", 4), F("MAP_GROWSDOWN", 8),
     F("MAP_HUGETLB", 18), F("MAP_LOCKED", 13), F("MAP_NONBLOCK", 16),
     F("MAP_NORESERVE", 14), F("MAP_POPULATE", 15), F("MAP_STACK", 17),
     F("MAP_UNINITIALIZED", 26) >>

mmap_prot_flag_info ==
  << F("PROT_EXEC", 2), F("PROT_READ", 0), F("PROT_WRITE", 1) >>

=============================================================================
