--------------------------- MODULE IoctlRequests ----------------------------
(***************************************************************************)
(* The requests of include/mali-ioctl.h: _IOWR(type, nr, struct), with the *)
(* size of the struct on a 64-bit machine (checked there by                *)
(* ASSERT_SIZEOF_TYPE where it was seen in a trace).                       *)
(***************************************************************************)
EXTENDS Integers

R(type, nr, size) == [dir |-> "rw", type |-> type, nr |-> nr, size |-> size]

MALI_IOCTL_TYPE_BASE == 128

\* sizeof(__ioctl_placeholder)
P(nr) == R(130, nr, 8)

MALI_IOCTL ==
  [GET_VERSION |-> R(128, 0, 16),
   MEM_ALLOC |-> R(130, 0, 56), MEM_IMPORT |-> R(130, 1, 48),
   MEM_COMMIT |-> R(130, 2, 32), MEM_QUERY |-> R(130, 3, 32),
   MEM_FREE |-> R(130, 4, 16), MEM_FLAGS_CHANGE |-> R(130, 5, 32),
   MEM_ALIAS |-> R(130, 6, 56), SYNC |-> R(130, 8, 40),
   POST_TERM |-> P(9), HWCNT_SETUP |-> P(10), HWCNT_DUMP |-> P(11),
   HWCNT_CLEAR |-> P(12), GPU_PROPS_REG_DUMP |-> R(130, 14, 536),
   FIND_CPU_OFFSET |-> P(15), GET_VERSION_NEW |-> R(130, 16, 16),
   SET_FLAGS |-> R(130, 18, 16), SET_TEST_DATA |-> P(19),
   INJECT_ERROR |-> P(20), MODEL_CONTROL |-> P(21),
   KEEP_GPU_POWERED |-> P(22), FENCE_VALIDATE |-> P(23),
   STREAM_CREATE |-> R(130, 24, 48), GET_PROFILING_CONTROLS |-> P(25),
   SET_PROFILING_CONTROLS |-> P(26), DEBUGFS_MEM_PROFILE_ADD |-> P(27),
   JOB_SUBMIT |-> R(130, 28, 24), DISJOINT_QUERY |-> P(29),
   GET_CONTEXT_ID |-> R(130, 31, 16), TLSTREAM_ACQUIRE_V10_4 |-> P(32),
   TLSTREAM_TEST |-> P(33), TLSTREAM_STATS |-> P(34),
   TLSTREAM_FLUSH |-> P(35), HWCNT_READER_SETUP |-> P(36),
   SET_PRFCNT_VALUES |-> P(37), SOFT_EVENT_UPDATE |-> P(38),
   MEM_JIT_INIT |-> P(39), TLSTREAM_ACQUIRE |-> P(40)]

IoctlNames == DOMAIN MALI_IOCTL

=============================================================================
