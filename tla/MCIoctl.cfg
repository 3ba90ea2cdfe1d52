CONSTANT Requests <- TracedRequests
SPECIFICATION DispatchSpec
INVARIANTS
  NameIsDecoded
  SyncDumpedOnce
