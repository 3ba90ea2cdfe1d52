CONSTANT Requests <- TracedRequests
SPECIFICATION DispatchSpec
INVARIANT StructFits
