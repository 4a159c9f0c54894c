CONSTANTS
    MaxCalls = 2
    Requests <- MCRequests
SPECIFICATION Spec
INVARIANT ResolverNeverStale
