CONSTANTS
    MaxCalls = 2
    Requests <- MCRequests
SPECIFICATION Spec
INVARIANTS NothingForgotten XraySlotsAreLive ResolverHasListener
PROPERTIES CallsReturn ShutdownExits
