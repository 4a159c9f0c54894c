CONSTANTS
    MaxCalls = 3
    Requests <- MCRequests
SPECIFICATION Spec
PROPERTY StopEndsSession
