SPECIFICATION Spec
CONSTANTS
    Conns = {c1, c2}
    Instances = {i1, i2, i3}
    None = None
    gateStartAttempts = 2
INVARIANTS
    NoOrphanInstance
    HandedInstanceStays
    FailureIsShared
PROPERTIES
    ClosedGateDrains
    UnusedIsSwept
CHECK_DEADLOCK FALSE
