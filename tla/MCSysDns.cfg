CONSTANTS
    Services = {wifi, ethernet, thunderbolt}
    None = None
    Procs = {p1, p2, p3}
    Overlap = FALSE
SPECIFICATION Spec
INVARIANTS Recoverable
PROPERTY PointsOnlyInSession
SYMMETRY Symmetry
CHECK_DEADLOCK FALSE
