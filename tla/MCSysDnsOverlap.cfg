CONSTANTS
    Services = {wifi, ethernet}
    None = None
    Procs = {p1, p2}
    Overlap = TRUE
SPECIFICATION Spec
SYMMETRY Symmetry
CHECK_DEADLOCK FALSE
INVARIANT DeadRecoverable
