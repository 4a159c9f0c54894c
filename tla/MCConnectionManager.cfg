SPECIFICATION Spec
CONSTANTS
    Profiles = {p1, p2}
    NoProfile = NoProfile
    MaxRequests = 2
    MaxEvents = 1
    MaxOvertaken = 0
SYMMETRY ProfileSymmetry
INVARIANTS OnceEach CoreOwesAnswer StartsOnCleanCore
CHECK_DEADLOCK FALSE
