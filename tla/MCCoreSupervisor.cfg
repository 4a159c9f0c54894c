SPECIFICATION Spec
CONSTANTS
    Profiles = {p1}
    NoProfile = NoProfile
    kGiveUpAfter = 2
    MaxGen = 3
    MaxTasks = 2
    MaxEvents = 2
INVARIANTS
    CoreIsTracked
    CountedOncePerCore
    StopCancelsResume
CHECK_DEADLOCK FALSE
