SPECIFICATION Spec
CONSTANTS
    Profiles = {p1}
    NoProfile = NoProfile
    kGiveUpAfter = 2
    MaxGen = 4
    MaxTasks = 1
    MaxEvents = 1
PROPERTIES
    Settles
CHECK_DEADLOCK FALSE
