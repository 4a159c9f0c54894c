SPECIFICATION FairSpec
CONSTANTS
    Profiles = {p1}
    NoProfile = NoProfile
    MaxRequests = 1
    MaxEvents = 1
    MaxOvertaken = 1
PROPERTIES RequestsAnswered
CHECK_DEADLOCK FALSE
