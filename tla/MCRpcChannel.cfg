SPECIFICATION Spec
CONSTANTS
    Calls = {r1, r2}
    NCores = 2
    NoCall = NoCall
INVARIANTS
    SlotsMatch
    TimedOutIsUnanswered
    FramesAligned
    ClientNeverStuck
PROPERTIES
    ImplementsRemoteCall
SYMMETRY CallSymmetry
