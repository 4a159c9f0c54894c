SPECIFICATION Spec
CONSTANTS
    Calls = {r1}
    NCores = 2
    NoCall = NoCall
INVARIANTS
    DroppedMeansGone
