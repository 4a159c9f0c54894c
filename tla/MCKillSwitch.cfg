SPECIFICATION Spec
CONSTANTS
    Guards = {g1, g2, g3}
    NoGuard = NoGuard
    Configs = {c1, c2}
    NoConfig = NoConfig
    MaxEvents = 2
INVARIANTS
    ArmedIsEnforced
    NoStrayGuard
    FailsClosed
PROPERTIES
    ReplacedOnlyByReady
    ArmingSettles
    ClosedGuardLeaves
CHECK_DEADLOCK FALSE
