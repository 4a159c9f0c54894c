SPECIFICATION Spec
CONSTANTS
  Profiles = {p1, p2}
  NoProfile = NoProfile
  StrikesToSuppress = 2
  BootsToStayUp = 2
INVARIANTS
  NoCrashLoop
  StrikesAreEarned
  GiveUpsAreBounded
  ExitIsRecorded
SYMMETRY ProfileSymmetry
