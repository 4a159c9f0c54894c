SPECIFICATION AuthSpec
CONSTANTS
  vpn = vpn
  chain = chain
  Profiles = {vpn, chain}
  NoProfile = NoProfile
  Vpns = {vpn}
  Otp = {vpn}
  Uses <- MCUses
  MaxRestarts = 2
  MaxPrompts = 1
  MaxRejects = 1
INVARIANTS RecoveryIsBounded
PROPERTY FailureIsSeen
