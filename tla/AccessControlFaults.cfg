SPECIFICATION FairSpec
CONSTANTS
  NoRow = NoRow
  Blank = Blank
  s1 = s1
  s2 = s2
  dev = dev
  Serials = {s1}
  Names = {dev}
  Requests = {r1}
  Commands = {c1, c2}
  CommonNameOf <- LoneCommonNameOf
  ExpiresAt <- LoneExpiresAt
  WarnWindow = 1
  Horizon = 1
  Faults = {"read", "write"}
INVARIANTS
  RevokedStaysOut
  AcknowledgedIsLogged
PROPERTY
  Answered
CHECK_DEADLOCK FALSE
