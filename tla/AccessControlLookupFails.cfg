SPECIFICATION Spec
CONSTANTS
  NoRow = NoRow
  Blank = Blank
  s1 = s1
  s2 = s2
  dev = dev
  Serials = {s1}
  Names = {dev}
  Requests = {r1}
  Commands = {c1, c2}
  CommonNameOf <- LoneCommonNameOf
  ExpiresAt <- LoneExpiresAt
  WarnWindow = 1
  Horizon = 0
  Faults = {"read"}
INVARIANT BlacklistedStaysOut
CHECK_DEADLOCK FALSE
