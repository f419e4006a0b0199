SPECIFICATION Spec
CONSTANTS
  NoRow = NoRow
  Blank = Blank
  s1 = s1
  s2 = s2
  dev = dev
  Serials = {s1, s2}
  Names = {dev}
  Requests = {r1}
  Commands = {c1, c2, c3}
  CommonNameOf <- FleetCommonNameOf
  ExpiresAt <- FleetExpiresAt
  WarnWindow = 1
  Horizon = 2
  Faults = {}
SYMMETRY Symmetry
INVARIANTS
  TypeOK
  KnownAllowedAtSomeInstant
  DeniedAtSomeInstant
  BlacklistedStaysOut
  AttemptIsLogged
  ClosingIsFlagged
PROPERTIES
  RevocationIsFinal
  ImplementsPolicy
CHECK_DEADLOCK FALSE
