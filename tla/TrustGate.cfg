SPECIFICATION Spec
CONSTANTS
  NoRow = NoRow
  Devices = {dev}
  Commands = {c1, c2, c3}
  Observations <- Sightings
  Faults = {"read", "write", "kill"}
SYMMETRY Symmetry
INVARIANTS
  TypeOK
  StatusIsExplained
  ApprovalIsOnRecord
  CountIsBacked
PROPERTY
  FirstSeenIsKept
CHECK_DEADLOCK FALSE
