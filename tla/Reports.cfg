SPECIFICATION Spec
CONSTANTS
  Commands = {c1, c2}
  Names = {dev}
  Offsets <- Zones
  Validities = {2}
  WarnWindow = 1
  Limit = 1
  Horizon = 3
  Faults = {"write", "kill"}
SYMMETRY Symmetry
INVARIANTS
  TypeOK
  OpenedMeansMigrated
  OpenSucceeds
  ExportedIsNewest
  RecentAreNewest
  ExpiringAgreesWithWarnings
CHECK_DEADLOCK FALSE
