SPECIFICATION Spec
CONSTANTS
  NoRow = NoRow
  Devices = {dev}
  Commands = {c1}
  Observations <- Sightings
  Faults = {"write"}
SYMMETRY Symmetry
INVARIANT ForceNeverSilent
CHECK_DEADLOCK FALSE
