SPECIFICATION Spec
CONSTANTS
  NoRow = NoRow
  Devices = {dev}
  Commands = {c1, c2, c3}
  Observations <- Sightings
  Faults = {}
SYMMETRY Symmetry
INVARIANT OverrideIsHonored
CHECK_DEADLOCK FALSE
