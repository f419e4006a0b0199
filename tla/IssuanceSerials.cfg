SPECIFICATION Spec
CONSTANTS
  NoRow = NoRow
  Blank = Blank
  None = None
  Names = {dev, cam}
  Commands = {c1, c2}
  Serials = {1, 2}
  Running = 2
  Faults = {}
SYMMETRY Symmetry
INVARIANT SerialsAreFresh
CHECK_DEADLOCK FALSE
