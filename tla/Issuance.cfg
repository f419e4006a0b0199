SPECIFICATION Spec
CONSTANTS
  NoRow = NoRow
  Blank = Blank
  None = None
  Names = {dev, cam}
  Commands = {c1, c2, c3}
  Serials = {1, 2, 3}
  Running = 3
  Faults = {"write", "kill"}
SYMMETRY Symmetry
INVARIANTS
  TypeOK
  RowIsTheCertificate
  HandedOverPairWorks
  RevokedUnderItsName
  RowWasSigned
CHECK_DEADLOCK FALSE
