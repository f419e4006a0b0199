SPECIFICATION Spec
CONSTANTS
  MacsOnWire <- SampleMacs
  PortsOnHost <- SamplePorts
INVARIANTS
  ScoreOK
  StatusIsVerdict
PROPERTY
  OpeningNeverHelps
