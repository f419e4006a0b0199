SPECIFICATION FairSpec
CONSTANTS
  Absent = Absent
  Empty = Empty
  Scripts <- InvocationNumbers
  Commands = {"setup", "fresh", "background", "foreground", "stop"}
  Running = 2
  Faults = {"kill"}
INVARIANTS
  TypeOK
  RootMatchesKey
  ServesThePresentCA
  StopReachesTheServer
  BackendIsAPair
PROPERTY
  StartedLeadsToService
CHECK_DEADLOCK FALSE
