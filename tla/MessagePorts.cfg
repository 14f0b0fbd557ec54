SPECIFICATION Spec
CONSTANTS
  Objects = {p1, p2, p3}
  Channels = {c1, c2}
  MaxQueue = 1
  MaxBatch = 1
  MaxCalls = 1
SYMMETRY Symmetry
INVARIANTS HandleHasOneOwner KeptWhileStarted NoNullConnector EventsOfPort
CHECK_DEADLOCK FALSE
