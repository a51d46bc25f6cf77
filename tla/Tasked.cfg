SPECIFICATION FairSpec
CONSTANTS
  Messages = {m1, m2}
  Receivers = {r1}
  Capacity = 2
  ConcurrentRequests = 1
  MaxRounds = 1
  MaxCalls = 2
  MaxStops = 1
  MaxSubmitErrors = 1
INVARIANT
  Inv
PROPERTIES
  StopEnds
  DaemonServes
CHECK_DEADLOCK FALSE
