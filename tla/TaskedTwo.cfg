SPECIFICATION Spec
CONSTANTS
  Messages = {m1, m2, m3}
  Receivers = {r1, r2}
  Capacity = 2
  ConcurrentRequests = 1
  MaxRounds = 0
  MaxCalls = 1
  MaxStops = 0
  MaxSubmitErrors = 0
SYMMETRY Symmetry
INVARIANTS
  ServedOnReturn
  NothingLost
CHECK_DEADLOCK FALSE
