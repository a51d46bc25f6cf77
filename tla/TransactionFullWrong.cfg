SPECIFICATION Spec
CONSTANTS
  N = 2
  ObjectSize = 3
  SplitSize = 2
  Width = 4
  Receivers = {r1}
  Capacity = 3
  MaxFailures = 1
INVARIANT
  RollbackOnlyClaimed
CHECK_DEADLOCK FALSE
