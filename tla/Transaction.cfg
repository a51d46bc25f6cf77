SPECIFICATION FairSpec
CONSTANTS
  N = 2
  ObjectSize = 3
  SplitSize = 2
  Width = 4
  Receivers = {r1, r2}
  Capacity = 4
  MaxFailures = 1
INVARIANTS
  Inv
  FinalIsRight
  ToldOnceAndTruly
  StoredWhole
PROPERTIES
  NothingForgotten
  EveryUploadTold
  SyncReturns
CHECK_DEADLOCK FALSE
