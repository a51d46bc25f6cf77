SPECIFICATION FairSpec
CONSTANTS
  Threads = {t1, t2}
  Instances = {zonal, key}
  Amazon = {zonal}
  Explicit = {key}
  Zonal = {zonal}
  NoOne = NoOne
  Lifetimes = {4}
  MaxTime = 4
  MaxRefusals = 2
INVARIANTS
  VerifiedIsValid
  Inv
PROPERTIES
  ReplacedWhenDue
  VerifyReturns
CHECK_DEADLOCK FALSE
