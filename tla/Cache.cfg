SPECIFICATION Spec
CONSTANTS
  Hosts = {1, 2}
  Endpoints <- MCEndpoints
  LowPorts = {80}
  Addresses = {"a", "b"}
  Descriptors = {3, 4}
  DefaultPriority = 1
  Bonuses = {0}
  Limits = {1, 2}
  Garbage <- MCGarbage
  MaxTimestamp = 3
  MaxEntries = 2
INVARIANTS
  Inv
  OwnedOnce

  
CHECK_DEADLOCK FALSE
