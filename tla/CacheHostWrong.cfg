SPECIFICATION Spec
CONSTANTS
  Hosts = {1, 2}
  Endpoints <- MCEndpoints
  LowPorts = {80}
  Addresses = {"a", "b"}
  Descriptors = {3, 4}
  DefaultPriority = 2
  Bonuses = {0}
  Limits = {1, 2}
  Garbage <- MCGarbage
  MaxTimestamp = 3
  MaxEntries = 2
PROPERTIES
  ServesHost
CHECK_DEADLOCK FALSE
