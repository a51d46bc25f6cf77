SPECIFICATION HTTPSFairSpec
CONSTANTS
  MessageLength = 2
  PutLength = 1
  ChunkSize = 2
  FailuresMax = 0
  ConnectionFailuresMax = 0
  Capacities = {0, 4}
  SupportsResigning = FALSE
  Answers <- MCAnswers
  MaxBusy = 1
  Modulus = 65536
  Garbage = {0, 9}
  Addresses = {1, 3}
  CacheSize = 2
  RecordSize = 2
  MaxSendErrors = 1
  Reuses = {TRUE, FALSE}
  MaxMessages = 2
INVARIANTS
  StreamsInOrder
  KeptIsFresh
  AlwaysUnderWay
  SessionsCounted

  
CHECK_DEADLOCK FALSE
