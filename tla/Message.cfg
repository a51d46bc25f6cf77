SPECIFICATION FairSpec
CONSTANTS
  MessageLength = 3
  PutLength = 1
  ChunkSize = 2
  FailuresMax = 1
  ConnectionFailuresMax = 0
  Capacities = {0, 4, 6}
  SupportsResigning = TRUE
  Answers <- MCAnswers
  MaxBusy = 1
  Modulus = 65536
  Garbage = {0, 9}
INVARIANTS
  AttemptsSound
  WireIsPrefix
  BufferSound
  HandedOnWhole
PROPERTY
  Ends
CHECK_DEADLOCK FALSE
