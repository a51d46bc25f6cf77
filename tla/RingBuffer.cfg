SPECIFICATION ObserveSpec
CONSTANTS
  a = a
  b = b
  Threads = {t1, t2}
  Values = {a, b}
  NoValue = NoValue
  Batches <- MCBatches
  Size = 2
  MaxInserts = 3
INVARIANTS
  NoSlotRace
  Invariant
  NonEmptyAnswerIsTrue
PROPERTIES
  ImplementsQueue
  CallsReturn
CHECK_DEADLOCK FALSE
