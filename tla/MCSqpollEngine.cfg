SPECIFICATION LiveSpec
CONSTANTS
  b1 = b1
  b2 = b2
  b3 = b3
  Pools = {{b1}, {b1, b2}, {b1, b2, b3}}
  QueueCapacity = 2
  MaxBatch = 2
  Entries = {1, 4}
  OutCapacities = {2, 4}
  WakeMayFail = {TRUE, FALSE}
INVARIANTS TypeOK OnePlace IoAsRequested NoRequestLost NoCompletionDropped CqFits SleepIsSafe
PROPERTIES EveryRequestAnswered
