SPECIFICATION Spec
CONSTANTS
  b1 = b1
  b2 = b2
  b3 = b3
  Pools = {{b1, b2, b3}}
  QueueCapacity = 4
  MaxBatch = 4
  Entries = {2}
  OutCapacities = {4}
  WakeMayFail = {FALSE}
SYMMETRY Symmetry
INVARIANTS FullQueueLosesNothing
