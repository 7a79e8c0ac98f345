SPECIFICATION HSpec
CONSTANTS
  e = e
  c1 = c1
  c2 = c2
  b1 = b1
  b2 = b2
  Engine = e
  Producers = {e}
  Consumers = {c1, c2}
  Values = {b1, b2}
  None = None
  Capacity = 2
  PosMod = 8
  WeakCasMayFail = FALSE
  SignedWraps = TRUE
  MaxBatch = 2
INVARIANTS OneToken OneConsumerDropsNothing
PROPERTIES DropsOnlyBehindStalledPop EveryCompletionEnds
