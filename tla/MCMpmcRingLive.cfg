SPECIFICATION LiveSpec
CONSTANTS
  p1 = p1
  p2 = p2
  c1 = c1
  v1 = v1
  Producers = {p1, p2}
  Consumers = {c1, p1}
  Values = {v1}
  None = None
  Capacity = 2
  PosMod = 8
  WeakCasMayFail = FALSE
  SignedWraps = TRUE
PROPERTIES ImplementsBoundedFifo Delivered RetriesOnlyUnderContention
