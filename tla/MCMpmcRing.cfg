SPECIFICATION Spec
CONSTANTS
  p1 = p1
  p2 = p2
  c1 = c1
  c2 = c2
  v1 = v1
  v2 = v2
  Producers = {p1, p2}
  Consumers = {c1, c2}
  Values = {v1, v2}
  None = None
  Capacity = 2
  PosMod = 8
  WeakCasMayFail = TRUE
  SignedWraps = FALSE
SYMMETRY Symmetry
INVARIANTS TypeOK NoDataRace SlotOwnership
PROPERTIES ImplementsBoundedFifo
