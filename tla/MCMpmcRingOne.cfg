SPECIFICATION Spec
CONSTANTS
  p1 = p1
  c1 = c1
  v1 = v1
  Producers = {p1}
  Consumers = {c1}
  Values = {v1}
  None = None
  Capacity = 1
  PosMod = 8
  WeakCasMayFail = FALSE
  SignedWraps = TRUE
INVARIANTS NeverOverfull
