SPECIFICATION Spec
CONSTANTS
  p1 = p1
  p2 = p2
  e1 = e1
  e2 = e2
  e3 = e3
  Pools = {p1, p2}
  Engines = {e1, e2, e3}
  None = None
  Counts = {0, 2, 3}
  Sizes = {1, 2, 4}
  PageSize = 2
  HeapPages = 4
  SizeMod = 8
  MaxInFlight = 1
SYMMETRY Symmetry
INVARIANTS TransfersIntoLockedMemory BuffersDisjoint OnlyReserveLeaks OnePollerPerFamily
