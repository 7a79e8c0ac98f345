SPECIFICATION LiveSpec
CONSTANTS
  v1 = v1
  v2 = v2
  Values = {v1, v2}
  None = None
  Capacity = 4
  CounterMod = 8
INVARIANTS TypeOK CursorsInOrder NoDataRace
PROPERTIES ImplementsBoundedFifo Delivered
