SPECIFICATION Spec
CONSTANTS
  num_threads = 1
  Modes = {"baseline"}
  Entries = 2
  Faults = {{"wait"}}
  MaxOps = 2
INVARIANTS NeverTwoOutstanding
\* The program may end.
CHECK_DEADLOCK FALSE
