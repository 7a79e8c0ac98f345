SPECIFICATION Spec
CONSTANTS
  num_threads = 2
  Modes = {"baseline", "attach"}
  Entries = 2
  Faults = {{}, {"wait"}, {"wake"}}
  MaxOps = 3
INVARIANTS SingleOutstanding SleepIsSafe RingsOutliveWorkers
PROPERTIES Terminates
\* A worker whose wake-up failed waits for ever, and main with it.
CHECK_DEADLOCK FALSE
