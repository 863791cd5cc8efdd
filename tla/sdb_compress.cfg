CONSTANTS
  Procs = {w, r}
  Modifiers = {w}
  Ops = {"a", "c", "d", "f", "x"}
  MaxId = 2
  Refill = TRUE
  Inodes = {1, 2, 3}
  Faults = {"open", "read", "write", "rename"}
  MaxFaults = 1
  MaxRuns = 5
SPECIFICATION Spec
INVARIANTS Truthful NearPlace
PROPERTY CompressKeeps
CHECK_DEADLOCK FALSE
