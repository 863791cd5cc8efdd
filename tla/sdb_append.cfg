CONSTANTS
  Procs = {w, r}
  Modifiers = {w}
  Ops = {"a", "c", "d", "f", "z"}
  MaxId = 3
  Refill = FALSE
  Inodes = {1}
  Faults = {"open", "read", "write"}
  MaxFaults = 1
  MaxRuns = 4
SPECIFICATION FairSpec
INVARIANTS TypeOK InPlace
PROPERTY ImplementsTable
CHECK_DEADLOCK FALSE
