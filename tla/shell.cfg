CONSTANTS
  CmdMax = 2
  ArgvMax = 3
  ExeMax = 3
  Versions = {"P1", "P2", "P3"}
  FirstLines <- Firsts
  LaterLines <- Laters
  MaxLines = 2
  Faults = TRUE
SPECIFICATION Spec
INVARIANTS TypeOK ArgumentsArrive RedirectedArrive CrashAfterFullLine
PROPERTY AppendKeeps
CHECK_DEADLOCK FALSE
