CONSTANTS
  CmdMax = 2
  ArgvMax = 3
  ExeMax = 3
  Versions = {"P3"}
  FirstLines <- RedirectThenShow
  LaterLines <- RedirectThenShow
  MaxLines = 2
  Faults = FALSE
SPECIFICATION Spec
INVARIANT RedirectionsOfTheLine
CHECK_DEADLOCK FALSE
