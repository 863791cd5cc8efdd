CONSTANTS
  Clients = {c1, c2}
  Threaded = TRUE
  Lines = {"ls", "false", "blank", "toolong", "exit"}
  Splits <- NoSplits
  MaxLines = 2
  MaxFaults = 1
  Interrupts = TRUE
SPECIFICATION FairSpec
INVARIANTS TypeOK InStep StepInv
PROPERTIES ServerStaysUp ImplementsService
CHECK_DEADLOCK FALSE
