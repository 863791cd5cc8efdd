CONSTANTS
  Clients = {c1, c2}
  Threaded = FALSE
  Lines = {"ls", "cat", "nosuch2", "nosuchls", "sleep", "stop-server"}
  Splits <- SomeSplits
  MaxLines = 2
  MaxFaults = 0
  Interrupts = TRUE
SPECIFICATION FairSpec
INVARIANTS WaitIsAnswered StopStops
PROPERTY SessionEnds
CHECK_DEADLOCK FALSE
