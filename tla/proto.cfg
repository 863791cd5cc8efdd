CONSTANTS
  Clients = {1, 2}
  Kinds = {"echo", "proto", "thread"}
  MaxFaults = 1
SPECIFICATION FairSpec
INVARIANTS OwnAnswer OneHandlerEach StaysUp
PROPERTY Answered
CHECK_DEADLOCK FALSE
