CONSTANTS
  N = 3
  Registers = 2
  Rounds = 2
  Programs = {"supermarket", "coordination", "rc", "demo", "parent_child"}
  MaxFaults = 1
SPECIFICATION FairSpec
INVARIANTS TypeOK NothingLost EveryRegisterOnce FinalCount
PROPERTY ProgramEnds
CHECK_DEADLOCK FALSE
