CONSTANTS
  Calls = {1, 2}
  CmdMax = 3
  Pipelines <- SeveralPipelines
  Modes = {"rsh_x", "rsh", "dsh", "fork_pipe", "fork_pipeline"}
  Output = 2
  Cap = 1
  MaxFaults = 1
SPECIFICATION FairSpec
INVARIANTS TypeOK AllShown OnlyStrangersBlock
PROPERTIES EndsAlone OrphansEnd
CHECK_DEADLOCK FALSE
