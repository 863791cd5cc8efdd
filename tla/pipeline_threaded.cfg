CONSTANTS
  Calls = {1, 2}
  CmdMax = 2
  Pipelines <- ListAndFilter
  Modes = {"rsh_x"}
  Output = 1
  Cap = 1
  MaxFaults = 0
SPECIFICATION FairSpec
PROPERTY PipelineEnds
CHECK_DEADLOCK FALSE
