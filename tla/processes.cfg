CONSTANTS
  Programs = {"fork_basic", "fork_exec", "fork_exec_pc", "ps_basic", "ps_zombie", "fake_root", "userns_child", "ignore", "custom", "disturb", "logic"}
  ChildPid = 4711
  Garbage = {0, 1792}
  Rounds = 2
  MaxInts = 5
  MaxFaults = 1
SPECIFICATION Spec
INVARIANTS StatusIsTheChilds NoneOutlives IdentityShown Undisturbed
CHECK_DEADLOCK FALSE
