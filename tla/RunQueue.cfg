CONSTANTS
  idle = idle
  shell = shell
  u1 = u1
  u2 = u2
  none = none
  Proc <- MCProc
  Idle = idle
  Shell = shell
  NoProc = none
  Priority <- MCPriority
  BaseSlice = 3
SPECIFICATION FairSpec
INVARIANTS NoProcessLost RunningIsCurrent AlwaysSomeoneToRun
PROPERTIES RoundRobin
CHECK_DEADLOCK FALSE
