CONSTANTS
  idle = idle
  shell = shell
  none = none
  UserSet = {u1}
  Proc <- MCProc
  Idle = idle
  Shell = shell
  NoProc = none
  Priority <- MCPriority
  BaseSlice = 2
  KbCap = 1
SPECIFICATION FairSpec
PROPERTIES LockReleased
CHECK_DEADLOCK FALSE
