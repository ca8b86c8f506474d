CONSTANTS
  idle = idle
  shell = shell
  none = none
  UserSet = {u1, u2, u3}
  Proc <- MCProc
  Idle = idle
  Shell = shell
  NoProc = none
  Priority <- MCPriority
  BaseSlice = 3
  KbCap = 2
SPECIFICATION Spec
INVARIANTS NoLostWakeup ContextOwned RunsCurrent
PROPERTIES Refinement
CHECK_DEADLOCK FALSE
