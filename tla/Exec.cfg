CONSTANTS
  Cases <- MCCases
  PAGE_SIZE = 16
  WORD = 1
  Entries = 2
  UserEntries = 1
  Touched = {3, 6}
  PIE_BASE = 16
  USER_STACK_TOP = 128
  USER_STACK_SIZE = 64
  Committed = 3
  KernelStack = 4
  PathMax = 3
  StringMax = 4
  ArgsMax = 3
SPECIFICATION SpacesSpec
INVARIANTS ImageLoaded StackReads TablesAccounted
PROPERTY FlatView
\* exec and Process::new_user end.
CHECK_DEADLOCK FALSE
