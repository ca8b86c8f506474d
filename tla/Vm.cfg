\* What is written does not matter to the properties of this run.
CONSTANTS
  Proc = {p1, p2}
  First = p1
  Unit = 2
  Top = 2
  Frames = 2
  BrkArgs = {3}
  FixedAt = {1}
  BufLen = 2
  Data = {0}
SPECIFICATION Spec
INVARIANTS NoSharedWritable MappedNotFree Protected
\* The kernel halts when it panics.
CHECK_DEADLOCK FALSE
