SPECIFICATION Spec
CONSTANTS
  MaxIno = 3
  MaxDepth = 2
  MaxMounts = 2
  MaxCwd = 2
  Paths <- MCPaths
  Targets <- MCTargets
  MountPoints <- MCMountPoints
  Contents <- MCContents
  Volumes = {10}
  FatName = "a"
INVARIANTS Tree LongestMount
PROPERTIES WriteReads RemovesOne
\* An operation that fails is not a step: it may be that every one fails.
CHECK_DEADLOCK FALSE
