SPECIFICATION Spec
CONSTANTS
  Disks <- MCDisks
  SECTOR = 2
  ENTRY = 1
  MaxCluster = 3
  Limit = 2
  MaxSize = 6
  MaxLen = 5
  PerSector = 1
  Chunks = {"x", "y"}
INVARIANTS ReadExact ChainBounded NamesRight
