CONSTANTS
  MaxOrder = 1
  Bytes <- MCBytes
  Class = {4, 8}
  Header = 3
  Memory <- MCMemory
  Layouts <- MCLayouts
SPECIFICATION Spec
INVARIANTS LiveDisjoint Aligned SlabsConsistent NoPageLeaked NoIdleSlab
