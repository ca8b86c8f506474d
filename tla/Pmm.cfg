CONSTANTS
  MaxOrder = 2
  Bytes <- MCBytes
  MemMap <- MCMemMap
  LowLimit = 4
SPECIFICATION Spec
INVARIANTS NoOverlap Accounted NoFragmentedFailure
PROPERTY Refinement
