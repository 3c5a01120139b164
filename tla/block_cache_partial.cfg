SPECIFICATION Spec
CONSTANTS
  MaxLba = 8
  Wanted = {0, 1, 2, 7, 8}
  Capacity = 3
  ReadAhead = 2
  HasStreamBuf = TRUE
  PartialReads = TRUE
INVARIANTS
  PointerStable
