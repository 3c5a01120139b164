SPECIFICATION MCSpec
CONSTANTS
  MaxLba = 8
  Wanted = {0, 1, 2, 7, 8}
  Capacity = 3
  ReadAhead = 2
  HasStreamBuf = TRUE
  PartialReads = FALSE
  SectorSize = 4
  LastLba = 8
  StreamMin = 2
  MaxOffset = 37
  MaxWant = 21
CHECK_DEADLOCK FALSE
INVARIANTS
  LinksConsistent
  PointerStable
  BytesExact
  ResultExact
PROPERTIES
  SpoilsOnlyVictim
  ImplementsLru
  Terminates
