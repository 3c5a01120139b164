SPECIFICATION Spec
CONSTANTS
  Null = Null
  Discs = {d1, d2}
  SectorSize = 2
  Limit = 4
  Files <- MCFiles
  PfSectors = 3
  MaxTransfer = 2
  DmaSectors = 2
  CacheSlots = 2
  StreamMin = 2
  ProbeSector = 1
  Drives <- MCDrives
  Faults <- MCFaults
  Lengths = {1, 3, 6}
  Offsets = {1, 2}
  MaxMounts = 2
SYMMETRY Swap
INVARIANTS
  ReadExact
  RequestOwned
  CacheHoldsDisc
CHECK_DEADLOCK FALSE
