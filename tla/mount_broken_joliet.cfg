SPECIFICATION Spec
CONSTANTS
  Null = Null
  Table <- FourBackends
  Discs <- BrokenJolietDiscs
  OptSets <- Defaults
  MaxStarts = 5
  VdOffset = 1
  MaxLba = 15
INVARIANTS
  IsoFamilyWins
CHECK_DEADLOCK FALSE
