SPECIFICATION Spec
CONSTANTS
  Null = Null
  Table <- FourBackends
  Discs <- WrappingImages
  OptSets <- Defaults
  MaxStarts = 5
  VdOffset = 1
  MaxLba = 15
PROPERTIES
  MountEnds
CHECK_DEADLOCK FALSE
