SPECIFICATION Spec
CONSTANTS
  Null = Null
  Table <- FiveBackends
  Discs <- ChoiceDiscs
  OptSets <- ChoiceOptions
  MaxStarts = 5
  VdOffset = 1
  MaxLba = 15
INVARIANTS
  DocumentedChoice
  ContextsExact
PROPERTIES
  NothingPassedOver
  LastSessionFirst
  MountEndsOrWraps
CHECK_DEADLOCK FALSE
