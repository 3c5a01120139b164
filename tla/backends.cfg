SPECIFICATION Spec
CONSTANTS
  Stems <- MCStems
  Lower <- MCLower
  Cut <- MCCut
  MaxOrdinal = 5
  SectorSlots = 3
  SectorBytes = 2
  BlockBytes = 1
  Dotted = {".dots"}
  MaxDepth = 4
  MaxAeds = 2
  FidBytes = 2
  LinkBytes = 3
  MaxAreas = 2
  MaxVds = 4
  FrameBytes = 4
  HeaderBytes = 3
  MaxTracks = 4
  ReadAhead = 3
  Resumed = {"iso", "hfs", "hfsplus", "udf"}
  Discs <- MCDiscs
  Takes = {1, 2, 20}
  Absent <- MCAbsent
  Ranges <- MCRanges
INVARIANTS
  ListingExact
  LookupAgrees
  ParentsExact
  ContentsExact
