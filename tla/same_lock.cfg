SPECIFICATION Spec
CONSTANTS
  Null = Null
  NoPlace = NoPlace
  Places <- MCPlaces
  Root = "root"
  CddaRoot = "cdda"
  Parent <- MCParent
  NameOf <- MCNameOf
  KindOf <- MCKindOf
  Listing <- MCListing
  Lba <- MCLba
  Ids = {0, 1}
  EntrySlots = {1, 2}
  LockSlots = {1, 2, 3}
  FhSlots = {1}
  MaxVolumes = 2
  ResolverOf <- MCResolverOf
  Paths <- MCPaths
  CacheStates <- MCCacheStates
  Failures = {"nomem", "doslock"}
INVARIANTS

  AnswersExact
