SPECIFICATION Spec
CONSTANTS
  root = root
  small = small
  empty = empty
  big = big
  x1 = x1
  x2 = x2
  x3 = x3
  x4 = x4
  lockA = lockA
  lockB = lockB
  lockC = lockC
  Null = Null
  Dirs = {root, small, empty, big}
  Count <- MCCount
  Uncacheable = {}
  Budget = 5
  Header = 1
  LruFront = 1
  Slots = 1
  NextScans = {x1, x2, x4}
  AllScans = {x3}
  LockOf <- MCLocks
  DirOf <- MCDirOf
  Key <- MCKey
  DirKey <- MCDirKey
  CddaKey = 5
  CddaRoots = {root}
  Failures = {"nomem"}
  MaxFit = 2
  MaxListed = 6
INVARIANTS
  ExactListing
  WithinBudget
PROPERTIES
  SecondChance
