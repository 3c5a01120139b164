SPECIFICATION Spec
CONSTANTS
  NoDisc = NoDisc
  Null = Null
  data = data
  mixed = mixed
  a1 = a1
  a2 = a2
  a3 = a3
  c1 = c1
  h1 = h1
  h2 = h2
  Discs = {data, mixed}
  DataDiscs = {data, mixed}
  AudioDiscs = {mixed}
  Addrs = {a1, a2, a3}
  Clients = {c1}
  Handles = {h1, h2}
  Ops = {"locate", "dup", "use", "write", "free", "inhibit", "uninhibit", "die"}
  Failures = {"chgint", "presence", "toc", "mount", "audio", "node", "volume", "object", "doslist", "timer"}
  LateCounter = FALSE
  ForeignLink = FALSE
  MaxEvents = 3
CHECK_DEADLOCK FALSE
SYMMETRY Interchangeable
INVARIANTS
  CountsExact
  NoAliasing
  ValidMeansSameMount
  DosListNodesLive
  WorkbenchInformed
PROPERTIES
  StartupRemountHarmless
