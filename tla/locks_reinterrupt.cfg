SPECIFICATION Spec
CONSTANTS
  NoDisc = NoDisc
  Null = Null
  data = data
  a1 = a1
  a2 = a2
  a3 = a3
  c1 = c1
  h1 = h1
  Discs = {data}
  DataDiscs = {data}
  AudioDiscs = {}
  Addrs = {a1, a2, a3}
  Clients = {c1}
  Handles = {h1}
  Ops = {"locate", "use"}
  Failures = {}
  LateCounter = FALSE
  ForeignLink = FALSE
  MaxEvents = 4
SYMMETRY Interchangeable
PROPERTIES
  LocksSurviveReinterrupt
