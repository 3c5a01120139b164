SPECIFICATION Spec
CONSTANTS
  NoDisc = NoDisc
  Null = Null
  data = data
  mixed = mixed
  a1 = a1
  a2 = a2
  a3 = a3
  c1 = c1
  h1 = h1
  Discs = {data, mixed}
  DataDiscs = {data, mixed}
  AudioDiscs = {mixed}
  Addrs = {a1, a2, a3}
  Clients = {c1}
  Handles = {h1}
  Ops = {"write"}
  Failures = {"volume"}
  LateCounter = FALSE
  ForeignLink = FALSE
  MaxEvents = 2
SYMMETRY Interchangeable
INVARIANTS
  CddaContextLive
