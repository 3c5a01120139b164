SPECIFICATION FairSpec
CONSTANTS
  NoDisc = NoDisc
  Null = Null
  data = data
  audio = audio
  a1 = a1
  a2 = a2
  c1 = c1
  h1 = h1
  Discs = {data, audio}
  DataDiscs = {data}
  AudioDiscs = {audio}
  Addrs = {a1, a2}
  Clients = {c1}
  Handles = {h1}
  Ops = {"write", "inhibit", "uninhibit"}
  Failures = {"doslist"}
  LateCounter = TRUE
  ForeignLink = TRUE
  MaxEvents = 3
PROPERTIES
  SettlesOnDisc
  EventuallyPublished
  PacketsAnswered
