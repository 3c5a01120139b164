SPECIFICATION Spec
CONSTANTS
  Handler = Handler
  Null = Null
  Callers = {c1, c2}
  Ops = {"open", "close", "read", "inhibit", "uninhibit"}
  MaxObjects = 2
INVARIANTS
  ShutdownAlone
  CallerIoOwned
PROPERTIES
  MountsRespectInhibit
  CallsReturn
  DieAnswered
CHECK_DEADLOCK FALSE
