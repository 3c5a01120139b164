SPECIFICATION Spec
CONSTANTS
  Handler = Handler
  Null = Null
  Callers = {c1}
  Ops = {"inhibit", "uninhibit"}
  MaxObjects = 1
INVARIANTS
  RetryPortOfHandler
CHECK_DEADLOCK FALSE
