SPECIFICATION Spec
CONSTANTS
  Handler = Handler
  Null = Null
  Callers = {c1}
  Ops = {"open", "read"}
  MaxObjects = 1
INVARIANTS
  OneTaskInside
CHECK_DEADLOCK FALSE
