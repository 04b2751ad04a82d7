SPECIFICATION Spec
CONSTANTS
  Runs = {r1, r2}
  NoRun = NoRun
  Contents = {a, b}
  MaxEvents = 3
  MaxTime = 1
CHECK_DEADLOCK FALSE
INVARIANT RunVerifies
