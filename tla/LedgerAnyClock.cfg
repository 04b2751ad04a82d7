SPECIFICATION Spec
CONSTANTS
  Runs = {r1, r2}
  NoRun = NoRun
  Contents = {a, b}
  MaxEvents = 4
  MaxTime = 2
CHECK_DEADLOCK FALSE
INVARIANTS VerifiesExactlyInOrder
