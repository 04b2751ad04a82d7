SPECIFICATION PageSpec
CONSTANTS
  f1 = f1
  f2 = f2
  r1 = r1
  r2 = r2
  Paths = {f1, f2}
  Requests = {r1, r2}
  MaxCommits = 3
  MaxDeeds = 1
  MaxCrashes = 1
SYMMETRY Interchangeable
INVARIANTS CommitIsApproved DeadEndsOfApplication ToldAsRecorded InterruptionsShow PageLeadsOn
PROPERTIES ApprovedRunStartsNothing StepsInOrder
CHECK_DEADLOCK FALSE
