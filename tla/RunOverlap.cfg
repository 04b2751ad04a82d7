SPECIFICATION Spec
CONSTANTS
  t = t
  None = None
  Runs = {r1}
  Tasks <- MCTasks
  TaskOf <- MCTaskOf
  Handlers = {h1, h2}
  InitialTrees <- CleanOrLockfile
  PlanFiles = {"plain"}
  Outcomes <- PassOrFail
  MaxRequests = 3
  MaxCrashes = 1
SYMMETRY Interchangeable
 
INVARIANT CompletedHasApproval
INVARIANT ApprovalInFlight
INVARIANT TaskIsToldLast
CHECK_DEADLOCK FALSE
