\* Two runs of one task in one tree, no two requests on one run at once.
SPECIFICATION SpecOnePerRun
CONSTANTS
  t = t
  None = None
  Runs = {r1, r2}
  Tasks <- MCTasks
  TaskOf <- MCTaskOf
  Handlers = {h1, h2}
  InitialTrees <- CleanOrProtected
  PlanFiles = {"plain"}
  Outcomes <- GateOutcomes
  MaxRequests = 3
  MaxCrashes = 1
SYMMETRY Interchangeable
INVARIANT TaskMirrorsRun
INVARIANT ReviewedAtDecision
INVARIANT WaitingIsApprovable
CHECK_DEADLOCK FALSE
