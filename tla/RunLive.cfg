SPECIFICATION FairSpec
CONSTANTS
  t = t
  None = None
  Runs = {r1}
  Tasks <- MCTasks
  TaskOf <- MCTaskOf
  Handlers = {h1, h2}
  InitialTrees <- Clean
  PlanFiles = {"plain"}
  Outcomes <- PassOrFail
  MaxRequests = 2
  MaxCrashes = 0
PROPERTY RunSettles
PROPERTY DecisionGetsLaterBundle
CHECK_DEADLOCK FALSE
