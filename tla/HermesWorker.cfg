SPECIFICATION Spec
CONSTANTS
  f1 = f1
  f2 = f2
  Paths = {f1, f2}
  Gates = {g1}
  Plans <- TwoPlans
  MaxDispatches = 2
  MaxBatches = 1
  MaxTroubles = 1
INVARIANT SignedPatchIsInTree
PROPERTY RollbackRestores
CHECK_DEADLOCK FALSE
