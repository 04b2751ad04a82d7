\* A production environment behind the hard gates; a replay may fail, or a quality
\* gate turn out failed, and both may pass again.
SPECIFICATION Spec
CONSTANTS
  Environments = {production}
  Production = {production}
  NamedProduction = {production}
  Reports <- Varied
  Audits = {"passed"}
  HardGates = TRUE
  MaxChecks = 1
  MaxApprovals = 2
  MaxExecutions = 2
  MaxProbes = 2
  MaxCrashes = 1
INVARIANTS OneDeploymentPerApproval PolicyFollowsNewestProbe CompletedWasDeployedHealthy
   ReleaseViewsAgree
