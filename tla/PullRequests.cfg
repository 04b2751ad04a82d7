\* Two requests at once, one death, one deed of others.
SPECIFICATION Spec
CONSTANTS
  Requests = {q1, q2}
  Reports <- Changing
  HardGates = TRUE
  PlanFiles = FALSE
  Others = {"work", "commit", "push", "switch", "reset", "ready", "close"}
  MaxCommits = 3
  MaxMerges = 2
  MaxOthers = 1
  MaxCrashes = 1
INVARIANTS PublishedAsRecorded WorkNeverStranded PanelKeepsItsWord
PROPERTIES MergesWhatWasRecorded
SYMMETRY Interchangeable
