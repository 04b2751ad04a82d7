\* Two candidates, one request at a time; the patch is edited, the PR merged by others.
SPECIFICATION PanelSpec
CONSTANTS
  c1 = c1  c2 = c2  q1 = q1
  Candidates = {c1, c2}
  Requests = {q1}
  None = None
  GateResults = {"passed"}
  MaxVersion = 2
  MaxCommits = 2
  MaxSignoffs = 2
  MaxCrashes = 1
  Others = {"edit", "merge"}
INVARIANTS MergedCommitIsCandidates PanelOffersWhatIsAccepted PanelSaysWhatIsRecorded
SYMMETRY InterchangeableCandidates
