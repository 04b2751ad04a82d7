\* One candidate, two requests at once, everything others may do.
SPECIFICATION TrailSpec
CONSTANTS
  c1 = c1  q1 = q1  q2 = q2
  Candidates = {c1}
  Requests = {q1, q2}
  None = None
  GateResults = {"passed", "failed"}
  MaxVersion = 2
  MaxCommits = 2
  MaxSignoffs = 1
  MaxCrashes = 1
  Others = {"edit", "commit", "push", "close", "merge"}
INVARIANTS RecordsAreBacked InterruptionsShow

SYMMETRY Interchangeable
