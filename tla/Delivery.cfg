\* Two requests at once and one death of the server; every step may be repeated.
SPECIFICATION TrailSpec
CONSTANTS
  Requests = {q1, q2}
  MaxCrashes = 1
INVARIANTS RunFollowsCandidate PanelOffersWhatIsAccepted PanelSaysWhatIsRecorded InterruptionsShow
PROPERTIES StepsInOrder ClosesOnWorkingDeployments ProductionOverWorkingStaging
SYMMETRY Interchangeable
