--------------------------- MODULE MCCandidatePanel ---------------------------
(* Model values for the run of the commit candidate panel. *)
EXTENDS CandidatePanel, TLC

CONSTANTS c1, c2, q1

InterchangeableCandidates == Permutations(Candidates)

=============================================================================
