-------------------------- MODULE MCCommitCandidate --------------------------
(* Model values for the overlapping requests of CommitCandidate. *)
EXTENDS CandidateTrail, TLC

CONSTANTS c1, q1, q2

Interchangeable == Permutations(Requests)

=============================================================================
