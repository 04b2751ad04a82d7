---------------------------- MODULE ReleaseStanding ----------------------------
(***************************************************************************)
(* What the release steps of a run read of its governance: the decision,   *)
(* the evidence bundle, the latest policy result, the review stages, the   *)
(* latest replay verification, the gates, the change set and the           *)
(* registered repository.  The steps look at the same things and do not    *)
(* draw the same line: a replay with warnings may open a pull request and  *)
(* not merge it, and only the hard gates and the merge insist on "passed". *)
(***************************************************************************)

Standings ==
  [approved : BOOLEAN,    \* some decision record of the run is an approval
   evidence : BOOLEAN,
   policy : {"none", "passed", "warning", "requires_review", "blocked"},
   reviews : {"none", "approved", "pending", "rejected"},  \* the required stages
   replay : {"none", "passed", "warning", "failed"},
   sound : BOOLEAN,       \* no failed gate, no protected path, verified repository
   completed : BOOLEAN]   \* the run's status

(* Required review stages that are pending or rejected. *)
Unsettled(s) == s.reviews \in {"pending", "rejected"}

(* Blockers of every release step. *)
Unfit(s) == \/ ~s.approved \/ ~s.evidence
            \/ s.policy = "blocked"
            \/ Unsettled(s)
            \/ ~s.sound

ReplayPassed(s) == s.replay = "passed"

PrBlocked(s) == Unfit(s) \/ s.replay \in {"none", "failed"}
PrWarned(s) == s.policy = "requires_review" \/ s.replay = "warning" \/ ~s.completed

MergeBlocked(s) == Unfit(s) \/ ~ReplayPassed(s)
MergeWarned(s) == s.policy = "requires_review"

(* collectPolicyReplayReviewBlockers of the hard gates. *)
HardBlocked(s) == s.policy = "blocked" \/ ~ReplayPassed(s) \/ Unsettled(s)

=============================================================================
