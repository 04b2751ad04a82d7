---------------------------- MODULE MCPullRequests ----------------------------
(* Model values for the runs of PullRequests. *)
EXTENDS PrPage, TLC

Interchangeable == Permutations(Requests)

Fit == [approved |-> TRUE, evidence |-> TRUE, policy |-> "passed", reviews |-> "approved",
        replay |-> "passed", sound |-> TRUE, completed |-> TRUE]

(* A policy that asks for a review, and a replay with warnings.            *)
Changing == {Fit, [Fit EXCEPT !.policy = "requires_review"], [Fit EXCEPT !.replay = "warning"]}

=============================================================================
