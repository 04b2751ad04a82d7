-------------------------- MODULE MCDeploymentControl --------------------------
(* Model values for the runs of DeploymentControl. *)
EXTENDS ReleasePanels

Fit == [approved |-> TRUE, evidence |-> TRUE, policy |-> "passed", reviews |-> "approved",
        replay |-> "passed", sound |-> TRUE, completed |-> TRUE]

(* Fit; then a run that its approval did not reach and whose replay        *)
(* verification fails, which a hard gate stops; and one of whose quality   *)
(* gates one failed, which no hard gate stops.                             *)
Varied == {Fit,
           [Fit EXCEPT !.replay = "failed", !.completed = FALSE],
           [Fit EXCEPT !.sound = FALSE]}

=============================================================================
