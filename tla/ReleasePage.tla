------------------------------ MODULE ReleasePage ------------------------------
(***************************************************************************)
(* The run page of a run of DeploymentControl: what RunGuidance derives    *)
(* from its release rows, next to what the deployment handlers would       *)
(* answer at the same moment.                                              *)
(***************************************************************************)
EXTENDS DeploymentControl

G == INSTANCE RunGuidance

Newest(rows, field) == IF rows = <<>> THEN "none" ELSE rows[Len(rows)][field]

GateActions == {"merge", "deployment_approval", "deployment_execution",
                "signoff_completed", "signoff_exceptions"}

(* hasApprovedDeploymentApproval, no approval being named *)
NoneApproved == \A a \in 1..Len(approvals) : approvals[a].decision = "rejected"

(* evaluateHardReleaseGate, asked for the run and not for a request: that  *)
(* there are blockers.  The gate of completed_with_exceptions misses its   *)
(* rationale in every state.                                               *)
Blocked(action) ==
  /\ HardGates
  /\ CASE action = "merge" -> HardBlocked(standing) \/ ~standing.evidence
       [] action = "deployment_approval" -> GateStopsDeployment
       [] action = "deployment_execution" -> GateStopsDeployment \/ NoneApproved
       [] action = "signoff_completed" ->
            \/ ChecklistStops \/ RejectionStops \/ HealthStops
            \/ checklist \notin {"none", "complete"}
       [] action = "signoff_exceptions" -> TRUE

(* getHardReleaseGateStatusForRun: the evaluations that are blocked. *)
Gated == {action \in GateActions : Blocked(action)}

(* buildRunWorkflowSummary, for a run whose worker plan and quality gates  *)
(* are behind it, but for what it says of the audit chain: neither the     *)
(* command center nor the stepper reads that.                              *)
Summary ==
  [status |-> IF standing.completed THEN "completed" ELSE "waiting_for_approval",
   stepOf |-> IF standing.completed THEN "approved_by_operator" ELSE "other",
   branch |-> TRUE, validation |-> "valid", execution |-> "executed",
   gates |-> [passed |-> 1, failed |-> 0, skipped |-> 0],
   can |-> TRUE, decision |-> IF standing.approved THEN "approved" ELSE "none",
   evidence |-> standing.evidence, replay |-> standing.replay, policy |-> standing.policy,
   stages |-> [state \in {"approved", "pending", "rejected"} |->
                 IF standing.reviews = state THEN 1 ELSE 0],
   pr |-> CASE published = "nothing" -> "none"
            [] published = "pr_failed" -> "failed"
            [] OTHER -> "pr_created",
   prCommit |-> published # "nothing",
   merge |-> CASE published = "merged" -> "merged"
               [] published = "merge_failed" -> "failed"
               [] OTHER -> "none",
   approvals |-> Len(approvals), approval |-> Newest(approvals, "decision"),
   deployed |-> Newest(executions, "status"), probe |-> Newest(probes, "status"),
   health |-> policy.status, checklist |-> checklist, signoff |-> signoff,
   gated |-> Gated]

-----------------------------------------------------------------------------
(* Properties *)

(* The command center and the stepper of a released run agree.             *)
ReleaseViewsAgree == G!Agree(Summary)

=============================================================================
