------------------------------ MODULE RunGuidance ------------------------------
(***************************************************************************)
(* What the run page and the dashboard tell an operator about a run: the   *)
(* approval card, the step the command center names, the lifecycle         *)
(* stepper, the bucket of the operator queue and the list of issues.  Each *)
(* is derived anew from one summary of the run's rows whenever a page is   *)
(* rendered, by code of its own that repeats the conditions of the         *)
(* handlers; nothing is stored and no handler reads it.                    *)
(*                                                                         *)
(* Scope: labels, links and texts are left out; a list of blockers or      *)
(* warnings is kept as far as something depends on its being empty.        *)
(***************************************************************************)
EXTENDS Naturals, Sequences

(* RunWorkflowSummary.  Every review stage is a required one, and a policy *)
(* result that is not blocked lists required reviews exactly when its      *)
(* status says so.                                                         *)
Summaries ==
  [status : STRING,              \* of the run
   stepOf : {"approved_by_operator", "stopped_by_operator", "other"},
   branch : BOOLEAN,
   validation : {"none", "pending", "valid", "invalid"},
   execution : {"none", "pending", "skipped", "executed", "failed"},
   gates : [passed : Nat, failed : Nat, skipped : Nat],
   can : BOOLEAN,                \* canApprove of the stored report
   decision : {"none", "approved", "request_fix", "stopped"},  \* the oldest
   evidence : BOOLEAN,
   replay : {"none", "passed", "warning", "failed"},
   policy : {"none", "passed", "warning", "requires_review", "blocked"},
   stages : [approved : Nat, pending : Nat, rejected : Nat],
   pr : {"none", "failed", "pr_created"},
   prCommit : BOOLEAN,           \* the newest request has a commit
   merge : {"none", "failed", "merged"},
   approvals : Nat,              \* deployment approvals, rejections included
   approval : {"none", "approved", "rejected"},                \* the newest
   deployed : {"none", "pending", "running", "succeeded", "failed"},
   probe : {"none", "running", "healthy", "unhealthy", "failed"},
   health : {"none", "not_checked", "needs_attention", "healthy", "unhealthy"},
   checklist : {"none", "not_started", "needs_attention", "blocked", "complete"},
   signoff : {"none", "completed", "completed_with_exceptions", "rejected"},
   gated : SUBSET {"merge", "deployment_approval", "deployment_execution",
                   "signoff_completed", "signoff_exceptions"},
   chain : BOOLEAN]              \* the audit chain verifies

-----------------------------------------------------------------------------
(* Conditions *)

StageCount(s) == s.stages.approved + s.stages.pending + s.stages.rejected
GateCount(s) == s.gates.passed + s.gates.failed + s.gates.skipped

ReviewOpen(s) == s.stages.pending > 0 \/ s.stages.rejected > 0

(* reviewRequired *)
ReviewRequired(s) == s.policy = "requires_review" \/ StageCount(s) > 0

(* reviewComplete: the stages decide when there are any. *)
ReviewComplete(s) ==
  IF StageCount(s) > 0 THEN ~ReviewOpen(s) ELSE s.policy \notin {"none", "requires_review"}

NeedsGeneration(s) == ReviewRequired(s) /\ StageCount(s) = 0

(* approvalComplete *)
Approved(s) == s.decision = "approved" \/ s.stepOf = "approved_by_operator"

PlanBlocked(s) == s.validation = "invalid" \/ s.execution = "failed"

-----------------------------------------------------------------------------
(* The approval card *)

ShowCard(s) ==
  \/ s.execution = "executed"
  \/ s.status = "waiting_for_approval"
  \/ s.decision # "none"
  \/ ReviewRequired(s)

(* deriveRunApprovalActionCardState, up to the decisions that are recorded. *)
Recorded(s) ==
  CASE ~ShowCard(s) -> "hidden"
    [] ShowCard(s) /\ Approved(s) -> "approved"
    [] ShowCard(s) /\ ~Approved(s) /\ s.decision = "request_fix" -> "fix_requested"
    [] ShowCard(s) /\ ~Approved(s) /\ s.decision # "request_fix"
         /\ (s.decision = "stopped" \/ s.stepOf = "stopped_by_operator") -> "stopped"
    [] OTHER -> "open"

(* Mutant: a rejected stage does not count as an open one. *)
ApprovalAvailableBesideRejections(s) ==
  /\ Recorded(s) = "open"
  /\ s.status = "waiting_for_approval"
  /\ s.can
  /\ s.policy # "blocked"
  /\ s.stages.pending = 0
  /\ ~NeedsGeneration(s)

(* ... and whether the card then offers to approve. *)
ApprovalAvailable(s) ==
  /\ Recorded(s) = "open"
  /\ s.status = "waiting_for_approval"
  /\ s.can
  /\ s.policy # "blocked"
  /\ ~ReviewOpen(s)
  /\ ~NeedsGeneration(s)

RationaleAsked(s) == s.policy = "requires_review"

-----------------------------------------------------------------------------
(* The command center: the first step, in this order, that is not behind   *)
(* the run.                                                                *)

AtBranch(s) == ~s.branch
AtWorkerPlan(s) == s.execution # "executed"
AtQualityGates(s) == s.gates.failed > 0 \/ GateCount(s) = 0
AtEvidence(s) == ~s.evidence
AtReplay(s) == s.replay \in {"none", "failed"}
AtPolicy(s) == s.policy \in {"none", "blocked"}
AtReview(s) == s.policy = "requires_review" \/ ReviewOpen(s) \/ NeedsGeneration(s)
AtApproval(s) == s.status = "waiting_for_approval" \/ ~Approved(s)
AtPr(s) == s.pr # "pr_created"
AtMerge(s) == s.merge # "merged"
AtDeployment(s) == s.deployed # "succeeded"

(* Mutant: only an unhealthy result holds the run at its health. *)
AtHealthUnlessJudged(s) == s.health = "unhealthy"

AtHealth(s) == s.health \in {"none", "unhealthy"}
AtChecklist(s) == s.checklist = "none" \/ (s.checklist = "blocked" /\ s.signoff = "none")

Steps == <<"branch", "worker_plan", "quality_gates", "evidence", "replay", "policy",
           "review", "approval", "pr", "merge", "deployment", "health", "checklist",
           "signoff">>

(* deriveRunCommandCenterState: the place of that step, and the step. *)
CurrentPlace(s) ==
  LET at == <<AtBranch(s), AtWorkerPlan(s), AtQualityGates(s), AtEvidence(s), AtReplay(s),
              AtPolicy(s), AtReview(s), AtApproval(s), AtPr(s), AtMerge(s),
              AtDeployment(s), AtHealth(s), AtChecklist(s), TRUE>>
  IN  CHOOSE i \in 1..Len(at) : at[i] /\ \A j \in 1..(i - 1) : ~at[j]

CurrentStage(s) == Steps[CurrentPlace(s)]

(* Mutant: the hard gates are not looked at. *)
DeploymentAdviceUngated(s) ==
  CASE s.approval = "rejected" -> "reevaluate"
    [] s.approval # "rejected" /\ s.deployed = "failed" -> "review_failure"
    [] s.approval = "none" /\ s.deployed # "failed" -> "approve"
    [] s.approval = "approved" /\ s.deployed # "failed" -> "execute"

(* What it says at the step "deployment". *)
DeploymentAdvice(s) ==
  CASE s.approval = "rejected" -> "reevaluate"
    [] s.approval # "rejected" /\ s.deployed = "failed" -> "review_failure"
    [] s.approval = "none" /\ s.deployed # "failed" ->
         IF "deployment_approval" \in s.gated THEN "clear_gates" ELSE "approve"
    [] s.approval = "approved" /\ s.deployed # "failed" ->
         IF "deployment_execution" \in s.gated THEN "clear_gates" ELSE "execute"

ApprovalBlocked(s) ==
  CurrentStage(s) = "approval" /\ s.status = "waiting_for_approval" /\ ~s.can

-----------------------------------------------------------------------------
(* The stepper *)

PreparationStatus(s) ==
  [branch |-> IF s.branch THEN "complete" ELSE "ready",
   worker_plan |->
     IF ~s.branch THEN "not_started"
     ELSE IF s.execution = "executed" THEN "complete"
     ELSE IF PlanBlocked(s) THEN "blocked" ELSE "ready",
   quality_gates |->
     IF s.execution # "executed" THEN "not_started"
     ELSE IF s.gates.failed > 0 THEN "blocked"
     ELSE IF GateCount(s) = 0 THEN "ready"
     ELSE IF s.gates.skipped > 0 THEN "warning" ELSE "passed",
   evidence |->
     IF s.execution # "executed" THEN "not_started"
     ELSE IF s.gates.failed > 0 THEN "blocked"
     ELSE IF s.evidence THEN "complete" ELSE "ready"]

GovernanceStatus(s) ==
  [replay |->
     IF ~s.evidence THEN "not_started"
     ELSE CASE s.replay = "none" -> "ready"
            [] s.replay = "failed" -> "blocked"
            [] OTHER -> s.replay,
   policy |->
     IF ~s.evidence THEN "not_started"
     ELSE CASE s.policy = "none" -> "ready"
            [] s.policy \in {"blocked", "passed"} -> s.policy
            [] s.policy \in {"warning", "requires_review"} -> "warning",
   review |->
     IF s.policy = "none" THEN "not_started"
     ELSE IF s.stages.rejected > 0 THEN "blocked"
     ELSE IF ReviewComplete(s) THEN "complete" ELSE "ready",
   approval |->
     IF ~ReviewComplete(s) THEN "not_started"
     ELSE IF Approved(s) THEN "complete"
     ELSE IF s.status = "waiting_for_approval" THEN (IF s.can THEN "ready" ELSE "blocked")
     ELSE IF s.decision \in {"request_fix", "stopped"} THEN "blocked" ELSE "ready"]

ReleaseStatus(s) ==
  [pr |->
     IF ~Approved(s) THEN "not_started"
     ELSE CASE s.pr = "pr_created" -> "complete"
            [] s.pr = "failed" -> "blocked"
            [] OTHER -> "ready",
   merge |->
     IF s.pr # "pr_created" THEN "not_started"
     ELSE IF s.merge = "merged" THEN "complete"
     ELSE IF s.merge = "failed" \/ "merge" \in s.gated THEN "blocked" ELSE "ready",
   deployment |->
     IF s.merge # "merged" THEN "not_started"
     ELSE IF s.deployed = "succeeded" THEN "complete"
     ELSE IF \/ s.approval = "rejected" \/ s.deployed = "failed"
             \/ s.gated \cap {"deployment_approval", "deployment_execution"} # {}
          THEN "blocked" ELSE "ready",
   health |->
     IF s.deployed # "succeeded" THEN "not_started"
     ELSE IF s.health = "healthy" THEN "passed"
     ELSE IF s.health = "needs_attention" THEN "warning"
     ELSE IF s.health = "unhealthy" \/ s.probe \in {"failed", "unhealthy"}
          THEN "blocked" ELSE "ready",
   checklist |->
     IF s.deployed # "succeeded" THEN "not_started"
     ELSE CASE s.checklist = "none" -> "ready"
            [] s.checklist = "blocked" -> "blocked"
            [] s.checklist = "needs_attention" -> "warning"
            [] OTHER -> "passed",
   signoff |->
     IF s.checklist = "none" THEN "not_started"
     ELSE CASE s.signoff = "none" -> "ready"
            [] s.signoff = "rejected" -> "blocked"
            [] s.signoff = "completed_with_exceptions" -> "warning"
            [] s.signoff = "completed" -> "complete"]

(* deriveRunLifecycleSteps, without the task, which is always complete. *)
Stepper(s) == [preparation |-> PreparationStatus(s), governance |-> GovernanceStatus(s),
               release |-> ReleaseStatus(s)]

StatusIn(stepper, step) ==
  CASE step \in {"branch", "worker_plan", "quality_gates", "evidence"} ->
         stepper.preparation[step]
    [] step \in {"replay", "policy", "review", "approval"} -> stepper.governance[step]
    [] step \in {"pr", "merge", "deployment", "health", "checklist", "signoff"} ->
         stepper.release[step]

StepStatus(s, step) == StatusIn(Stepper(s), step)

(* What the two views are known to differ about: a policy result that      *)
(* requires a review holds the command center at "review" whatever the     *)
(* reviewers said, a recorded approval that a death kept from the run, or  *)
(* that a later plan has outrun, is done for the stepper alone, a health   *)
(* policy result from before the deployment passes for one about it, and a *)
(* sign-off outlives a checklist that is blocked.                          *)
Differing(s) ==
  {step \in {"review", "approval", "health", "checklist"} :
     CASE step = "review" -> s.policy = "requires_review"
       [] step = "approval" -> s.status = "waiting_for_approval" /\ Approved(s)
       [] step = "health" -> s.health = "not_checked"
       [] step = "checklist" -> s.checklist = "blocked" /\ s.signoff # "none"}

(* The command center and the stepper tell one story: the step that is     *)
(* named is not shown as done, unless it is the last, and none before it   *)
(* as still to be done.                                                    *)
Agree(s) ==
  LET place     == CurrentPlace(s)
      stepper   == Stepper(s)
      differing == Differing(s)
  IN /\ Steps[place] \notin differing \cup {"signoff"} =>
          StatusIn(stepper, Steps[place]) \notin {"complete", "passed"}
     /\ \A i \in 1..(place - 1) : Steps[i] \notin differing =>
          StatusIn(stepper, Steps[i]) \notin {"not_started", "ready", "blocked"}

-----------------------------------------------------------------------------
(* The operator queue *)

InReleaseFlow(s) ==
  \/ s.decision = "approved" \/ s.pr = "pr_created" \/ s.merge = "merged"
  \/ s.approvals > 0 \/ s.checklist # "none" \/ s.signoff # "none"

(* assessOperatorQueueSnapshot of a task that has a run. *)
Queue(s) ==
  CASE s.status = "failed" \/ ~s.chain \/ s.gated # {} -> "blocked_failed"
    [] s.status = "completed" /\ s.chain /\ s.gated = {} -> "recently_completed"
    [] OTHER ->
         IF ApprovalBlocked(s) THEN "blocked_failed"
         ELSE IF s.status = "waiting_for_approval" /\ s.can /\ ~ReviewOpen(s)
         THEN "decide"   \* in the bucket ready_for_approval
         ELSE IF s.policy = "requires_review" \/ ReviewOpen(s)
         THEN "review"   \* in the bucket ready_for_approval
         ELSE IF (s.pr = "failed" /\ s.prCommit) \/ InReleaseFlow(s) THEN "ready_for_release"
         ELSE "needs_action"

-----------------------------------------------------------------------------
(* The issues *)

ReviewIssues(s) ==
  {i \in {"evidence-missing", "replay-missing", "replay-failed", "replay-warning",
          "policy-missing", "policy-blocked", "policy-requires-review",
          "review-stages-rejected", "review-stages-pending"} :
     CASE i = "evidence-missing" -> ~s.evidence
       [] i = "replay-missing" -> s.replay = "none"
       [] i = "replay-failed" -> s.replay = "failed"
       [] i = "replay-warning" -> s.replay = "warning"
       [] i = "policy-missing" -> s.policy = "none"
       [] i = "policy-blocked" -> s.policy = "blocked"
       [] i = "policy-requires-review" -> s.policy = "requires_review"
       [] i = "review-stages-rejected" -> s.stages.rejected > 0
       [] i = "review-stages-pending" -> s.stages.rejected = 0 /\ s.stages.pending > 0}

(* At most one of three. *)
ApprovalIssues(s) ==
  {i \in {"approval-rationale-required", "approval-pending", "approval-blocked"} :
     /\ s.status = "waiting_for_approval"
     /\ CASE i = "approval-rationale-required" -> s.can /\ s.policy = "requires_review"
          [] i = "approval-pending" -> s.can /\ s.policy # "requires_review"
          [] i = "approval-blocked" -> ~s.can}

ReleaseIssues(s) ==
  {i \in {"audit-chain-failed", "hard-release-gates-blocked", "pr-retry-available",
          "pr-failed", "pr-ready", "deployment-health-warning",
          "release-checklist-missing", "release-checklist-attention",
          "release-signoff-missing"} :
     CASE i = "audit-chain-failed" -> ~s.chain
       [] i = "hard-release-gates-blocked" -> s.gated # {}
       [] i = "pr-retry-available" -> s.pr = "failed" /\ s.prCommit
       [] i = "pr-failed" -> s.pr = "failed" /\ ~s.prCommit
       [] i = "pr-ready" -> /\ s.decision = "approved" /\ s.pr = "none"
                            /\ CurrentStage(s) = "pr"
       [] i = "deployment-health-warning" ->
            s.health = "needs_attention" \/ s.probe \in {"failed", "unhealthy"}
       [] i = "release-checklist-missing" ->
            s.checklist = "none" /\ CurrentStage(s) = "checklist"
       [] i = "release-checklist-attention" -> s.checklist = "needs_attention"
       [] i = "release-signoff-missing" -> s.checklist # "none" /\ s.signoff = "none"}

(* deriveRunIssues *)
Issues(s) == ReviewIssues(s) \cup ApprovalIssues(s) \cup ReleaseIssues(s)

=============================================================================
