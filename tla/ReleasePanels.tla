----------------------------- MODULE ReleasePanels -----------------------------
(***************************************************************************)
(* The panels from which an operator releases a run of DeploymentControl:  *)
(* the deployment gates, the deployment, its health checks, the checklist  *)
(* and the sign-off, each under a banner that tells whether a hard gate    *)
(* stops it.  A panel enables its button by what it has loaded; the        *)
(* handler decides anew.                                                   *)
(*                                                                         *)
(* Scope: what is loaded is fresh; a rationale is always given; texts are  *)
(* left out, and with them the links that the banner makes of them.        *)
(***************************************************************************)
EXTENDS ReleasePage

-----------------------------------------------------------------------------
(* The banner *)

Near ==
  \/ standing.policy = "requires_review" \/ standing.replay = "warning"
  \/ policy.status = "needs_attention" \/ checklist = "needs_attention"
  \/ signoff = "completed_with_exceptions"

(* describeReleaseGateStatus *)
Banner(action) ==
  IF ~HardGates THEN "disabled"
  ELSE IF Blocked(action) THEN "blocked"
  ELSE IF Near THEN "warning" ELSE "ready"

-----------------------------------------------------------------------------
(* The deployment gates *)

(* load, and the preview that follows the choice of an environment: a page *)
(* just opened shows the run judged now; after an action of the operator's *)
(* own, the newest check of the environment, or of any.                    *)
ReadinessShown(env, opened) ==
  LET own == {c \in 1..Len(checks) : checks[c].env = env}
  IN IF opened THEN Readiness(env)
     ELSE IF own # {} THEN checks[Last(own)].status
     ELSE Newest(checks, "status")

(* submitApproval sends the newest check, whichever environment it is of.  *)
CheckSent == Len(checks)

ApproveEnabled(env, opened) == ReadinessShown(env, opened) # "blocked" /\ CheckSent # 0

-----------------------------------------------------------------------------
(* The deployment and its health checks *)

(* The choice that the panel makes: the newest approval that approves. *)
ApprovalChosen ==
  LET approved == {a \in 1..Len(approvals) : approvals[a].decision = "approved"}
  IN IF approved = {} THEN 0 ELSE Last(approved)

ExecuteEnabled == ApprovalChosen # 0 /\ ExecutionReady(ApprovalChosen)

(* The newest execution that succeeded. *)
ExecutionChosen == IF Succeeded = {} THEN 0 ELSE Last(Succeeded)

CheckHealthEnabled == ExecutionChosen # 0 /\ HealthCheckReady(ExecutionChosen)

-----------------------------------------------------------------------------
(* The checklist and the sign-off *)

(* ReleaseChecklistPanel: the newest evaluation, or one made for the page. *)
ChecklistShown(audit) == IF checklist # "none" THEN checklist ELSE ChecklistStatus(audit)

(* ReleaseSignoffPanel *)
SignoffsOffered(audit) ==
  LET shown == ChecklistShown(audit)
  IN {d \in Decisions :
        CASE d = "completed" -> shown = "complete"
          [] d = "completed_with_exceptions" -> shown = "needs_attention"
          [] d = "rejected" -> shown \in {"blocked", "needs_attention", "not_started"}}

-----------------------------------------------------------------------------
(* Properties *)

(* A readiness check that is approved now, or one to be made in its place. *)
ApprovalOpen(opened) ==
  IF checks = <<>> THEN \A env \in Environments : Readiness(env) # "blocked"
  ELSE LET env == checks[CheckSent].env
       IN \/ ApproveEnabled(env, opened) /\ Approvable(CheckSent, TRUE)
          \/ checks[CheckSent].status = "blocked" /\ Readiness(env) # "blocked"

ExecutionOpen ==
  /\ ApprovalChosen = Len(approvals)
  /\ \/ ExecuteEnabled /\ ~GateStopsDeployment
     \/ Has(ApprovalChosen, "running") \/ Has(ApprovalChosen, "succeeded")

(* What stops a deployment although neither the command center nor a hard  *)
(* gate looks at it: a failed gate, a protected path or an unverified      *)
(* repository, a missing approval and, without the hard gates, a replay    *)
(* with warnings.                                                          *)
Overlooked ==
  \/ ~standing.sound \/ ~standing.approved
  \/ ~HardGates /\ standing.replay = "warning"

(* The check that a panel previews, or makes anew, then lists it. *)
CheckTells == Overlooked /\ \A env \in Environments : Readiness(env) = "blocked"
ExecutionTells == Overlooked /\ ApprovalChosen # 0 /\ ~ExecuteEnabled

(* Where the command center sends the operator, the panel he finds has the *)
(* way on, and the handler takes it: the command center judges by the      *)
(* newest rows, the panel by what it previews and chooses, the handler by  *)
(* the run as it is and every row of the approval.  Where the handler      *)
(* would refuse, the banner over the panel says that a gate is blocked, or *)
(* a deployment of the approval runs or is there, or the reason is one     *)
(* that the command center overlooks, and the panel's own check lists it;  *)
(* no sign-off that is accepted is hidden.                                 *)
AdviceCanBeFollowed ==
  LET s == Summary
      at == G!CurrentStage(s)
      advice == G!DeploymentAdvice(s)
  IN /\ at = "deployment" => \A opened \in BOOLEAN :
          CASE advice = "approve" -> ApprovalOpen(opened) \/ CheckTells
            [] advice = "reevaluate" ->
                 \/ ApprovalOpen(opened) \/ CheckTells
                 \/ Banner("deployment_approval") = "blocked"
            [] advice = "execute" -> ExecutionOpen \/ ExecutionTells
            [] advice = "review_failure" ->
                 \/ ExecutionOpen \/ ExecutionTells
                 \/ Banner("deployment_execution") = "blocked"
            [] advice = "clear_gates" ->
                 "blocked" \in {Banner("deployment_approval"), Banner("deployment_execution")}
     /\ at = "health" =>
          CheckHealthEnabled /\ ExecutionChosen = Len(executions)
     /\ at = "signoff" => \A audit \in Audits :
          \/ \E d \in SignoffsOffered(audit) : SignoffAccepted(d)
          \/ SignoffsOffered(audit) = {"completed"} /\ Banner("signoff_completed") = "blocked"
     /\ \A d \in Decisions :
          SignoffAccepted(d) => \A audit \in Audits : d \in SignoffsOffered(audit)

=============================================================================
