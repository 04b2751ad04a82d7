-------------------------------- MODULE RunPage --------------------------------
(***************************************************************************)
(* The run page of a run of RunLifecycle: what RunGuidance derives from    *)
(* the run's rows, next to what the approval handler would answer at the   *)
(* same moment.  A page is rendered in one synchronous block once its      *)
(* changed files are known, in the middle of whatever else is in flight.   *)
(***************************************************************************)
EXTENDS RunLifecycle

G == INSTANCE RunGuidance

Verdict(action) ==
  CASE action = "approve" -> "approved"
    [] action = "request_fix" -> "request_fix"
    [] action = "stop" -> "stopped"

StagesIn(row, state) == Cardinality({s \in Stages : row.stage[s] = state})

(* The currentStep of a run whose status is that of its newest decision.   *)
StepOf(row) ==
  CASE row.status = "completed" -> "approved_by_operator"
    [] /\ row.status = "failed" /\ ~Undecided(row)
       /\ LastDecision(row).action = "stop" -> "stopped_by_operator"
    [] OTHER -> "other"

(* buildRunWorkflowSummary, for a run nothing of which is published yet.   *)
(* The records come oldest first, and the first is taken for the latest.   *)
(* chain is what verifyAuditChainForRun answers; it depends on what other  *)
(* runs of the scope appended (AuditLedger), and is a parameter here.      *)
Summary(r, chain) ==
  LET row == db[r]
  IN [status |-> row.status, stepOf |-> StepOf(row),
      branch |-> row.branch,
      validation |-> row.plan.validation, execution |-> row.plan.execution,
      gates |-> row.gates,
      can |-> row.report.can,
      decision |-> IF Undecided(row) THEN "none" ELSE Verdict(row.decisions[1].action),
      evidence |-> row.evidence.present, replay |-> row.replay,
      policy |-> row.policy.status,
      stages |-> [approved |-> StagesIn(row, "approved"),
                  pending |-> StagesIn(row, "pending"),
                  rejected |-> StagesIn(row, "rejected")],
      pr |-> "none", prCommit |-> FALSE, merge |-> "none",
      approvals |-> 0, approval |-> "none", deployed |-> "none", probe |-> "none",
      health |-> "none", checklist |-> "none", signoff |-> "none",
      gated |-> {}, chain |-> chain]

(* What handleApprovalAction checks of an approval that arrives now. *)
Accepted(r, rationale) ==
  LET row == Evaluate(db[r])
  IN /\ ReportAllows(row)
     /\ PolicyAllows(row, rationale)
     /\ row.evidence.present
     /\ StagesAllow(row)

-----------------------------------------------------------------------------
(* Properties *)

(* The page judges by the policy result that is stored, the handler by one *)
(* it makes anew, and the page does not look whether there is a bundle:    *)
(* an approval that the card offers is accepted all the same, with the     *)
(* rationale the card asks for and no other, whatever pipelines, reviews   *)
(* and deaths went before; and so is one that the queue or the list of     *)
(* issues calls for while no issue speaks against it.  The audit chain of  *)
(* the run may verify or not.  What the page cannot know is that a death   *)
(* kept the policy from being evaluated after the last change.             *)
OfferedApprovalIsAccepted ==
  \A r \in Runs, chain \in BOOLEAN :
    LET s == Summary(r, chain) IN Exists(r) /\ "policy" \notin db[r].owed =>
    /\ G!ApprovalAvailable(s) => Accepted(r, G!RationaleAsked(s))
    /\ G!Queue(s) = "decide" /\ s.policy # "blocked" => Accepted(r, TRUE)
    /\ /\ "approval-pending" \in G!Issues(s)
       /\ G!Issues(s) \cap {"policy-blocked", "review-stages-rejected",
                            "review-stages-pending"} = {}
       => Accepted(r, FALSE)

=============================================================================
