--------------------------- MODULE DeploymentControl ---------------------------
(***************************************************************************)
(* From the merged pull request of a run to its release sign-off: the      *)
(* readiness checks and approvals of a deployment, the deployment scripts  *)
(* and health checks the Console runs, the health policy that judges       *)
(* them, the release checklist and the sign-off, with the optional hard    *)
(* gates in front of the approval, the execution and the sign-off.         *)
(*                                                                         *)
(* Only the scripts, the HTTP probes and the refresh of the evidence       *)
(* bundle are waited for; everything between two waits is one step.        *)
(*                                                                         *)
(* Scope: one run; its base branch is the one the environments require;    *)
(* every environment is active and has an executable deployment and health *)
(* profile; two rows of one table never carry the same timestamp.          *)
(***************************************************************************)
EXTENDS Naturals, Sequences, FiniteSets, ReleaseStanding

CONSTANTS
  Environments,
  Production,     \* those of type production
  NamedProduction, \* those whose name is "production"
  Reports,        \* the standings the run can have here, among Standings
  Audits,         \* the outcomes of the audit-chain check, among AuditChecks
  HardGates,      \* ENGINEER_CONSOLE_RELEASE_GATES_ENABLED
  MaxChecks,      \* bound: readiness checks
  MaxApprovals,   \* bound: deployment approvals, rejections included
  MaxExecutions,  \* bound: rows of engineer_deployment_executions
  MaxProbes,      \* bound: health checks
  MaxCrashes      \* bound: deaths of the server process

AuditChecks == {"passed", "warning", "failed"}

ASSUME EnvironmentsAssumption ==
  Production \subseteq Environments /\ NamedProduction \subseteq Environments
ASSUME ReportsAssumption == Reports \subseteq Standings /\ Audits \subseteq AuditChecks
ASSUME GatesAssumption == HardGates \in BOOLEAN
ASSUME BoundsAssumption == /\ MaxChecks \in Nat /\ MaxApprovals \in Nat
                           /\ MaxExecutions \in Nat /\ MaxProbes \in Nat
                           /\ MaxCrashes \in Nat

VARIABLES
  standing,    \* the governance of the run as the readiness checks read it
  published,   \* how far the run's pull request has come
  checks,      \* engineer_deployment_readiness_checks, oldest first
  approvals,   \* engineer_deployment_approvals, oldest first
  executions,  \* engineer_deployment_executions, oldest first
  probes,      \* engineer_deployment_health_checks, oldest first
  policy,      \* the newest of engineer_deployment_health_policy_results
  checklist,   \* status of the newest of engineer_release_checklists
  signoff,     \* decision of the newest of engineer_release_signoffs
  crashes,     \* deaths so far
  unjudged     \* history: executions that lost an evaluation of their health

vars == <<standing, published, checks, approvals, executions, probes, policy,
          checklist, signoff, crashes, unjudged>>

-----------------------------------------------------------------------------
(* Types *)

Published == {"nothing", "pr_failed", "pr_created", "merge_failed", "merged"}

Checks == [env : Environments, status : {"passed", "requires_review", "blocked"}]

Approvals == [check : 1..MaxChecks, decision : {"approved", "rejected"}, rationale : BOOLEAN]

(* step: what the handler that inserted the row waits for, or "done".      *)
Executions == [approval : 1..MaxApprovals,
               status : {"pending", "running", "succeeded", "failed"},
               step : {"script", "refresh", "done"}]

Probes == [execution : 1..MaxExecutions,
           status : {"running", "healthy", "unhealthy", "failed"},
           step : {"answer", "refresh", "done"}]

Judgements == {"not_checked", "needs_attention", "healthy", "unhealthy"}
Policies == [execution : 0..MaxExecutions, status : Judgements \cup {"none"}]

Checklists == {"none", "not_started", "needs_attention", "blocked", "complete"}
Decisions == {"completed", "completed_with_exceptions", "rejected"}

-----------------------------------------------------------------------------
(* Readiness, approval and the hard gates *)

(* evaluateDeploymentReadiness *)
Readiness(env) ==
  IF Unfit(standing) \/ ~ReplayPassed(standing) \/ published # "merged" THEN "blocked"
  ELSE IF standing.policy = "requires_review" \/ env \in Production THEN "requires_review"
  ELSE "passed"

(* collectChecklistBlockers *)
ChecklistStops == checklist \in {"none", "blocked"}

(* collectSignoffRejectionBlockers *)
RejectionStops == signoff = "rejected"

(* collectHealthPolicyCompletionBlockers *)
HealthStops == policy.status = "unhealthy"

GateStopsDeployment ==
  HardGates /\ (HardBlocked(standing) \/ ChecklistStops \/ RejectionStops)

EnvOf(a) == checks[approvals[a].check].env

Has(a, status) ==
  \E e \in 1..Len(executions) : executions[e].approval = a /\ executions[e].status = status

(* evaluateDeploymentExecutionReadiness: what an approval stands on is     *)
(* looked at again when it is used.                                        *)
ExecutionReady(a) ==
  LET check == checks[approvals[a].check]
  IN /\ approvals[a].decision = "approved"
     /\ check.status # "blocked"
     /\ check.status = "requires_review" => approvals[a].rationale
     /\ Readiness(EnvOf(a)) # "blocked"
     /\ ~Has(a, "succeeded")

-----------------------------------------------------------------------------
(* Health policy *)

Last(s) == CHOOSE i \in s : \A j \in s : j <= i

ProbesOf(e) == {h \in 1..Len(probes) : probes[h].execution = e}

(* Mutant: the oldest health check is taken, as ORDER BY ... ASC would. *)
LatestProbeAscending(e) == CHOOSE h \in ProbesOf(e) : \A g \in ProbesOf(e) : h <= g

(* latestHealthCheckForExecution *)
LatestProbe(e) == Last(ProbesOf(e))

(* By name, where the readiness checks go by the type. *)
InProduction(e) == EnvOf(executions[e].approval) \in NamedProduction

(* evaluateDeploymentHealthPolicy for one execution *)
Judgement(e) ==
  IF executions[e].status # "succeeded" THEN "not_checked"
  ELSE IF ProbesOf(e) = {}
       THEN (IF InProduction(e) THEN "needs_attention" ELSE "not_checked")
  ELSE LET answer == probes[LatestProbe(e)].status
       IN IF answer \in {"healthy", "unhealthy"} THEN answer ELSE "needs_attention"

Judges(e) == policy' = [execution |-> e, status |-> Judgement(e)]

Succeeded == {e \in 1..Len(executions) : executions[e].status = "succeeded"}

-----------------------------------------------------------------------------
(* The release checklist *)

LifecycleStarted == published # "nothing" \/ checks # <<>> \/ executions # <<>>

ApprovedItem ==
  IF standing.approved THEN "complete"
  ELSE IF LifecycleStarted THEN "blocked" ELSE "not_started"

EvidenceItem ==
  IF standing.evidence THEN "complete"
  ELSE IF LifecycleStarted \/ standing.approved \/ standing.policy # "none"
       THEN "blocked" ELSE "not_started"

PolicyItem ==
  CASE standing.policy = "none" -> IF LifecycleStarted THEN "needs_attention" ELSE "not_started"
    [] standing.policy = "blocked" -> "blocked"
    [] standing.policy \in {"requires_review", "warning"} -> "needs_attention"
    [] standing.policy = "passed" -> "complete"

ReviewsItem ==
  CASE standing.reviews = "none" -> "not_started"
    [] Unsettled(standing) -> "blocked"
    [] standing.reviews = "approved" -> "complete"

ReplayItem ==
  CASE standing.replay = "none" -> IF LifecycleStarted THEN "needs_attention" ELSE "not_started"
    [] standing.replay = "failed" -> "blocked"
    [] standing.replay = "warning" -> "needs_attention"
    [] ReplayPassed(standing) -> "complete"

PrItem ==
  CASE published = "nothing" -> "not_started"
    [] published = "pr_failed" -> "needs_attention"
    [] OTHER -> "complete"

MergeItem ==
  CASE published \in {"nothing", "pr_failed"} -> "not_started"
    [] published = "pr_created" -> "needs_attention"
    [] published = "merge_failed" -> "blocked"
    [] published = "merged" -> "complete"

(* The newest approval, whichever environment it is for. *)
DeploymentApprovedItem ==
  IF approvals # <<>>
  THEN IF approvals[Len(approvals)].decision = "approved" THEN "complete" ELSE "blocked"
  ELSE IF checks # <<>> \/ published = "merged" THEN "needs_attention" ELSE "not_started"

DeploymentExecutedItem ==
  IF executions # <<>> THEN "complete"
  ELSE IF DeploymentApprovedItem = "complete" THEN "needs_attention" ELSE "not_started"

(* Any execution that succeeded, else the newest. *)
DeploymentSucceededItem ==
  IF executions = <<>> THEN "not_started"
  ELSE IF Succeeded # {} THEN "complete" ELSE "blocked"

(* The newest health check, whichever execution it is of. *)
HealthCheckItem ==
  IF probes = <<>> THEN IF Succeeded # {} THEN "needs_attention" ELSE "not_started"
  ELSE IF probes[Len(probes)].status = "healthy" THEN "complete" ELSE "needs_attention"

HealthPolicyItem ==
  CASE policy.status = "none" -> IF Succeeded # {} THEN "needs_attention" ELSE "not_started"
    [] policy.status \in {"healthy", "not_checked"} -> "complete"
    [] OTHER -> "needs_attention"

AuditItem(audit) ==
  CASE audit = "passed" -> "complete"
    [] audit = "warning" -> "needs_attention"
    [] audit = "failed" -> "blocked"

GovernanceItems == {ApprovedItem, EvidenceItem, PolicyItem, ReviewsItem, ReplayItem}
DeploymentItems == {DeploymentApprovedItem, DeploymentExecutedItem, DeploymentSucceededItem,
                    HealthCheckItem, HealthPolicyItem}
Actionable == GovernanceItems \cup {PrItem, MergeItem} \cup DeploymentItems

(* Mutant: the health of the deployment is left to the policy item. *)
ChecklistStatusWithoutProbe(audit) ==
  LET items == GovernanceItems \cup {PrItem, MergeItem, AuditItem(audit)}
                 \cup {DeploymentApprovedItem, DeploymentExecutedItem,
                       DeploymentSucceededItem, HealthPolicyItem}
  IN IF "blocked" \in items THEN "blocked"
     ELSE IF items = {"complete"} THEN "complete" ELSE "needs_attention"

(* deriveOverallStatus; every item that can be blocked is of high or       *)
(* critical severity.                                                      *)
ChecklistStatus(audit) ==
  LET items == Actionable \cup {AuditItem(audit)}
  IN IF ~LifecycleStarted /\ Actionable = {"not_started"} THEN "not_started"
     ELSE IF "blocked" \in items THEN "blocked"
     ELSE IF HealthPolicyItem = "needs_attention" THEN "needs_attention"
     ELSE IF ~LifecycleStarted /\ ~standing.approved /\ ~standing.evidence THEN "not_started"
     ELSE IF "needs_attention" \in items THEN "needs_attention"
     ELSE IF items = {"complete"} THEN "complete"
     ELSE IF LifecycleStarted THEN "needs_attention" ELSE "not_started"

-----------------------------------------------------------------------------
(* Actions *)

Init ==
  /\ standing \in Reports
  /\ published = "nothing"
  /\ checks = <<>> /\ approvals = <<>> /\ executions = <<>> /\ probes = <<>>
  /\ policy = [execution |-> 0, status |-> "none"]
  /\ checklist = "none"
  /\ signoff = "none"
  /\ crashes = 0
  /\ unjudged = {}

(* The rest of the Console: reviews, policy results, replay verifications. *)
Govern ==
  /\ standing' \in Reports
  /\ UNCHANGED <<published, checks, approvals, executions, probes, policy, checklist,
                 signoff, crashes, unjudged>>

(* createPrRequest and createMergeRequest, of which PullRequests has the   *)
(* detail: the newest rows' statuses are what is read here.                *)
Publish ==
  /\ \/ published \in {"nothing", "pr_failed"} /\ published' \in {"pr_failed", "pr_created"}
     \/ published \in {"pr_created", "merge_failed"} /\ published' \in {"merge_failed", "merged"}
  /\ UNCHANGED <<standing, checks, approvals, executions, probes, policy, checklist,
                 signoff, crashes, unjudged>>

CheckReadiness(env) ==
  /\ Len(checks) < MaxChecks
  /\ checks' = Append(checks, [env |-> env, status |-> Readiness(env)])
  /\ UNCHANGED <<standing, published, approvals, executions, probes, policy, checklist,
                 signoff, crashes, unjudged>>

(* What createDeploymentApproval wants of an approval: the run is judged   *)
(* again.                                                                  *)
Approvable(c, rationale) ==
  LET now == Readiness(checks[c].env)
  IN /\ ~GateStopsDeployment
     /\ checks[c].status # "blocked" /\ now # "blocked"
     /\ "requires_review" \in {now, checks[c].status} \/ checks[c].env \in Production => rationale

(* createDeploymentApproval with "approved"; the refresh of the evidence   *)
(* and the audit event come after the row.                                 *)
ApproveDeployment(c, rationale) ==
  /\ Len(approvals) < MaxApprovals
  /\ Approvable(c, rationale)
  /\ approvals' = Append(approvals,
       [check |-> c, decision |-> "approved", rationale |-> rationale])
  /\ UNCHANGED <<standing, published, checks, executions, probes, policy, checklist,
                 signoff, crashes, unjudged>>

(* Whatever the check says; nothing reads a rejection's rationale. *)
RejectDeployment(c) ==
  /\ Len(approvals) < MaxApprovals
  /\ approvals' = Append(approvals,
       [check |-> c, decision |-> "rejected", rationale |-> FALSE])
  /\ UNCHANGED <<standing, published, checks, executions, probes, policy, checklist,
                 signoff, crashes, unjudged>>

(* Mutant: only a success stops another execution of the approval. *)
ExecuteWithoutRunningCheck(a) ==
  /\ Len(executions) < MaxExecutions
  /\ ~GateStopsDeployment
  /\ ExecutionReady(a)
  /\ executions' = Append(executions,
       [approval |-> a, status |-> "running", step |-> "script"])
  /\ UNCHANGED <<standing, published, checks, approvals, probes, policy, checklist,
                 signoff, crashes, unjudged>>

(* createDeploymentExecution up to the start of the script.  The row comes *)
(* first: one that is refused for a running script stays "pending".        *)
Execute(a) ==
  /\ Len(executions) < MaxExecutions
  /\ ~GateStopsDeployment
  /\ ExecutionReady(a)
  /\ executions' = Append(executions,
       IF Has(a, "running") THEN [approval |-> a, status |-> "pending", step |-> "done"]
       ELSE [approval |-> a, status |-> "running", step |-> "script"])
  /\ UNCHANGED <<standing, published, checks, approvals, probes, policy, checklist,
                 signoff, crashes, unjudged>>

(* Exit code 0 within the time limit, or anything else: a script past the  *)
(* limit is killed, and its end awaited.                                   *)
ScriptOutcomes == {"succeeded", "failed"}

ScriptEnds(e) ==
  /\ executions[e].step = "script"
  /\ \E status \in ScriptOutcomes :
       executions' = [executions EXCEPT ![e].status = status, ![e].step = "refresh"]
  /\ UNCHANGED <<standing, published, checks, approvals, probes, policy, checklist,
                 signoff, crashes, unjudged>>

(* The script could not be started: nothing is evaluated. *)
ScriptThrows(e) ==
  /\ executions[e].step = "script"
  /\ executions' = [executions EXCEPT ![e].status = "failed", ![e].step = "done"]
  /\ UNCHANGED <<standing, published, checks, approvals, probes, policy, checklist,
                 signoff, crashes, unjudged>>

(* After the refresh of the evidence the execution's health is judged; a   *)
(* refresh that throws takes the evaluation with it.                       *)
JudgeExecution(e) ==
  /\ executions[e].step = "refresh"
  /\ executions' = [executions EXCEPT ![e].step = "done"]
  /\ \/ Judges(e) /\ unjudged' = unjudged \ {e}
     \/ unjudged' = unjudged \cup {e} /\ UNCHANGED policy
  /\ UNCHANGED <<standing, published, checks, approvals, probes, checklist, signoff, crashes>>

(* evaluateDeploymentHealthCheckReadiness *)
HealthCheckReady(e) == executions[e].status = "succeeded"

(* createDeploymentHealthCheck up to the probe *)
CheckHealth(e) ==
  /\ Len(probes) < MaxProbes
  /\ HealthCheckReady(e)
  /\ probes' = Append(probes, [execution |-> e, status |-> "running", step |-> "answer"])
  /\ UNCHANGED <<standing, published, checks, approvals, executions, policy, checklist,
                 signoff, crashes, unjudged>>

(* The expected HTTP status, another one, or no answer within the limit. *)
ProbeOutcomes == {"healthy", "unhealthy", "failed"}

ProbeAnswers(h) ==
  /\ probes[h].step = "answer"
  /\ \E status \in ProbeOutcomes :
       probes' = [probes EXCEPT ![h].status = status, ![h].step = "refresh"]
  /\ UNCHANGED <<standing, published, checks, approvals, executions, policy, checklist,
                 signoff, crashes, unjudged>>

JudgeProbe(h) ==
  LET e == probes[h].execution
  IN /\ probes[h].step = "refresh"
     /\ probes' = [probes EXCEPT ![h].step = "done"]
     /\ \/ Judges(e) /\ unjudged' = unjudged \ {e}
        \/ unjudged' = unjudged \cup {e} /\ UNCHANGED policy
     /\ UNCHANGED <<standing, published, checks, approvals, executions, checklist,
                    signoff, crashes>>

(* runDeploymentHealthPolicyEvaluation asked for by hand: the newest       *)
(* execution that succeeded.                                               *)
EvaluateHealthPolicy ==
  /\ IF Succeeded = {}
     THEN policy' = [execution |-> 0, status |-> "not_checked"] /\ UNCHANGED unjudged
     ELSE Judges(Last(Succeeded)) /\ unjudged' = unjudged \ {Last(Succeeded)}
  /\ UNCHANGED <<standing, published, checks, approvals, executions, probes, checklist,
                 signoff, crashes>>

EvaluateChecklist ==
  /\ \E audit \in Audits : checklist' = ChecklistStatus(audit)
  /\ UNCHANGED <<standing, published, checks, approvals, executions, probes, policy,
                 signoff, crashes, unjudged>>

(* validateReleaseSignoffDecision, given a rationale *)
ChecklistAllows(decision) ==
  CASE decision = "completed" -> checklist = "complete"
    [] decision = "completed_with_exceptions" -> checklist = "needs_attention"
    [] decision = "rejected" -> checklist # "complete"

(* The gate of completed_with_exceptions asks for the same again; a        *)
(* rejection is not gated.                                                 *)
GateStopsSignoff(decision) ==
  /\ HardGates /\ decision = "completed"
  /\ ChecklistStops \/ checklist # "complete" \/ HealthStops \/ RejectionStops

(* What createReleaseSignoff wants; the checklist is the persisted one. *)
SignoffAccepted(decision) ==
  /\ checklist # "none"
  /\ ~GateStopsSignoff(decision)
  /\ ChecklistAllows(decision)
  /\ standing.evidence

SignOff(decision) ==
  /\ SignoffAccepted(decision)
  /\ signoff' = decision
  /\ UNCHANGED <<standing, published, checks, approvals, executions, probes, policy,
                 checklist, crashes, unjudged>>

(* The handlers in flight end where they are; their rows stay.  A script   *)
(* may go on without the Console, whose row says "running" from now on.    *)
Crash ==
  /\ crashes < MaxCrashes
  /\ crashes' = crashes + 1
  /\ unjudged' = unjudged
       \cup {e \in 1..Len(executions) : executions[e].step # "done"}
       \cup {probes[h].execution : h \in {i \in 1..Len(probes) : probes[i].step # "done"}}
  /\ executions' = [e \in 1..Len(executions) |-> [executions[e] EXCEPT !.step = "done"]]
  /\ probes' = [h \in 1..Len(probes) |-> [probes[h] EXCEPT !.step = "done"]]
  /\ UNCHANGED <<standing, published, checks, approvals, policy, checklist, signoff>>

Next ==
  \/ Govern \/ Publish \/ EvaluateHealthPolicy \/ EvaluateChecklist
  \/ Crash
  \/ \E decision \in Decisions : SignOff(decision)
  \/ \E env \in Environments : CheckReadiness(env)
  \/ \E c \in 1..Len(checks) :
       RejectDeployment(c) \/ \E rationale \in BOOLEAN : ApproveDeployment(c, rationale)
  \/ \E a \in 1..Len(approvals) : Execute(a)
  \/ \E e \in 1..Len(executions) :
       ScriptEnds(e) \/ ScriptThrows(e) \/ JudgeExecution(e) \/ CheckHealth(e)
  \/ \E h \in 1..Len(probes) : ProbeAnswers(h) \/ JudgeProbe(h)

Spec == Init /\ [][Next]_vars

-----------------------------------------------------------------------------
(* Properties *)

(* Every row has the shape its table and its handler give it. *)
TypeOK ==
  /\ standing \in Standings
  /\ published \in Published
  /\ checks \in Seq(Checks)
  /\ approvals \in Seq(Approvals)
  /\ executions \in Seq(Executions)
  /\ probes \in Seq(Probes)
  /\ policy \in Policies
  /\ checklist \in Checklists
  /\ signoff \in Decisions \cup {"none"}
  /\ crashes \in 0..MaxCrashes
  /\ unjudged \subseteq 1..MaxExecutions

(* An approval is good for one deployment: once a script of it has         *)
(* started, no other starts unless that one is known to have failed, with  *)
(* two requests at once and after a death of the Console too.  The table   *)
(* has no unique constraint that would say so.                             *)
OneDeploymentPerApproval ==
  \A e, f \in 1..Len(executions) :
    /\ executions[e].approval = executions[f].approval
    /\ {executions[e].status, executions[f].status} \subseteq {"running", "succeeded"}
    => e = f

InFlight(e) ==
  \/ executions[e].step # "done"
  \/ \E h \in ProbesOf(e) : probes[h].step # "done"

(* When no handler of an execution is left to run and none lost its        *)
(* evaluation, a health policy result about that execution says what its   *)
(* newest health check found, however the answers of the checks arrived.   *)
PolicyFollowsNewestProbe ==
  LET e == policy.execution
  IN /\ policy.status # "none" /\ e # 0 /\ e \notin unjudged
     /\ ~InFlight(e)
     => \A h \in ProbesOf(e) :
          (\A g \in ProbesOf(e) : g <= h)
            => \A status \in {"healthy", "unhealthy"} :
                 probes[h].status = status <=> policy.status = status

(* A release that is signed off as completed was merged, deployed under an *)
(* approval, and answered a health check: the sign-off looks at nothing    *)
(* but the latest checklist, which may be older than everything else, and  *)
(* with the hard gates at the health policy.                               *)
CompletedWasDeployedHealthy ==
  signoff = "completed" =>
    /\ published = "merged"
    /\ \E h \in 1..Len(probes) :
         LET e == executions[probes[h].execution]
         IN /\ probes[h].status = "healthy"
            /\ e.status = "succeeded"
            /\ approvals[e.approval].decision = "approved"

=============================================================================
