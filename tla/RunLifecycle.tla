---------------------------- MODULE RunLifecycle ----------------------------
(***************************************************************************)
(* The governed life of an engineering run: the default pipeline           *)
(* (executeRun), worker-plan submissions, review stages, policy            *)
(* evaluation, replay verification, evidence bundles and the operator's    *)
(* approve / request fix / stop.                                           *)
(*                                                                         *)
(* Every request handler is an async function on one Node event loop over  *)
(* a synchronous SQLite client.  A step of this module is what a handler   *)
(* does between two awaits that wait for a child process or for git; an    *)
(* await whose promise is already resolved only yields a microtask, in     *)
(* which no other handler can be resumed, so it does not end a step.       *)
(*                                                                         *)
(* The writes of such a block are statements of their own, in no           *)
(* transaction.  A process that dies among them leaves the first ones      *)
(* behind: the actions whose names begin with Die (and Crash, between      *)
(* RecordDecision and Conclude) are the blocks cut short, one after each   *)
(* of their writes.  owed, a history field of the row, is what such blocks *)
(* had still to write of the run and nothing has written since.            *)
(*                                                                         *)
(* Scope: tasks that name a repository path that is not registered (no     *)
(* file index, no compatibility findings), no model drafts, the built-in   *)
(* policy, and runs that were not started by Vera.  All runs share one     *)
(* working tree.                                                           *)
(***************************************************************************)
EXTENDS Naturals, Sequences, FiniteSets

CONSTANTS
  Runs,          \* run ids
  Tasks,         \* task ids
  TaskOf,        \* the task each run was created for
  Handlers,      \* requests (and background pipelines) in flight at once
  None,          \* no run
  InitialTrees,  \* the sets of tracked files that may be dirty at the start
  PlanFiles,     \* the kinds of file a worker plan may write
  Outcomes,      \* what the quality gates may report, among GateOutcomes
  MaxRequests,   \* bound: handlers started in a behaviour
  MaxCrashes     \* bound: deaths of the server process

(* What the rules tell apart in a changed path; "bulk" stands for a change *)
(* set of more than twenty files.                                          *)
FileKinds == {"plain", "bulk", "lockfile", "migration", "protected"}

Stages == {"architecture_review", "implementation_review",
           "risky_diff_review", "release_readiness_review"}

NoGates == [passed |-> 0, failed |-> 0, skipped |-> 0]

(* What the quality-gate runner may report: one entry stands for all the   *)
(* scripts of the package, the last one for a package without scripts.     *)
GateOutcomes == {[NoGates EXCEPT !.passed = 1], [NoGates EXCEPT !.failed = 1],
                 [NoGates EXCEPT !.skipped = 1]}

ASSUME RunAssumption == None \notin Runs /\ TaskOf \in [Runs -> Tasks]
ASSUME TreeAssumption == InitialTrees \subseteq SUBSET FileKinds
                         /\ PlanFiles \subseteq FileKinds
ASSUME OutcomeAssumption == Outcomes \subseteq GateOutcomes
ASSUME BoundAssumption == MaxRequests \in Nat /\ MaxCrashes \in Nat

VARIABLES
  task,      \* engineering_tasks.status
  db,        \* per run, the rows of every table keyed by the run
  tree,      \* dirty files of the shared working tree
  handler,   \* the local state of each handler in flight
  requests,  \* handlers started so far
  crashes    \* process deaths so far

vars == <<task, db, tree, handler, requests, crashes>>

-----------------------------------------------------------------------------
(* Types *)

Working == {"preparing_workspace", "creating_branch", "generating_patch",
            "applying_patch", "validating_worker_plan", "executing_worker_plan",
            "running_quality_gates"}
RunStatus == Working \cup {"absent", "pending", "waiting_for_approval",
                           "completed", "failed"}
TaskStatus == {"draft", "queued", "running", "waiting_for_approval",
               "approved", "failed", "stopped"}
Risks == {"none", "low", "medium", "high", "blocked"}
Gates == [passed : Nat, failed : Nat, skipped : Nat]
Actions == {"approve", "request_fix", "stop"}

Reports == [made : BOOLEAN, can : BOOLEAN, files : SUBSET FileKinds]
Policies == [status : {"none", "passed", "warning", "requires_review", "blocked"},
             migration : BOOLEAN]
Bundles == [present : BOOLEAN, status : RunStatus, risk : Risks,
            gates : Gates, late : BOOLEAN]
Plans == [validation : {"none", "pending", "valid", "invalid"},
          execution : {"none", "pending", "skipped", "executed", "failed"}]
StageStates == {"absent", "pending", "approved", "rejected"}
Writes == {"report", "policy", "evidence", "task"}

(* A decision record.  existing and unreviewed stand for the comparison of *)
(* a stage's createdAt and completedAt with the record's createdAt; seen   *)
(* is history: the stages the approval's own gate had looked at.           *)
Decisions == [action : Actions, can : BOOLEAN, existing : SUBSET Stages,
              unreviewed : SUBSET Stages, seen : SUBSET Stages]

Rows == [status : RunStatus, risk : Risks, branch : BOOLEAN, gates : Gates,
         report : Reports, policy : Policies, stage : [Stages -> StageStates],
         evidence : Bundles, replay : {"none", "passed", "warning", "failed"},
         plan : Plans, decisions : Seq(Decisions), owed : SUBSET Writes]

Trees == [tracked : SUBSET FileKinds, untracked : SUBSET FileKinds]

(* What a handler read of the run before it waited. *)
Snapshots == [status : RunStatus, risk : Risks]

HandlerStates ==
  [pc : {"idle", "verify_git", "create_branch", "changed_files", "plan_git",
         "plan_changed_files", "quality_gates", "action_refresh", "decided",
         "refresh"},
   run : Runs \cup {None},
   was : Snapshots,
   files : SUBSET FileKinds,
   action : Actions,
   seen : SUBSET Stages]

EmptyRow ==
  [status |-> "absent", risk |-> "none", branch |-> FALSE, gates |-> NoGates,
   report |-> [made |-> FALSE, can |-> FALSE, files |-> {}],
   policy |-> [status |-> "none", migration |-> FALSE],
   stage |-> [s \in Stages |-> "absent"],
   evidence |-> [present |-> FALSE, status |-> "absent", risk |-> "none",
                 gates |-> NoGates, late |-> FALSE],
   replay |-> "none",
   plan |-> [validation |-> "none", execution |-> "none"],
   decisions |-> <<>>, owed |-> {}]

Idle == [pc |-> "idle", run |-> None,
         was |-> [status |-> "absent", risk |-> "none"],
         files |-> {}, action |-> "stop", seen |-> {}]

-----------------------------------------------------------------------------
(* The rules, as functions of one run's rows *)

(* assessChangedFiles: the highest severity any changed file reaches. *)
RiskOf(files) ==
  CASE "protected" \in files -> "blocked"
    [] "protected" \notin files /\ files \cap {"lockfile", "migration"} # {} -> "high"
    [] files \cap {"protected", "lockfile", "migration"} = {} /\ "bulk" \in files -> "medium"
    [] OTHER -> "low"

OnlySkipped(g) == g.skipped > 0 /\ g.passed = 0 /\ g.failed = 0

PolicyBlocks(row) ==
  \/ row.plan.validation = "invalid"
  \/ row.risk = "blocked"
  \/ row.gates.failed > 0
  \/ row.replay = "failed"
  \/ /\ ~row.evidence.present
     /\ row.status \in {"waiting_for_approval", "completed"}

PolicyWantsReview(row) ==
  \/ row.risk = "high"
  \/ row.report.files \cap {"lockfile", "migration"} # {}
  \/ OnlySkipped(row.gates)
  \/ (row.status = "waiting_for_approval" /\ row.replay = "none")

PolicyWarns(row) ==
  "bulk" \in row.report.files \/ row.replay = "warning" \/ row.evidence.late

PolicyStatus(row) ==
  IF PolicyBlocks(row) THEN "blocked"
  ELSE IF PolicyWantsReview(row) THEN "requires_review"
  ELSE IF PolicyWarns(row) THEN "warning"
  ELSE "passed"

(* runPolicyEvaluation: evaluate and persist. *)
Evaluate(row) ==
  [row EXCEPT !.policy = [status |-> PolicyStatus(row),
                          migration |-> "migration" \in row.report.files],
              !.owed = @ \ {"policy"}]

(* determineRequiredReviewStages reads the policy result that is stored. *)
Signals(row) ==
  [architecture_review |->
     "migration" \in row.report.files
       \/ (row.policy.status = "requires_review" /\ row.policy.migration),
   implementation_review |->
     row.plan.execution = "executed" /\ row.report.files # {},
   risky_diff_review |->
     row.report.files \cap {"lockfile", "migration", "bulk"} # {}
       \/ row.risk \in {"high", "blocked"},
   release_readiness_review |->
     \/ OnlySkipped(row.gates)
     \/ row.gates.failed > 0
     \/ row.replay \in {"warning", "failed"}
     \/ row.policy.status = "requires_review"
     \/ row.evidence.late]

(* reconcileReviewStagesForRun adds what is missing and touches nothing    *)
(* else, one insert per stage.                                             *)
ReconcileOnly(row, some) ==
  [row EXCEPT !.stage = [s \in Stages |->
     IF row.stage[s] = "absent" /\ s \in some /\ Signals(row)[s]
     THEN "pending" ELSE row.stage[s]]]

Reconcile(row) == ReconcileOnly(row, Stages)

(* The stages that have been dealt with when the process dies before the   *)
(* last one: they are inserted in the order of Stages.                     *)
FirstStages == {{}, {"architecture_review"},
                {"architecture_review", "implementation_review"},
                {"architecture_review", "implementation_review", "risky_diff_review"}}

SnapshotOf(row) == [status |-> row.status, risk |-> row.risk]

(* refreshRunEvidenceBundle: the run as it was read before the wait, every *)
(* other table as it is now.  late: the bundle is younger than the latest  *)
(* decision record.                                                        *)
BundleRisk(row, was) ==
  IF was.risk = "none" /\ row.report.made THEN RiskOf(row.report.files) ELSE was.risk

Upsert(row, was) ==
  [row EXCEPT !.evidence = [present |-> TRUE, status |-> was.status,
                            risk |-> BundleRisk(row, was), gates |-> row.gates,
                            late |-> row.decisions # <<>>],
              !.owed = @ \ {"evidence"}]

Existing(row) == {s \in Stages : row.stage[s] # "absent"}
Unapproved(row) == {s \in Existing(row) : row.stage[s] # "approved"}

LastDecision(row) == row.decisions[Len(row.decisions)]
Approvals(row) == {i \in DOMAIN row.decisions : row.decisions[i].action = "approve"}
FinalApprovals(row) == {i \in Approvals(row) : \A j \in Approvals(row) : j <= i}
Undecided(row) == row.decisions = <<>>

(* verifyRunReplay: the checks that fail and the checks that warn. *)
ReplayFails(row) ==
  \/ /\ ~row.evidence.present
     /\ row.status \in {"waiting_for_approval", "completed", "failed"}
        \/ ~Undecided(row)
  \/ \E i \in Approvals(row) : ~row.decisions[i].can
  \/ \E i \in FinalApprovals(row) : row.decisions[i].unreviewed # {}
  \/ row.evidence.present /\ row.evidence.gates # row.gates
  \/ /\ ~Undecided(row)
     /\ LastDecision(row).action = "approve"
     /\ row.status # "completed"

ReplayWarns(row) ==
  \/ Undecided(row)
  \/ ~row.evidence.present
  \/ Len(row.decisions) > 1 \/ row.evidence.late
  \/ /\ \E i \in FinalApprovals(row) : row.decisions[i].existing # {}
     /\ \E s \in Stages : row.stage[s] = "pending"
  \/ /\ row.evidence.present /\ row.evidence.risk # row.risk
     /\ "none" \notin {row.evidence.risk, row.risk}
  \/ (LastDecision(row).action # "approve" /\ row.status # "failed")

ReplayStatus(row) ==
  IF ReplayFails(row) THEN "failed" ELSE IF ReplayWarns(row) THEN "warning" ELSE "passed"

AddGates(g, result) == [passed |-> g.passed + result.passed,
                        failed |-> g.failed + result.failed,
                        skipped |-> g.skipped + result.skipped]

FinalStatus(files, result) ==
  IF result.failed > 0 \/ RiskOf(files) = "blocked" THEN "failed" ELSE "waiting_for_approval"

(* buildApprovalReport over the stored gates, this pipeline's own included. *)
ReportOf(files, status, gates) ==
  [made |-> TRUE, files |-> files,
   can |-> RiskOf(files) # "blocked" /\ gates.failed = 0
             /\ status = "waiting_for_approval"]

Owing(row, writes) == [row EXCEPT !.owed = @ \cup writes]
TaskTold(row) == [row EXCEPT !.owed = @ \ {"task"}]

(* The block both pipelines end in, once the gates have run: the gates are *)
(* saved, then the run, the report, the policy result, the stages, the     *)
(* evidence bundle and, by the caller, the task.                           *)
SaveGates(row, result) == [row EXCEPT !.gates = AddGates(@, result)]

SaveStatus(row, files, result) ==
  [row EXCEPT !.status = FinalStatus(files, result), !.risk = RiskOf(files)]

SaveReport(row, files) ==
  [row EXCEPT !.report = ReportOf(files, row.status, row.gates),
              !.owed = @ \ {"report"}]

Reported(row, files, result) ==
  SaveReport(SaveStatus(SaveGates(row, result), files, result), files)

Finalize(row, files, result) ==
  LET staged == Reconcile(Evaluate(Reported(row, files, result)))
  IN  TaskTold(Upsert(staged, SnapshotOf(staged)))

(* What a death among these writes can leave. *)
FinalizeCut(row, files, result) ==
  LET owing  == Owing(row, Writes)
      gated  == SaveGates(owing, result)
      judged == Evaluate(Reported(owing, files, result))
      staged == Reconcile(judged)
  IN  {gated, SaveStatus(gated, files, result), Reported(owing, files, result),
       Upsert(staged, SnapshotOf(staged))}
        \cup {ReconcileOnly(judged, some) : some \in FirstStages}

(* recordDecisionForApprovalAction, after the bundle was refreshed.        *)
Decide(row, action, seen) ==
  [row EXCEPT !.decisions = Append(@, [action |-> action, can |-> row.report.can,
                                       existing |-> Existing(row),
                                       unreviewed |-> Unapproved(row),
                                       seen |-> seen]),
              !.evidence.late = FALSE]

(* What handleApprovalAction checks before it waits. *)
ReportAllows(row) == row.report.made => row.report.can
PolicyAllows(row, rationale) ==
  /\ row.policy.status # "blocked"
  /\ row.policy.status = "requires_review" => rationale

(* Mutant: only a rejected stage blocks. *)
NoStageRejected(row) == \A s \in Stages : row.stage[s] # "rejected"

StagesAllow(row) == Unapproved(row) = {}

-----------------------------------------------------------------------------
(* Handlers *)

(* A synchronous block that is under way owns the event loop. *)
LoopFree == \A h \in Handlers : handler[h].pc # "decided"

At(h, pc) == handler[h].pc = pc /\ LoopFree

Exists(r) == db[r].status # "absent"

Arrive == requests < MaxRequests /\ requests' = requests + 1

(* A request arrives, runs up to its first wait and leaves its row there.  *)
Open(h, r, pc, row, fields) ==
  /\ At(h, "idle")
  /\ Arrive
  /\ db' = [db EXCEPT ![r] = row]
  /\ handler' = [handler EXCEPT ![h] =
                   [fields EXCEPT !.pc = pc, !.run = r, !.was = SnapshotOf(row)]]
  /\ UNCHANGED <<tree, crashes>>

Goto(h, pc) == handler' = [handler EXCEPT ![h].pc = pc]
Return(h) == handler' = [handler EXCEPT ![h] = Idle]

(* The rest of a handler whose last wait is the refresh of the evidence.   *)
AwaitRefresh(h, row) ==
  handler' = [handler EXCEPT ![h] =
               [Idle EXCEPT !.pc = "refresh", !.run = handler[h].run,
                            !.was = SnapshotOf(row)]]

SetRow(h, row) == db' = [db EXCEPT ![handler[h].run] = row]
SetTask(r, st) == task' = [task EXCEPT ![TaskOf[r]] = st]
RowOf(h) == db[handler[h].run]

Init ==
  /\ task = [t \in Tasks |-> "draft"]
  /\ db = [r \in Runs |-> EmptyRow]
  /\ \E files \in InitialTrees : tree = [tracked |-> files, untracked |-> {}]
  /\ handler = [h \in Handlers |-> Idle]
  /\ requests = 0
  /\ crashes = 0

-----------------------------------------------------------------------------
(* The default pipeline *)

(* POST tasks/:id/runs: createRun, then executeRun up to verifyGitRepo. *)
StartRun(h, r) ==
  /\ ~Exists(r)
  /\ Open(h, r, "verify_git", [db[r] EXCEPT !.status = "preparing_workspace"], Idle)
  /\ SetTask(r, "running")

(* The repository is there: name the branch and try to create it. *)
CreateBranch(h) ==
  /\ At(h, "verify_git")
  /\ SetRow(h, [RowOf(h) EXCEPT !.status = "creating_branch", !.branch = TRUE])
  /\ Goto(h, "create_branch")
  /\ UNCHANGED <<task, tree, requests, crashes>>

(* git checkout -b ended, well or not; the agent worker is a stub that does *)
(* not wait, so generating_patch is passed through.                         *)
ApplyPatch(h) ==
  /\ At(h, "create_branch")
  /\ SetRow(h, [RowOf(h) EXCEPT !.status = "applying_patch"])
  /\ Goto(h, "changed_files")
  /\ UNCHANGED <<task, tree, requests, crashes>>

(* All dirty files, whoever made them, are this run's changed files. *)
AssessChanges(h) ==
  LET files == tree.tracked \cup tree.untracked IN
  /\ At(h, "changed_files")
  /\ SetRow(h, [RowOf(h) EXCEPT !.status = "running_quality_gates",
                                !.risk = RiskOf(files)])
  /\ handler' = [handler EXCEPT ![h].pc = "quality_gates", ![h].files = files]
  /\ UNCHANGED <<task, tree, requests, crashes>>

(* The gates of either pipeline ended. *)
FinishPipeline(h) ==
  /\ At(h, "quality_gates")
  /\ \E result \in Outcomes :
       /\ SetRow(h, Finalize(RowOf(h), handler[h].files, result))
       /\ SetTask(handler[h].run, FinalStatus(handler[h].files, result))
  /\ Return(h)
  /\ UNCHANGED <<tree, requests, crashes>>

(* Mutant: the exception is not caught. *)
FailRunUncaught(h) ==
  /\ At(h, "verify_git") \/ At(h, "changed_files")
  /\ Return(h)
  /\ UNCHANGED <<task, db, tree, requests, crashes>>

(* Mutant: the catch block forgets the task. *)
FailRunOnly(h) ==
  /\ At(h, "verify_git") \/ At(h, "changed_files")
  /\ SetRow(h, [RowOf(h) EXCEPT !.status = "failed"])
  /\ Return(h)
  /\ UNCHANGED <<task, tree, requests, crashes>>

(* A git call of executeRun threw: its catch block. *)
FailRun(h) ==
  /\ At(h, "verify_git") \/ At(h, "changed_files")
  /\ SetRow(h, TaskTold([RowOf(h) EXCEPT !.status = "failed"]))
  /\ SetTask(handler[h].run, "failed")
  /\ Return(h)
  /\ UNCHANGED <<tree, requests, crashes>>

-----------------------------------------------------------------------------
(* Worker plans *)

(* POST runs/:id/worker-plan, whatever the run's status is. *)
SubmitPlan(h, r) ==
  /\ Exists(r)
  /\ Open(h, r, "plan_git", db[r], Idle)
  /\ UNCHANGED task

(* The file a plan writes is tracked (update, append) or new (create).     *)
TreesWith(f) == {[tree EXCEPT !.tracked = @ \cup {f}],
                 [tree EXCEPT !.untracked = @ \cup {f}]}
PartialTrees == {tree} \cup UNION {TreesWith(f) : f \in PlanFiles}

(* The plan does not parse, is refused by validation, or some of its       *)
(* operations fail (the others are applied).                               *)
FailedPlans == {[validation |-> "invalid", execution |-> "skipped"],
                [validation |-> "valid", execution |-> "failed"]}

TreesAfter(plan) == IF plan.execution = "failed" THEN PartialTrees ELSE {tree}

PlanFailed(row, plan) ==
  TaskTold([row EXCEPT !.status = "failed", !.plan = plan])

(* The run fails over its plan. *)
FailPlan(h) ==
  /\ At(h, "plan_git")
  /\ \E plan \in FailedPlans :
       LET row == Reconcile(Evaluate(PlanFailed(RowOf(h), plan))) IN
       /\ tree' \in TreesAfter(plan)
       /\ SetRow(h, row)
       /\ AwaitRefresh(h, row)
  /\ SetTask(handler[h].run, "failed")
  /\ UNCHANGED <<requests, crashes>>

(* Every operation is applied; finalizeRunAfterChanges starts.             *)
ExecutePlan(h) ==
  /\ At(h, "plan_git")
  /\ \E f \in PlanFiles :
       /\ tree' \in TreesWith(f)
       /\ handler' = [handler EXCEPT ![h].pc = "plan_changed_files", ![h].files = {f}]
  /\ SetRow(h, TaskTold([RowOf(h) EXCEPT
       !.status = "running_quality_gates",
       !.plan = [validation |-> "valid", execution |-> "executed"]]))
  /\ SetTask(handler[h].run, "running")
  /\ UNCHANGED <<requests, crashes>>

(* Mutant: the gates of the earlier attempt stay. *)
AssessPlanChangesKeepingGates(h) ==
  /\ At(h, "plan_changed_files")
  /\ handler' = [handler EXCEPT ![h].pc = "quality_gates",
                                ![h].files = @ \cup tree.tracked]
  /\ UNCHANGED <<task, db, tree, requests, crashes>>

(* Changed files: tracked ones and the plan's own; earlier gates go.       *)
AssessPlanChanges(h) ==
  /\ At(h, "plan_changed_files")
  /\ SetRow(h, [RowOf(h) EXCEPT !.gates = NoGates])
  /\ handler' = [handler EXCEPT ![h].pc = "quality_gates",
                                ![h].files = @ \cup tree.tracked]
  /\ UNCHANGED <<task, tree, requests, crashes>>

(* git failed before the plan was read or after it was executed: nothing   *)
(* catches the exception, and the run keeps the status it has.             *)
AbandonPlan(h) ==
  /\ At(h, "plan_git") \/ At(h, "plan_changed_files")
  /\ Return(h)
  /\ UNCHANGED <<task, db, tree, requests, crashes>>

(* An operation threw (WorkerPlanSystemError): the run is left executing.  *)
BreakPlan(h) ==
  /\ At(h, "plan_git")
  /\ SetRow(h, TaskTold([RowOf(h) EXCEPT
       !.status = "executing_worker_plan",
       !.plan = [validation |-> "valid", execution |-> "pending"]]))
  /\ tree' \in PartialTrees
  /\ SetTask(handler[h].run, "running")
  /\ Return(h)
  /\ UNCHANGED <<requests, crashes>>

-----------------------------------------------------------------------------
(* Operator actions *)

(* An approval that passes every check, up to the refresh of the bundle.   *)
(* The policy is evaluated again and stored; the stages are not            *)
(* reconciled with it.                                                     *)
Approve(h, r) ==
  LET row == Evaluate(db[r]) IN
  /\ Exists(r)
  /\ ReportAllows(row)
  /\ \E rationale \in BOOLEAN : PolicyAllows(row, rationale)
  /\ row.evidence.present
  /\ StagesAllow(row)
  /\ Open(h, r, "action_refresh", row,
          [Idle EXCEPT !.action = "approve", !.seen = Existing(row)])
  /\ UNCHANGED task

(* An approval that is refused after the policy was evaluated.             *)
RefuseApproval(r) ==
  LET row == Evaluate(db[r]) IN
  /\ LoopFree
  /\ Exists(r)
  /\ ReportAllows(row)
  /\ \/ \E rationale \in BOOLEAN : ~PolicyAllows(row, rationale)
     \/ ~row.evidence.present
     \/ ~StagesAllow(row)
  /\ db' = [db EXCEPT ![r] = row]
  /\ UNCHANGED <<task, tree, handler, requests, crashes>>

(* Request fix and stop check nothing but the rationale. *)
Turn(h, r, action) ==
  /\ Exists(r)
  /\ Open(h, r, "action_refresh", db[r], [Idle EXCEPT !.action = action])
  /\ UNCHANGED task

ActionTaskStatus(action) ==
  CASE action = "approve" -> "approved"
    [] action = "request_fix" -> "failed"
    [] action = "stop" -> "stopped"

ActionStatus(action) == IF action = "approve" THEN "completed" ELSE "failed"

(* Mutant: the run is updated first, and the decision recorded after. *)
RecordDecisionAfterwards(h) ==
  /\ At(h, "action_refresh")
  /\ SetRow(h, [Upsert(RowOf(h), handler[h].was) EXCEPT
                  !.status = ActionStatus(handler[h].action)])
  /\ Goto(h, "decided")
  /\ UNCHANGED <<task, tree, requests, crashes>>

(* The bundle is refreshed and the decision recorded on it ... *)
RecordDecision(h) ==
  /\ At(h, "action_refresh")
  /\ SetRow(h, Decide(Upsert(RowOf(h), handler[h].was),
                      handler[h].action, handler[h].seen))
  /\ Goto(h, "decided")
  /\ UNCHANGED <<task, tree, requests, crashes>>

(* Mutant: the bundle is not refreshed after the action. *)
ConcludeUnrefreshed(h) ==
  /\ handler[h].pc = "decided"
  /\ SetRow(h, [RowOf(h) EXCEPT !.status = ActionStatus(handler[h].action)])
  /\ SetTask(handler[h].run, ActionTaskStatus(handler[h].action))
  /\ Return(h)
  /\ UNCHANGED <<tree, requests, crashes>>

(* ... and, in the same synchronous block, the run and the task updated.   *)
Conclude(h) ==
  LET row == TaskTold([RowOf(h) EXCEPT !.status = ActionStatus(handler[h].action)]) IN
  /\ handler[h].pc = "decided"
  /\ SetRow(h, row)
  /\ SetTask(handler[h].run, ActionTaskStatus(handler[h].action))
  /\ AwaitRefresh(h, row)
  /\ UNCHANGED <<tree, requests, crashes>>

(* The last wait of a handler is over: the bundle is written. *)
FinishRefresh(h) ==
  /\ At(h, "refresh")
  /\ SetRow(h, Upsert(RowOf(h), handler[h].was))
  /\ Return(h)
  /\ UNCHANGED <<task, tree, requests, crashes>>

(* POST evidence-bundle/regenerate *)
RegenerateEvidence(h, r) ==
  /\ Exists(r)
  /\ Open(h, r, "refresh", db[r], Idle)
  /\ UNCHANGED task

(* POST review-stages/generate *)
GenerateStages(h, r) ==
  /\ Exists(r)
  /\ Open(h, r, "refresh", Reconcile(db[r]), Idle)
  /\ UNCHANGED task

(* POST policy-results *)
EvaluatePolicy(h, r) ==
  /\ Exists(r)
  /\ Open(h, r, "refresh", Reconcile(Evaluate(db[r])), Idle)
  /\ UNCHANGED task

(* POST replay-verification *)
VerifyReplay(h, r) ==
  LET verified == [db[r] EXCEPT !.replay = ReplayStatus(db[r])] IN
  /\ Exists(r)
  /\ Open(h, r, "refresh", Reconcile(Evaluate(verified)), Idle)
  /\ UNCHANGED task

(* Mutant: a completed stage can be decided again. *)
CompleteStageAgain(r, s, verdict) ==
  /\ LoopFree
  /\ db[r].stage[s] # "absent"
  /\ db' = [db EXCEPT ![r].stage[s] = verdict]
  /\ UNCHANGED <<task, tree, handler, requests, crashes>>

(* POST review-stages/:id/actions.  Stages are always created as required, *)
(* so none can be skipped.                                                 *)
CompleteStage(r, s, verdict) ==
  /\ LoopFree
  /\ db[r].stage[s] = "pending"
  /\ db' = [db EXCEPT ![r].stage[s] = verdict]
  /\ UNCHANGED <<task, tree, handler, requests, crashes>>

(* The server process dies; the database and the working tree stay.  No    *)
(* code resumes a run when the process starts again.                       *)
Die ==
  /\ crashes < MaxCrashes
  /\ crashes' = crashes + 1
  /\ handler' = [h \in Handlers |-> Idle]

(* While every handler waits, or before Conclude. *)
Crash == Die /\ UNCHANGED <<task, db, tree, requests>>

(* createRun's insert is there; the task is perhaps "queued" or "running".  *)
DieStarting(r) ==
  /\ LoopFree
  /\ Arrive
  /\ ~Exists(r)
  /\ db' = [db EXCEPT ![r] = Owing([@ EXCEPT !.status = "pending"], {"task"})]
  /\ \E st \in {"queued", "running", task[TaskOf[r]]} : SetTask(r, st)
  /\ Die
  /\ UNCHANGED tree

(* In the agent worker, which does not wait. *)
DiePatching(h) ==
  /\ At(h, "create_branch")
  /\ SetRow(h, [RowOf(h) EXCEPT !.status = "generating_patch"])
  /\ Die
  /\ UNCHANGED <<task, tree, requests>>

(* Mutant: the task is told before anything else is written. *)
DieFinalizingTold(h) ==
  /\ At(h, "quality_gates")
  /\ \E result \in Outcomes :
       /\ \E row \in FinalizeCut(RowOf(h), handler[h].files, result) : SetRow(h, row)
       /\ SetTask(handler[h].run, FinalStatus(handler[h].files, result))
  /\ Die
  /\ UNCHANGED <<tree, requests>>

(* In the block that FinishPipeline is. *)
DieFinalizing(h) ==
  /\ At(h, "quality_gates")
  /\ \E result \in Outcomes :
       \E row \in FinalizeCut(RowOf(h), handler[h].files, result) : SetRow(h, row)
  /\ Die
  /\ UNCHANGED <<task, tree, requests>>

(* In the catch block, or in Conclude: the run is told, the task is not.   *)
DieTelling(h) ==
  /\ \/ /\ At(h, "verify_git") \/ At(h, "changed_files")
        /\ SetRow(h, Owing([RowOf(h) EXCEPT !.status = "failed"], {"task"}))
     \/ /\ handler[h].pc = "decided"
        /\ SetRow(h, Owing([RowOf(h) EXCEPT !.status = ActionStatus(handler[h].action)],
                           {"task"}))
  /\ Die
  /\ UNCHANGED <<task, tree, requests>>

(* A plan is recorded, and its validation perhaps; the run is as it was,   *)
(* or already failed over a plan that is refused.                          *)
DieValidating(h) ==
  /\ At(h, "plan_git")
  /\ \/ \E validation \in {"pending", "valid"} :
          SetRow(h, [RowOf(h) EXCEPT
            !.plan = [validation |-> validation, execution |-> "pending"]])
     \/ \E refused \in {<<RowOf(h).status, "pending">>, <<RowOf(h).status, "skipped">>,
                         <<"failed", "skipped">>} :
          SetRow(h, Owing([RowOf(h) EXCEPT
            !.status = refused[1],
            !.plan = [validation |-> "invalid", execution |-> refused[2]]],
            {"policy", "task"}))
  /\ Die
  /\ UNCHANGED <<task, tree, requests>>

(* The task is told once the run is "validating_worker_plan"; then, the    *)
(* run "executing_worker_plan", files are written and the execution is     *)
(* recorded, and a run whose plan failed is told so.                       *)
DieExecuting(h) ==
  LET leave(st, execution, writes) ==
        SetRow(h, Owing([RowOf(h) EXCEPT
          !.status = st,
          !.plan = [validation |-> "valid", execution |-> execution]], writes))
  IN
  /\ At(h, "plan_git")
  /\ \/ leave("validating_worker_plan", "pending", {"task"}) /\ UNCHANGED <<task, tree>>
     \/ /\ SetTask(handler[h].run, "running")
        /\ \/ leave("validating_worker_plan", "pending", {}) /\ UNCHANGED tree
           \/ leave("executing_worker_plan", "pending", {}) /\ tree' \in PartialTrees
           \/ /\ leave("executing_worker_plan", "executed", {})
              /\ \E f \in PlanFiles : tree' \in TreesWith(f)
           \/ /\ \E st \in {"executing_worker_plan", "failed"} :
                   leave(st, "failed", {"policy", "task"})
              /\ tree' \in PartialTrees
  /\ Die
  /\ UNCHANGED requests

(* Run and task have failed over a plan; the policy is perhaps evaluated   *)
(* and some stages are inserted.                                           *)
DieFailing(h) ==
  /\ At(h, "plan_git")
  /\ \E plan \in FailedPlans :
       LET row == PlanFailed(RowOf(h), plan) IN
       /\ \/ SetRow(h, Owing(row, {"policy"}))
          \/ \E some \in FirstStages : SetRow(h, ReconcileOnly(Evaluate(row), some))
       /\ tree' \in TreesAfter(plan)
  /\ SetTask(handler[h].run, "failed")
  /\ Die
  /\ UNCHANGED requests

(* The bundle is refreshed and the decision is not recorded. *)
DieDeciding(h) ==
  /\ At(h, "action_refresh")
  /\ SetRow(h, Upsert(RowOf(h), handler[h].was))
  /\ Die
  /\ UNCHANGED <<task, tree, requests>>

(* In GenerateStages, EvaluatePolicy or VerifyReplay. *)
DieReviewing(r) ==
  LET verified == [db[r] EXCEPT !.replay = ReplayStatus(db[r])] IN
  /\ LoopFree
  /\ Arrive
  /\ Exists(r)
  /\ \/ db' = [db EXCEPT ![r] = Owing(verified, {"policy"})]
     \/ \E row \in {db[r], Evaluate(db[r]), Evaluate(verified)}, some \in FirstStages :
          db' = [db EXCEPT ![r] = ReconcileOnly(row, some)]
  /\ Die
  /\ UNCHANGED <<task, tree>>

-----------------------------------------------------------------------------

(* What handler h does next by itself, once its wait is over. *)
Resume(h) ==
  \/ CreateBranch(h) \/ ApplyPatch(h) \/ AssessChanges(h) \/ FinishPipeline(h)
  \/ FailRun(h)
  \/ FailPlan(h) \/ ExecutePlan(h) \/ AssessPlanChanges(h) \/ AbandonPlan(h)
  \/ BreakPlan(h)
  \/ RecordDecision(h) \/ Conclude(h) \/ FinishRefresh(h)

Request(h, r) ==
  \/ StartRun(h, r) \/ SubmitPlan(h, r)
  \/ Approve(h, r) \/ Turn(h, r, "request_fix") \/ Turn(h, r, "stop")
  \/ RegenerateEvidence(h, r) \/ GenerateStages(h, r)
  \/ EvaluatePolicy(h, r) \/ VerifyReplay(h, r)

(* The server dies, in what handler h or a new request on run r does.      *)
DieIn(h) ==
  \/ DiePatching(h) \/ DieFinalizing(h) \/ DieTelling(h)
  \/ DieValidating(h) \/ DieExecuting(h) \/ DieFailing(h) \/ DieDeciding(h)

DieOver(r) == DieStarting(r) \/ DieReviewing(r)

Next ==
  \/ \E h \in Handlers : Resume(h)
  \/ \E h \in Handlers, r \in Runs : Request(h, r)
  \/ \E r \in Runs : RefuseApproval(r)
  \/ \E r \in Runs, s \in Stages, verdict \in {"approved", "rejected"} :
       CompleteStage(r, s, verdict)
  \/ Crash
  \/ \E h \in Handlers : DieIn(h)
  \/ \E r \in Runs : DieOver(r)

Spec == Init /\ [][Next]_vars

(* Child processes end (quality gates are killed after ten minutes) and    *)
(* the event loop then resumes the handler that waited.                    *)
FairSpec == Spec /\ \A h \in Handlers : WF_vars(Resume(h))

(* What an operator who waits for every answer sees: no two requests on    *)
(* one run overlap.  The code does not enforce it; some properties below   *)
(* hold only so.                                                           *)
OnePerRun ==
  \A h, g \in Handlers :
    (h # g /\ handler[h].run = handler[g].run) => handler[h].run = None

SpecOnePerRun == Init /\ [][Next /\ OnePerRun']_vars

-----------------------------------------------------------------------------
(* Properties *)

(* The type invariant of every table and every handler. *)
TypeOK ==
  /\ task \in [Tasks -> TaskStatus]
  /\ db \in [Runs -> Rows]
  /\ tree \in Trees
  /\ handler \in [Handlers -> HandlerStates]
  /\ \A h \in Handlers : handler[h].run = None <=> handler[h].pc = "idle"
  /\ requests \in 0..MaxRequests
  /\ crashes \in 0..MaxCrashes

(* A stored report that allows approval never coexists with a stored gate  *)
(* failure, although two pipelines of one run may save and clear gates and *)
(* save reports in any order; unless the server died over the report.      *)
CanApproveMeansNoFailedGate ==
  \A r \in Runs : db[r].report.can =>
    db[r].gates.failed = 0 \/ "report" \in db[r].owed

(* A run that waits for approval has everything the operator decides on:   *)
(* report, policy result and evidence bundle.  The status is saved before  *)
(* them, so a death may leave one out, and nothing else does.              *)
WaitingHasPackage ==
  \A r \in Runs : db[r].status = "waiting_for_approval" =>
    /\ db[r].report.made \/ "report" \in db[r].owed
    /\ db[r].policy.status # "none" \/ "policy" \in db[r].owed
    /\ db[r].evidence.present \/ "evidence" \in db[r].owed

(* A run is completed only on a recorded approval that is linked to an     *)
(* evidence bundle; no pipeline and no crash completes one.                *)
CompletedHasApproval ==
  \A r \in Runs : db[r].status = "completed" =>
    Approvals(db[r]) # {} /\ db[r].evidence.present

(* Every stage the gate of an approval looked at was approved and is for   *)
(* good: no rejection or reconciliation during the handler's waits, or     *)
(* later, undermines the recorded approval.                                *)
SeenStagesStayApproved ==
  \A r \in Runs : \A i \in Approvals(db[r]) : \A s \in db[r].decisions[i].seen :
    db[r].stage[s] = "approved"

(* While an approval waits for the refresh of the bundle, the stages its    *)
(* gate looked at stay approved; once its decision is inserted, the run    *)
(* has an approval and a bundle, although it is not completed yet.         *)
ApprovalInFlight ==
  \A h \in Handlers : handler[h].action = "approve" =>
    /\ handler[h].pc = "action_refresh" =>
         \A s \in handler[h].seen : RowOf(h).stage[s] = "approved"
    /\ handler[h].pc = "decided" =>
         Approvals(RowOf(h)) # {} /\ RowOf(h).evidence.present

(* A reviewer's verdict on a stage is never revised, neither by a later    *)
(* reviewer nor by the reconciliation of a re-submitted plan.              *)
StageVerdictsStand ==
  [][\A r \in Runs, s \in Stages :
       db[r].stage[s] \in {"approved", "rejected"} =>
         db'[r].stage[s] = db[r].stage[s]]_vars

(* The default pipeline always leaves its working statuses, by success or  *)
(* by its catch block, unless an operator submits a plan to the run.       *)
RunSettles ==
  \A r \in Runs :
    (db[r].status \in Working) ~>
      (db[r].status \notin Working \/ db[r].plan.execution # "none")

(* Every bundle refresh that was started is written: the bundle becomes    *)
(* younger than the decision it follows.                                   *)
DecisionGetsLaterBundle ==
  \A r \in Runs :
    (~Undecided(db[r]) /\ ~db[r].evidence.late) ~> db[r].evidence.late

(* No required stage is open when an approval is recorded.                 *)
ReviewedAtDecision ==
  \A r \in Runs : \A i \in Approvals(db[r]) : db[r].decisions[i].unreviewed = {}

(* When requests do not overlap, a run that waits for approval has passed  *)
(* its gates and its risk, wherever the server died: the gates of an       *)
(* attempt cut short do not count for the next, and the status is never    *)
(* ahead of gates and risk.  And its report allows the approval, unless a  *)
(* death fell between the status and the report.                           *)
WaitingIsApprovable ==
  \A r \in Runs : db[r].status = "waiting_for_approval" =>
    /\ db[r].gates.failed = 0 /\ db[r].risk # "blocked"
    /\ db[r].report.can \/ "report" \in db[r].owed

(* The statuses of a task that go with the status of its only run.         *)
TaskStatusesFor(st) ==
  CASE st = "absent" -> {"draft"}
    [] st = "pending" -> {"queued"}
    [] st \in Working -> {"running"}
    [] st = "waiting_for_approval" -> {"waiting_for_approval"}
    [] st = "completed" -> {"approved"}
    [] st = "failed" -> {"failed", "stopped"}

(* Run and task are separate rows that several handlers write, and no      *)
(* transaction holds the two writes together.  When no two requests on one *)
(* run overlap, the status of a task that has runs is that of one of them, *)
(* however the runs interleave and wherever the server died: a death       *)
(* between the two writes is the only thing that parts them, and only      *)
(* until the run tells its task again.                                     *)
TaskMirrorsRun ==
  \A k \in {TaskOf[r] : r \in Runs} :
    (\A r \in Runs : TaskOf[r] = k => "task" \notin db[r].owed) =>
      \E r \in Runs : TaskOf[r] = k /\ task[k] \in TaskStatusesFor(db[r].status)

(* The task is told last.  Whatever overlaps and wherever the server dies, *)
(* a task that waits for approval has a run with report, policy result and *)
(* bundle, and a task that is approved one with a recorded approval.       *)
TaskIsToldLast ==
  \A k \in Tasks :
    /\ task[k] = "waiting_for_approval" =>
         \E r \in Runs : /\ TaskOf[r] = k
                         /\ db[r].report.made
                         /\ db[r].policy.status # "none"
                         /\ db[r].evidence.present
    /\ task[k] = "approved" =>
         \E r \in Runs : /\ TaskOf[r] = k
                         /\ Approvals(db[r]) # {}
                         /\ db[r].evidence.present

(* docs/evidence-bundles.md: the bundle is refreshed after human approval  *)
(* actions to capture final run state.  When requests do not overlap and   *)
(* the process does not die, it does.                                      *)
EvidenceCapturesFinalState ==
  \A r \in Runs :
    /\ crashes = 0
    /\ db[r].status = "completed"
    /\ \A h \in Handlers : handler[h].run # r
    => db[r].evidence.status = "completed"

=============================================================================
