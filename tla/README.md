# Verification of the Engineering Console

TLA+ models, TLC checks and TLAPS proofs for the VeraLux Engineering Console: a
Next.js application over SQLite in which an operator governs what coding agents do
to a repository. This file says what the parts of the system are, which module
models which part, what each run checks and each theorem proves, and what is left.

Paths are relative to `src/`; `EC` stands for `src/lib/engineer-console`.

## 1. The system

One Node process serves every request. The SQLite client (`better-sqlite3`) is
synchronous; request handlers are `async` functions that interleave only where they
wait for a child process (git, `npm run ...`, `gh`) or for HTTP. Nothing serialises
two requests about the same run, and nothing resumes a request after the process died.

| component | code | state it keeps | operations | hard behaviour |
|---|---|---|---|---|
| Run orchestrator | `EC/orchestrator/run-orchestrator.ts`, `EC/run-manager`, `EC/task-manager` | `engineering_runs`, `engineering_tasks`, quality gates, approval report | start a run, approve, request fix, stop | handlers of one run overlap; death between two writes; exceptions at every wait |
| Worker plans | `EC/orchestrator/worker-plan-orchestrator.ts`, `EC/worker-plan` | plans, operations, working tree | validate and execute a plan, finalize the run | partial execution; re-submission over old gates, stages and reports |
| Git workspace, quality gates | `EC/workspace`, `EC/quality-gates` | HEAD, dirty files | branch, checkout, changed files, diff; run the package's scripts | one tree shared by all runs of a repository |
| Governance rules | `EC/governance/governance-engine.ts`, `policy-results` | policy results | risk of a change set, policy evaluation | reads whatever rows exist at that moment |
| Review stages | `EC/governance/review-stages` | stages per run | reconcile, approve, reject, gate the approval | created by one request while another approves |
| Evidence bundles | `EC/governance/evidence-bundles` | one bundle per run | refresh (upsert) | reads the run before a wait, writes after it |
| Decision records | `EC/governance/decision-records` | append-only records | record with the bundle's hash | inserted before the run is updated |
| Replay verification | `EC/governance/replay-verification` | verification results | compare decisions, bundle, gates, stages, audit chain | feeds back into policy and stages |
| Audit ledger | `EC/governance/audit-ledger` | hash-chained events | append, verify a scope, verify a run | the clock orders the chain; several runs share one chain |
| Commit candidates | `EC/governance/commit-candidate`, `complete-governed-run.ts` | candidates of a run, one evidence file per step | prepare, commit, push, PR, readiness, merge; deploy readiness, packet, staging, production readiness, packet, production, completion readiness, closeout: fourteen gated steps | external effects between two writes; retries |
| Engineering review sign-off | `EC/governance/engineering-review-signoff` | sign-offs | sign, revoke | role and state gates |
| Release controls | `EC/release` | PR and merge requests, deployment gates, executions, health checks, checklists, sign-offs | create, approve, execute, evaluate | concurrent requests for one PR, a resumed PR after a crash |
| Vera bridge | `EC/bridge` | handoffs, proposals, drafts, reviews, commits as audit events | a long protocol of reviewed steps | each step derives its state from earlier events |
| Hermes worker | `EC/hermes-worker` | worker jobs, patches | prepare, dispatch, apply, rollback, gates | patch applied but not recorded |
| Model router | `EC/model-router` | drafts | produce a draft, copy a draft | provider failures |
| Repository intelligence | `EC/repo-intelligence` | index runs, compatibility findings | index a repository | long scans |
| Security | `EC/security` | sessions, CSRF, accounts | authenticate, authorise | role gates in front of every mutation |
| Dashboards, run UX, setup, UI | `EC/dashboard`, `EC/run-ux`, `EC/setup`, `src/components`, `src/app` | none of their own | derive views | read-only |
| Experimental | `EC/experimental`, `scripts/runtime` | local model runtime | start, probe | outside the governed path |
| Database scripts | `scripts/engineer-console` | backups | backup, restore, check | file level |

### What makes them correct

* **Run lifecycle** (orchestrator, plans, stages, bundles, decisions, replay): an
  approval is recorded only over an approvable report, an acceptable policy, a bundle
  and approved stages; a verdict, once given, stands; a run that waits has everything
  the operator decides on, but for what a death kept from being written; only a recorded
  approval completes a run; a pipeline always ends; the task tells the state of one of its
  runs, and is told it last.
* **Audit ledger**: what was appended verifies, whatever runs interleave.
* **Commit candidates**: no step before its predecessor and none taken back; a row never
  claims an external effect (commit, push, PR, merge) that is not there; what is merged
  is what was reviewed; a run is closed out over deployments that work.
* **Release controls**: what a row says of commit, branch, pull request and merge is so on
  GitHub; the work of a run is never out of reach of a retry; one deployment per approval; a
  release signed off as completed was deployed and answered its health check.
* **Vera bridge**: steps come in order and none is lost; the commit is the approved content;
  an interruption can be found in the ledger.
* **Hermes worker**: a rollback restores the text that was there; the patch an approval is
  shown is in the tree.
* **Pages and panels**: they repeat the conditions of the handlers in code of their own, so
  that what they offer must be accepted, and what they say must be on record.

## 2. Modules and plan

| module | of | proofs |
|---|---|---|
| `RunLifecycle` | orchestrator, worker plans, governance, review stages, bundles, decisions, replay | `RunLifecycleProofs` |
| `RunGuidance` | what the run page, the operator queue and the issue list derive from a summary of rows (operators only) | |
| `RunPage` | `RunLifecycle` seen through `RunGuidance` | |
| `AuditLedger` | the hash chain and its three verifications | `AuditLedgerProofs` |
| `GovernedSteps` | abstract: items pass numbered steps one at a time and lose none | (refined by the next two) |
| `CommitCandidate` | sign-off to merged pull request; 6 steps of `GovernedSteps` | `CommitCandidateProofs` |
| `CandidatePanel`, `CandidateTrail` | the panel that drives `CommitCandidate`; its audit events | |
| `Delivery` | deploy readiness to closeout; 8 steps of `GovernedSteps` | `DeliveryProofs` |
| `DeliveryPanel`, `DeliveryTrail` | the panel that drives `Delivery`; its audit events | |
| `ReleaseStanding` | what the release steps read of a run's governance | |
| `PullRequests` | pull request and merge requests of a run | `PullRequestsProofs` |
| `PrPage` | the two panels that drive `PullRequests` | |
| `DeploymentControl` | readiness, approval, execution, health checks, health policy, checklist, sign-off | `DeploymentControlProofs` |
| `ReleasePage`, `ReleasePanels` | `DeploymentControl` seen through `RunGuidance`; the panels that drive it | |
| `VeraBridge` | a handed-over task up to its prepared pull request | `VeraBridgeProofs` |
| `VeraTrail`, `VeraPage` | the audit events of the bridge; the page of a Vera run | |
| `HermesWorker` | packets, reports, patches, rollback, gates on a patch | `HermesWorkerProofs` |

`MC*` modules hold model values and symmetry sets only. A page, panel or trail module EXTENDS the
module of the handlers: a panel module adds operators (or the few variables a component keeps between
two loads) and compares them with the guards of the handlers in the same state; a trail module adds the
ledger as history variables, appended to in the step in which the handler appends, so that an event
and the row it is about can be told apart by a death in between.

Left, in this order:

1. An abstract `Approval` (a run is undecided, approved or refused) that `RunLifecycle`
   refines when requests do not overlap.
2. The preview and proof tools of the bridge (`EC/bridge/local-model-coding-*`), if they come to
   change a run.

## 3. RunLifecycle

**State.** `db[r]` gathers the rows keyed by run `r`: `engineering_runs` (`status`, `risk`,
`branch`), quality gate results as counts (`gates`), the approval report (`report`), the policy
result (`policy`), review stages (`stage`), the evidence bundle (`evidence`), the last replay
result (`replay`), the worker plan (`plan`) and the decision records (`decisions`). `owed` is history:
which of the report, the policy result, the bundle and the task's status a block that was cut short had
still to write, and nothing has written since. `task` is
`engineering_tasks.status`, `tree` the dirty files of the checkout that all runs share,
`handler[h]` the local variables of an `async` function that waits, `pc` naming the await.

**Actions.** An action is the code between two awaits that really wait (for a child
process or for git); an await on a resolved promise ends no step. The SQL statements of such a block
are in no transaction: nobody else sees the rows in between, but a death does. So each block
exists twice, whole and cut short after any of its statements.

| actions | code |
|---|---|
| `StartRun`, `CreateBranch`, `ApplyPatch`, `AssessChanges`, `FinishPipeline`, `FailRun` | `executeRun` and its catch block |
| `SubmitPlan`, `ExecutePlan`, `AssessPlanChanges`, `AbandonPlan`, `BreakPlan`, `FailPlan` | `submitAndExecuteWorkerPlan` with validation, partial failure, system errors |
| `Finalize` (an operator) | the block in which a pipeline saves gates, status, report, policy result, stages, bundle and task, in this order |
| `Approve`, `Turn`, `RefuseApproval`, `RecordDecision`, `Conclude`, `FinishRefresh` | `handleApprovalAction` |
| `RegenerateEvidence`, `GenerateStages`, `EvaluatePolicy`, `VerifyReplay`, `CompleteStage` | the routes of these parts |
| `Crash` | the process dies while every handler waits, or between the record of a decision and the update of the run: every handler is gone, rows and tree stay |
| `DieStarting`, `DiePatching`, `DieFinalizing`, `DieTelling` | it dies among the statements of `executeRun`: between run and task (`run-orchestrator.ts:80`/`:81`, `:201`/`:207`), after the gates, the status (`:148`), the report (`:168`), the policy (`:178`), each of the stages or the bundle; `DieTelling` is also `:276`/`:281` |
| `DieValidating`, `DieExecuting`, `DieFailing` | the same for a worker plan |
| `DieDeciding`, `DieReviewing` | the bundle is refreshed and the decision not recorded; a replay result, a policy result or some stages are written and the rest is not |

**Abstractions.** A path is one of five kinds, the ones the rules tell apart. Gate results are
counts, and one entry stands for all scripts of a package. The verdict of the plan validation is
nondeterministic. The audit-chain check inside replay verification is taken as passed, which
`AuditLedger` justifies (`AuditCheckPasses`) while the clock is not set back; what the pages ask of the
chain of the run's own events is another matter, fails for honest runs, and is therefore a parameter of
the summary (see `RunPage`). A package without scripts
yields its `skipped` result without a real wait in the code; the model lets other requests run there.
Which branch is checked out is not modelled: no rule here reads it. Tasks are those with an
unregistered repository path, without model drafts, under the built-in policy.
`complete-governed-run.ts:114` (modelled in `Delivery`) and the pipeline of runs started by
Vera set run statuses from outside this module.

**Pages.** `RunGuidance` holds the five derivations of `EC/run-ux` (approval card, command center,
stepper, queue, issues) as operators on one record; `RunPage` builds that record from `db[r]`. A page is
rendered in one synchronous block, so it sees a state between two actions of `RunLifecycle`. The summary
takes what `verifyAuditChainForRun` answers as a parameter (`chain`), since that depends on what other runs
appended: what is claimed of a page is claimed for both answers.

**Runs.**

* `overlap` (`Spec`): one run, two handlers, three requests, one death between any two statements, a tree
  that is clean or has a changed lockfile (the change that asks for a review and a rationale). Two handlers are
  what a race needs; three requests give a pipeline, a plan or stage verdict and an approval in any interleaving.
  `CompletedHasApproval`; `ApprovalInFlight`: between its gate and its last write an approval keeps what
  it relies on; `OfferedApprovalIsAccepted`: an approval that the run page, the queue or the issue list
  offers is accepted by the handler, though the page judges by stored rows and the handler anew. It holds whether
  or not the chain verifies (without it the queue calls the run blocked, and offers nothing). The one case
  it leaves out is a death that kept the policy from being evaluated after the last change, so that the page
  reads an older result. `TaskIsToldLast`: a task that waits has a run with report,
  policy result and bundle, and an approved task one with a recorded approval: the order of the statements is
  what gives it, wherever they are cut.
* `serial` (`SpecOnePerRun`, no two requests on one run at once): two runs of one task in one
  tree that is clean or has a changed protected path; all gate outcomes. `ReviewedAtDecision`,
  `WaitingIsApprovable` and `TaskMirrorsRun` hold only so. `WaitingIsApprovable` claims gates and risk
  wherever the server died, since they are saved before the status, and the report unless the
  death fell between the two. `TaskMirrorsRun` excludes a task one of whose runs was told its status
  while the task was not: a death at `run-orchestrator.ts:81`, `:207` or `:281` leaves just that, and no
  code repairs it, until a handler of that run tells the task again.
* `settles` (`FairSpec`): `RunSettles` and `DecisionGetsLaterBundle` under weak fairness of each
  handler's continuation (`Resume`). The event loop resumes every settled promise, and each child
  process the handlers wait for ends or is killed after its timeout; no fairness is assumed
  for requests, and no crash happens (a dead process resumes nothing: the run stays in its
  working status for good, which is the code's behaviour). A run whose plan was submitted
  is excluded, since a `WorkerPlanSystemError` is thrown past the status update.

Requests and crashes are used up in the end, so these runs do not check deadlock.

**Differences between code and documents**, each a behaviour of the model:

* A run whose pipeline failed before its report was saved can be approved: the handler skips the
  report's verdict when there is none (`run-orchestrator.ts:241`), and the record then says `canApprove` false
  (`docs/replay-verification.md:18`: approved decisions had `canApprove` true; `docs/review-stages.md:92-94` calls the
  path "fail-closed" and begins it with the "`canApprove` check"). Asking for an evidence bundle in between is all
  it takes.
* A stage created by another request during the bundle refresh of an approval is open when that
  approval is recorded (`docs/review-stages.md:55`). Without overlap it cannot (`ReviewedAtDecision`).
* Of two overlapping refreshes the one that read first may write last, so that a bundle older than
  the decision stays (`docs/evidence-bundles.md:61`). Without an overlap or a death it cannot (`EvidenceIsFinal`).
* `buildRunWorkflowSummary` takes the first decision record for the latest, but the list is in
  ascending order (`EC/run-ux/build-run-workflow-summary.ts:91`, `list-decision-records.ts:31`): the views show
  the oldest decision. `Summary` of `RunPage` models it so.

**Proofs.** `IInv == TypeOK /\ RowsOK /\ \A h : HandlerOK(h)`. `RowsOK` conjoins the row invariants;
they are not inductive alone, because an approval writes after a wait what it checked before:
`HandlerOK` says that while it waits the stages it saw are approved, and after its decision is inserted
an approval and a bundle exist. A row that waits has its report, policy result and bundle, or owes them. Every row update `Keeps` what other handlers rely on (verdicts, decisions,
a bundle once present), which one lemma per action shows and `HandlerKept` turns into the invariant
of the handlers that do not move. The blocks cut short have lemmas of their own (`DeathInLeaves`,
`DeathOverLeaves`, `DeathInvariant`): whatever prefix of the writes is left, what is missing is in `owed`.
Theorems: `TypeCorrect`, `ReportsAgreeWithGates` (a report that allows approval stands over a failed gate only
where a death fell between the two), `WaitingIsPackaged` (a run that waits has its package, but for what a death
kept out of it), `CompletionIsApproved`, `ReviewsStand`, `ApprovalsInFlight`, `VerdictsStand`, for any
number of runs, handlers, requests and deaths. They assume the named assumptions on constants
only. `TaskToldLast` adds to `IInv` that a task that waits or is approved has such a run.

`OffersAreAccepted` needs one more conjunct per row: while a run waits, the stored policy result is no milder
than one made anew (`PolicyCurrent`), because the rows it was made from change only for the better or together
with it, or the evaluation is owed. The page reads the stored one, the handler makes a new one. What the audit chain
verifies to is universally quantified.

The serial theorems (`WaitingCanBeApproved`, `ReviewedWhenDecided`, `EvidenceIsFinal`) are about
`SpecOnePerRun`, for any number of runs and handlers; the handlers of different runs interleave freely. `SInv` says what a handler
that is alone on its run may rely on at each await: the status it set, gates without a stored failure up to the
gates, no open stage after the gate of an approval, and a refresh that still has the status it read
(`was`). The bundle is the run's (`CapturedAt`) while nobody refreshes and nobody died. The lemma `Alone` does the common part
once: one handler moves, and no other is on that run. `TaskFollowsRuns` shows `TaskMirrorsRun` inductive on top of
`SInv`: each status update of a run is followed by the task's in the same block, and where a death cuts between
the two, the run owes its task.

Liveness (`settles`) is model-checked only.

## 4. AuditLedger

`ledger` is `engineer_audit_events` of one scope in rowid order; `clock` the wall clock, which may
be set back. `AppendAuditEvent` is one synchronous transaction. `VerifyScope`, `VerifyRun` and
`AuditChainCheck` are the three verifications. SHA-256 is an injection (a hash is the sequence of what
was hashed), so a collision is out of scope; redaction is idempotent on what is stored.

* `ledger_any_clock`: four events, two runs, three clock readings: ties, a clock that goes on and
  one that is set back all occur. The scope verifies exactly when events were inserted in the order of their
  times (`VerifiesExactlyInOrder`). A scope that failed never verifies again (`FailureIsPermanent`), and
  `AuditCheckPasses` while the clock was not set back; these two are proved. So one correction of the
  system clock between two appends breaks a scope for good, though nobody touched it. No document
  promises otherwise, which is why this is stated here and is not listed as a finding.
* `ledger_run`: `verifyAuditChainForRun` checks a run's events as a chain of their own, and fails for
  runs nobody touched.

**Proofs.** `LedgerInv == TypeOK /\ NewestExists /\ Linking /\ Depth`: each event is linked to the newest of those
inserted before it (`Linking`), a newest exists in every prefix of the order of time and
rowid (`NewestExists`, which replaces an induction over finite sets), and in an ordered ledger the
length of a hash tells the place of its event (`Depth`, which rules out a fork). The four
properties follow for any ledger, any number of runs and any clock.

## 5. CommitCandidate, GovernedSteps, CandidatePanel, CandidateTrail

**State.** `candidate[c]` is the row of `engineer_commit_candidates`, `file[c]` what its evidence files
say, `signoff` the latest sign-off, `patch` and `gates` the Hermes rows, `repo` the tree, the index and
the log of the repository, `remote` the branch and its pull request, `request[q]` a request that waits.

**Actions.** One per child process (`CheckTree`, `Add`, `Commit`, `RevParse`, `PushHead`, `PushStatus`, `PushBranch`, `ReusePr`,
`NoPrYet`, `CreatePr`, `ReadyView`, `MergeView`, `MergePr`, `MergedView`), one per validation (`Request*`, `SignOff`, `Prepare`,
`PreparePacket`, `AssessFromEvidence`) and one per block that records (`Record*`). `Save` writes the evidence
file and then the row, and may die between the two. `OthersAct` are people at the workstation or on
GitHub. `Refuse` is every check or tool that fails, also after its effect.

**Abstractions.** The operator's override of the branch name is not modelled: all candidates of a run
share the recommended branch and one pull request. A commit is its place in the log and
history is not rewritten. The content of the files is a version. `gh pr merge` on a pull request that is merged
already succeeds. A tool that reports an error after its effect is a `Refuse` after the effect.

**Panel and trail.** `CandidatePanel` has what `commit-candidate-panel.tsx` keeps between two loads:
the candidate it shows (`latest`) and the answers to its own requests (`own`). Its `*Section` operators
say when a form is offered and what stands under it. `CandidateTrail` keeps what the ledger last says was
done (`told`) and which steps have a request that nothing will answer (`unanswered`).

**Runs.**

* `candidate_overlap`: one candidate, two requests, a crash, everything others may do. Two versions and two
  commits let the working tree, the commit and the remote disagree pairwise. `RecordsAreBacked`: rows never
  claim what did not happen. `InterruptionsShow`: where ledger, evidence files and row disagree, a
  request of that candidate and step has no answer, so an operator can find the place.
* `candidate_serial`: two candidates, one request at a time, two sign-offs. `MergedCommitIsCandidates`: what is
  merged is the commit its candidate recorded, for one candidate only. `PanelOffersWhatIsAccepted` and
  `PanelSaysWhatIsRecorded`: the forms and texts of the panel against the guards and the row.

Observed:

* The panel looks at the decision of the latest sign-off and at the patch only. When another sign-off came
  after the preparation, or the gates of a sign-off had not passed, it offers the local commit and the
  handler refuses it every time; `PanelOffersWhatIsAccepted` names these cases.
* An own answer wins over the row: after a second candidate is prepared the panel still shows the
  commit of the first, and an own failure stays when a retry from another tab succeeded.
* A commit made by another between the check of HEAD and `git push` is published as the candidate's,
  where `docs/architecture/governed-remote-branch-push-phase-12c.md:17` publishes "that snapshot", the candidate's own.
* `getChangedFiles` adds every planned file that exists to the changed ones, so
  `assertWorkingTreeMatchesCandidate` takes a tree without any change for the candidate's. `git commit` then
  fails for want of changes and nothing is recorded; this is why `CheckTree` does not ask for a change.

**Proofs.** `IInv` is `TypeOK`, the chain of columns of each row (`Chain`), `RecordsAreBacked`, what each
waiting request may still rely on (`Sound`) and that a candidate being prepared has one preparer
(`Alone`). The code rechecks nothing after a wait, so an order that survives overlap rests on columns that are
never cleared: `Extends` is that monotonicity and carries `Sound` over other requests' steps. Theorems:
`TypeCorrect`, `RecordsBacked`, `StepsImplemented` (the rows refine `GovernedSteps` with six steps).

`InterruptionsAreShown` (of `TrailSpec`, any number of requests and deaths) rests on `Shown`: a step that has no
unanswered request is in ledger, file and row alike; every handler appends its first event before it waits.

The other three hold while requests come one at a time, the hypothesis `OneRequest` of their theorems: `Filed` (the status
of a row goes with its columns, and the request finds its candidate where it was validated), `Shows` (what the
panel keeps is on the row it shows, unless a second candidate came) and, for `MergedIsCandidates`, `Heads`:
recorded commits differ, and what a commit or a merge request saw of HEAD and of the branch is still so. That one
also wants that nobody else commits or pushes (`Undisturbed`); otherwise `gh pr merge`, which names no head, merges what
the other pushed.

## 6. Delivery, DeliveryPanel, DeliveryTrail

**State.** `row` holds the candidate's delivery columns, `file` what the evidence files say, `run` the
run's status, `vetted` whether the sign-off stands and the patch is applied, `world` how the last script
left staging and production, `request[q]` a waiting request. `disturbed` is a history variable: requests
have overlapped, or the process has died. The status column keeps one value, `production_readiness_recorded`,
the only one a validation takes in place of a column that says something else; each mark overwrites it.

**Actions.** `Request*` validates and begins a wait (GitHub, a deploy script, a health check); `StagingEnds` and
`ProductionEnds` are the script's exit or the kill after its timeout (exit code 124, recorded as a failure);
`Record*`, `Prepare*` write file and row and may die in between; `CloseOut` marks the candidate, then the run.
`Orchestrate` is what `handleApprovalAction` does to the run's status at any time, `Withdraw` a later sign-off
or a rollback of the patch.

**Abstractions.** One candidate, merged, with a known merge commit and gates that had passed;
evidence files are not lost; `blocked` and `not_ready` are one decision; health checks are noted
in the evidence and decide nothing in the code either. The closeout awaits only functions that do not
wait, so it is one step. The trail follows a script that outlives the process (`orphans`).

**Run.** `delivery`: two requests, one crash, every step repeatable with either decision and outcome: no counter
needs a bound, and two requests suffice for one to be overtaken by any sequence of steps of the other.
`StepsInOrder` (refines `GovernedSteps`), `RunFollowsCandidate`, and, while undisturbed,
`ClosesOnWorkingDeployments` and `ProductionOverWorkingStaging`: attestations may be old, the deployments they are
about must not be; neither holds when requests overlap, which no document promises.
`PanelOffersWhatIsAccepted` and `PanelSaysWhatIsRecorded` are about the second half of the panel;
`InterruptionsShow` says that a deployment that ended unrecorded shows in the ledger: an unanswered
request, or two scripts that were started before one was answered.

Observed, and not promised otherwise anywhere: every step but the closeout can be requested again after the closeout, and
then overwrites the status `completed`; a process that dies inside the closeout leaves a closed
candidate and an open run that no second closeout can complete (`RunFollowsCandidate` says it is
never the other way round). The panel offers staging and production readiness after deploy readiness was
taken back, and completion and closeout after a later failure of staging; all are refused. A refusal
after an effect (a push or a merge that was done and then reported an error) is told as `REJECTED`.

**Proofs.** `IInv` is `TypeOK`, the chain of columns, `RunFollowsCandidate` and `Sound` as in section 5.
The chain needs one conjunct of its own for the status value that stands in for a staging deployment: without it
`RequestProductionReadiness` could record readiness before staging. Theorems: `TypeCorrect`, `FollowsCandidate`,
`StepsImplemented`.

`ClosesOverWorking` and `ProducesOverWorking` add `Undisturbed`: until requests have overlapped or the process has
died, an environment is as its column says, or its script has just ended and the one request that runs knows how. For the panel
and the trail, `TrailKnows` says the same of the three places where an answer is kept (the panel, the evidence file and
the ledger), for every step that is not `irregular`; the lemmas on `Written` treat the eight steps alike. The theorems
`InterruptionsAreShown`, `PanelOffersTheAccepted` and `PanelSaysTheRecorded` are about any finite number of requests
(`RequestsAssumption`: the number of scripts in flight is a cardinality) and any number of deaths.

## 7. PullRequests and PrPage

**State.** `standing` is what the readiness checks read of the run (`ReleaseStanding`, shared with
`DeploymentControl`): the steps of a release look at the same seven things and draw different lines through them.
`pr` is the one row of `engineer_pr_requests` that a retry resumes, `merges` those of
`engineer_merge_requests`, `repo` the shared checkout with the log of each branch, `github` the remote branch
and the pull request, `request[q]` a request with what it read before it waited. `history` remembers
that HEAD was moved under a request (`uprooted`), that two requests worked on the row at once (`overlapped`),
and that the remote branch moved under a merge (`moved`).

**Actions.** `AskPr`, `Inspect`, `Checkout`, `ReuseCommit`/`ListChanges`, `Commit`, `RevParse`, `Push`, `OpenPr`, `RecordPr`
are `createPrRequest` with `createControlledGitCommit` and `createControlledGithubPr`, one per wait; `FailPr` is any
of their failures, noted in the row. `AskMerge`, `ViewPr`, `Preview`, `Merge`, `ViewMerged`, `Refresh`, `FailMerge` are
`createMergeRequest`. `Reassess` is the rest of the Console, `Deed` other runs, people at the workstation and on
GitHub, `Crash` the death of the process.

A commit to reuse is the one found at the inspection, else the row's at that time, else the row's as
it is read again by then (`Known`), when another request may have recorded one.

**Abstractions.** One run and one base branch; the git reads of one readiness evaluation are one
step, and so are `gh pr list` and `gh pr create`; the commit of the run is among the fifty the log
scan looks at; nobody else commits the approved changes.

**Run** `pull_requests` (hard gates on): two requests, two merges, one deed of others of seven kinds,
one crash, three commits: one of the run, one of somebody else and one that a mistaken retry would make.

* `PublishedAsRecorded`: a pull request on record exists and GitHub has the recorded commit.
* `WorkNeverStranded`: the changes are in the tree, or a retry finds their commit.
* `MergesWhatWasRecorded` (action property): what is merged without a rationale is the recorded commit,
  if the remote branch stood still. Nothing pins the head that `gh pr merge` takes.
* `PanelKeepsItsWord` (`PrPage`): what the panels announce (a commit will be made or reused, the push skipped, the
  pull request is there, the button works, a merge is possible) comes true.

Observed: after `switch` with a clean tree the panel announces "Commit will be created" though there
is nothing to commit after the checkout; a commit that another makes between `git commit` and
`git rev-parse` is recorded as the run's; a merge whose answer was lost leaves the row `failed` while GitHub
has merged, and from then on the readiness is "blocked: already merged", no row ever says `merged`, and the
deployment readiness that asks for one stays blocked.

**Proofs.** `IInv == TypeOK /\ Numbered /\ Tracked /\ Alone /\ (Calm => \A q : Achieved(q)) /\ PublishedAsRecorded`.
`Achieved` says what a request has brought about by the place where it waits; it carries over another
request's steps because, while `Calm`, only one works on the row (`Alone`). The push is skipped when the tracking
ref names the tip, so the proof needs that what it names was pushed with all that precedes it (`Tracked`), and
for the prefix argument that no commit occurs twice in a log (`Numbered`). Theorems: `PullRequestTypes`,
`Published`.

`MergesTheRecorded`, an action property, rests on `HeadsSeen`: until a merge is asked of GitHub the remote branch is
as it was judged, or `moved` says otherwise; every step that moves it beside a merge says so (`Remote`). `WorkStays` rests on `Saved`:
HEAD is on the run's branch when a request stages and commits there, and the changes are in the tree or in a commit of the
branch, which only grows. `PanelIsTrue` rests on `Sole`: the run has at most one commit of its own, and what a
request read of it holds until it commits; and on `Told`, that a merge on record is one.

## 8. DeploymentControl, ReleasePage, ReleasePanels

**State.** The tables of `EC/release` as sequences in order of creation: `checks`, `approvals`, `executions` and
`probes` (each execution and probe with the wait its handler is in), and the newest row of the health policy
(`policy`), the checklist and the sign-off. `published` is what `PullRequests` has the detail of. `unjudged` is
history: executions whose evaluation was lost with a handler.

**Actions.** One per handler (`CheckReadiness`, `ApproveDeployment`, `RejectDeployment`, `EvaluateHealthPolicy`,
`EvaluateChecklist`, `SignOff`), three for an execution (`Execute`, `ScriptEnds`/`ScriptThrows`, `JudgeExecution`)
and three for a health check (`CheckHealth`, `ProbeAnswers`, `JudgeProbe`), since the handler waits for a script or a
probe and then for the refresh of the bundle. The hard gates are guards (`GateStopsDeployment`,
`GateStopsSignoff`) under the constant `HardGates`.

**Abstractions.** One run, active environments with executable profiles; readiness asks for the type of an
environment (`Production`) and the health policy for its name (`NamedProduction`), and the two sets are
independent constants; no two rows of a table carry one timestamp; a rationale is present or not; the checklist
keeps its three verdicts and the items that decide them.

What `Summary` says of the audit chain (`verifyAuditChainForRun`) is left out: neither the command center nor the
stepper, the two views of this page, reads it.

**Run** `release`: one production environment behind the hard gates, one readiness check, two approvals, two
executions, two probes, one crash: the least with which two executions of one approval, two approvals, two
answers in the wrong order and a policy about an older execution occur. What the run stands on moves, at any
time and any number of times, between three reports: everything in order; an approval that a death kept from the
run, with a replay that fails (a hard gate stops it); a quality gate that failed (no hard gate looks at it).

* `OneDeploymentPerApproval`: once a script of an approval runs or has succeeded, no other starts, though only a
  read of the running rows stands before the insert.
* `PolicyFollowsNewestProbe`: when no handler is left to run, the policy says what the newest probe found.
* `CompletedWasDeployedHealthy`: a release signed off as completed was merged, deployed under an approval and
  answered a probe, though the sign-off looks only at the stored checklist.
* `AdviceCanBeFollowed`: where the command center sends the operator, the panel has the way on and the
  handler takes it; or the banner over the panel says that a gate is blocked; or the reason is one that
  the command center overlooks (`Overlooked`: a failed gate, a protected path, an unverified repository, a missing
  approval), and the check that the panel previews lists it. The last is the case of the third report:
  the operator is sent to a deployment that `evaluateDeploymentReadiness` blocks and no banner announces.
* `ReleaseViewsAgree`: command center and stepper agree on a released run.

Observed:

* With the hard gates on, a failed deployment cannot be repeated: the checklist item is critical and blocked
  with the advice "Re-run deployment after resolving failures" (`build-release-checklist.ts:558`), a blocked
  checklist blocks the execution (`evaluate-hard-release-gate.ts:63-77`), and evaluating it anew gives the same.
* The banner looks for "policy" before "health policy" (`release-gate-ux.ts:40`, `:84`), so the blocker of an unhealthy
  deployment leads to the policy results, and the branch for the health policy is never reached, where
  `docs/operator-runbook.md:702` has the checklist jump to the health policy. The property is about whether the
  banner says that it is blocked; the links are not modelled.
* The command center advises a deployment approval for a run with a failed quality gate, a protected path or an
  unverified repository; the readiness check then blocks it (`evaluate-deployment-readiness.ts:240-246`).
* `getHardReleaseGateStatusForRun` evaluates `completed_with_exceptions` without a rationale
  (`release-gate-manager.ts:55-67`): with the hard gates on it is always blocked, and the operator queue, whose buckets
  `docs/operator-ux-guide.md:186` describes, puts every run among the blocked (`operator-queue.ts:155-163`).
* The deployment gates panel sends the newest check of any environment, and previews live readiness only
  until its first own action. The sign-off panel offers decisions by the live checklist before one
  is stored, and all of them are then refused. A rejected sign-off can, with the hard gates, not be followed by
  `completed`. A duplicate execution request leaves a row `pending` that, being the newest, hides the
  success. A policy `not_checked` from before the deployment lets the command center pass the health
  step. The command center stays at "review" when the policy requires one although all stages are approved.

**Proofs.** `IInv == TypeOK /\ Linked /\ OneDeploymentPerApproval /\ Signed`. `Linked`: an execution has an approval
that was given, a probe an execution that has succeeded; rows do not go back. `Signed`: a complete checklist, and a
completed sign-off, stand over a merge and a healthy probe; it is inductive because a probe's answer is never
revised. Theorems: `DeploymentTypes`, `OneDeployment`, `CompletedIsHealthy`, with the hard gates or without.

`PolicyFollowsProbes` rests on `PolicyIsCurrent`: a result that lost no evaluation says what would be judged now,
or a probe of its execution is still in flight. The newest probe is a CHOOSE of a maximum, which `LastOf` shows to
exist by well-founded induction on the sets of later rows.

`ViewsOfAReleaseAgree` has no hypothesis. It is a theorem about `RunGuidance`: of the fourteen questions of the command
center the first that is answered yes (`StageFound`) is about a step that the stepper has not ticked off, and all before
it are ticked off, but for the steps in `Differing`, where the two are known to disagree.

`AdviceIsGood` adds `Vouched`: an approval that approves was given on a check that was not blocked, with a rationale where
one was wanted, which the execution asks for again. It has no hypothesis either: where the run is not approved or not
sound, or, without the hard gates, its replay has warnings (which the command center passes over, `AtReplay`), the
advice may not be followed, and the theorem says that the panel's own check then lists why.

## 9. VeraBridge, VeraTrail, VeraPage

**State.** `status`, `step` are the row of the run; `docs[d]` says of each of the eight documents whether its file is
there and whether the notes have its hash; `verdicts` are the decisions in the notes; `git` is the shared checkout
(tree, index, log, branches, HEAD), `entries` the content of the approved draft, `pipeline` and `request[q]` what
waits. `touched` is history: somebody used the checkout under a git request.

**Actions.** A handler is `Stands /\ Ready` followed by its writes, and may die after its file, after its row or
not at all (`end`). `ApplyBreaksOff` is a write that throws or a death among the files, for which there is
no rollback. The commit is one action per git command (`AskCommit`, `AddFile`, `CheckStaged`, `GitCommit`,
`RecordCommit`), the pull request preparation two. `Close` is `handleApprovalAction`, which looks at no status,
`Outside` people in the checkout.

**Abstractions.** One task and its one run; files are absent, as before, as the draft says, or else; quality gates
pass when the files on the run's branch are those of the draft; hashes tell documents apart.

**Trail and page.** `VeraTrail` gives every handler the events it appends, by the course it takes
(done, repeated, refused, failed), and `VeraPage` the sixteen panels of the run page with the one that keeps
the run it was mounted with.

**Run** `vera_bridge`: two files (one may be created and one modified), two git requests, three commits (the
base, the run's and another), one deed of others, one death.

* `CommitIsApproved`: on the commit of its proposal the recorded commit changes the drafted files, to what the draft
  says, and nothing else, though four git commands run after the last check, beside another request.
* `StepsInOrder`: documents and decisions come one at a time, each on all earlier ones, and none is lost.
* `ApprovedRunStartsNothing`: after an approval of the run as a whole no step starts, also when a commit in flight
  has set the row back to waiting.
* `DeadEndsOfApplication`: an approved draft that cannot be applied is stuck for one of the named reasons.
* `ToldAsRecorded`, `InterruptionsShow`: ledger and notes differ in at most as many steps as the process died
  times, and every such step shows as a request without an answer.
* `PageLeadsOn`: while nothing is under way exactly one panel offers its request, or the run is at one of the named ends.

Observed: the start panel is mounted a step early and keeps its run, so after the approval request the
Start button stays disabled until the page is reloaded (`vera-execution-start-panel.tsx:34-37`, `:83`). A death
between the note of the start and `executeRun` leaves a run neither started nor startable. A repeated start
appends a request that is never answered (`start-vera-execution.ts:90`, `:108`). Two overlapping
preparations of the pull request both record. The worker tells of its artifact before the row has it
(`vera-implementation-run-pipeline.ts:130-144`). When `git rev-parse` fails after the commit, the run stays at
`commit_proposed` with a HEAD that no readiness accepts any more.

**Proofs.** `IInv` is `TypeOK`, `HeadExists` (branches point to commits), `PastStart` (an approved run is past its
start), `Settled` (what a commit rests on is decided before it and not changed by anyone after), and, while not
`touched`, for each request what it may rely on at the command it waits for (`Undisturbed`) and the approved
content of the recorded commit. Two requests may stage and commit the same files; the argument is that
a commit once made leaves nothing staged (`Made`), so the second commit command has nothing to commit, and that
staging an approved file twice changes nothing. Every other step is `Calm`: it changes neither the checkout while a
request commits, nor draft and target once a commit is proposed. Theorems: `VeraTypes`, `ApprovedStartsNothing`,
`CommitIsAsApproved`.

`StepsComeInOrder` rests on `Lined`: the twelve stages that are reached are the first so many (`Chain`), the row's `step` and
the requests under way are where the notes say (`Begun`, `Placed`, `Late`). `ApplicationEndsWhereItSays` adds `Fresh` (up to the commit
nothing recorded is written again) and `Missing` (a file that is not there was never in a commit). For the trail, `Story` adds
`Once` (one commit is made, recorded once) and `TInv`: each step is told at most once, one that is told and not
on record or the reverse has an unanswered request, and there are at most as many of these as deaths. For
the page, `PInv` says what a run looks like that nobody interfered with: status and step go together (`Row`), the
checkout holds what the bridge put there (`Alone`), a passed report is about an application (`Vouched`), and a step is
done or not begun (`Whole`). `PInv` was checked by TLC on the run `vera_bridge` before it was proved.

## 10. HermesWorker

`dispatches`, `rows` and `results` are the tables, `reports` and `saved` the two JSON files of a dispatch, `tree` the
working tree, where a file is the sequence of what was written to it (so that appends and overwrites by several
patches can be told apart). A file may hold bytes that are no UTF-8 (`Raw`); what is read as a string (`Decoded`), for the
rollback file or to append to it, has U+FFFD in their place (`Mangled`). `ApplyPatch`, `Rollback` write all files and then the rows in one tick; `ApplyBreaksOff`
and `RollbackBreaksOff` stop anywhere. `StartGates`, `RunGate` run a batch gate by gate. `Approvable` is what a
sign-off is told: the newest report that shows a patch, its row, the gates of the newest batch.

**Run** `hermes`: two dispatches over two files whose plans meet in one, each file absent, text or not UTF-8 at the
start, one gate, one batch, one trouble (exception, death or an edit by others): patches apply, roll back and retry
in any order. One gate is enough, since the statuses of a batch are only ever looked at as a set.
`RollbackRestores`: a rollback gives each file back as it was before the patch was first written, read as UTF-8; what
an attempt that broke off had written, it gives back too, and the property says so instead of leaving retries out.
`SignedPatchIsInTree`: a patch that an approval is shown is in the tree on top of what was there (or of the half of a
broken-off attempt), unless another's write came in between, which `history` says.

Observed:

* A rollback does not restore a file that is no UTF-8: the bytes come back as U+FFFD (`apply-hermes-patch.ts:74`, `:337`).
  A retry of a patch that broke off takes its rollback file of the half-applied tree (`:102`), so that its rollback
  leaves the patch there, and files that the first attempt created. `RollbackRestores` without `Decoded`, or without its
  second disjunct, is violated by each in a few steps.
  `docs/architecture/hermes-controlled-patch-application-phase-9.md:54` says that a rollback restores the prior contents.
* The summary of the gates is of the run's newest batch (`read-hermes-post-apply-quality-gates.ts:55`), which may be of
  another patch than the one shown: after gates on dispatch 1 and the application of dispatch 2, dispatch 2 is
  approved without an override. `docs/architecture/engineering-review-signoff-phase-11.md:34` asks that the gates have
  passed. No property is about the gates: an override, which is free, lets any approval pass without them.

**Proofs.** `IInv == TypeOK /\ \A d : Kept(d) /\ Filed(d) /\ Intact(d)`: what is saved of an applied patch is what was
there before, or the half of a broken-off attempt (`Kept`); only a dispatch has a report (`Filed`); and the files of a patch
that its row, or without one its report, claims (`Claimed`) hold it (`InTree`) until something else writes them
(`Intact`). Theorems: `WorkerTypes`, `RollbackGivesBack`, `SignedIsInTree`, for any files, plans, dispatches and gates.

## 11. What stays with TLC, and what is not modelled

Every invariant and every action property that a passing run checks is also a theorem, for all values of the
constants. The theorems assume the named assumptions on constants; three also have hypotheses of their own, stated where they
stand: `MergedIsCandidates`, and the two of the candidate panel, that requests come one at a time (section 5). Each run gives its constants
values that meet the hypotheses of the theorems about its properties, so none of them is empty. The serial theorems
of section 3 are about `SpecOnePerRun`, and `ClosesOverWorking` and `ProducesOverWorking` about behaviours before requests
overlap, because the properties themselves are.

Liveness under fairness and ENABLED are outside the prover's reach, so `RunSettles` and `DecisionGetsLaterBundle` are
checked on the small instance only. `RunVerifies` is violated, which is its point.

Not modelled:

* Model router: one provider call per draft, no state shared between requests.
* Repository intelligence: scans that fill tables of their own, for which nothing governed waits.
* Security: authentication and roles stand in front of the routes; every model starts behind them.
* The preview and proof tools of the bridge (`local-model-coding-*`, `placeholder-*`): they write reports and change no run.
* The canvas, the setup wizard and the dashboards of counts: no state of their own.
* The experimental runtime and the database scripts: outside the governed path.

Every component and the reason is listed in `PROJECT.json`, with the hazards no property covers yet and why.

## 12. Running

`tlc -config RunSerial.cfg MCRunLifecycle` and the like; `PROJECT.json` pairs each configuration with its module.
Most runs take seconds to a minute; `delivery`, `pull_requests`, `release` and `candidate_overlap` some minutes on one core.
`tlapm RunLifecycleProofs.tla` and the other `*Proofs` modules check the proofs.
