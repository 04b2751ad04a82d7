------------------------------ MODULE VeraBridge ------------------------------
(***************************************************************************)
(* The Vera bridge: a handed-over task becomes an implementation run whose *)
(* artifact, patch proposal, patch content, quality report, commit and     *)
(* pull request are prepared one by one, each on its own request and most  *)
(* after a review.  A step keeps a document on disk and its hash in the    *)
(* notes of the run; the next step compares the two, and later ones also   *)
(* the files and the HEAD of the checkout, which is shared with everybody. *)
(*                                                                         *)
(* All handlers are synchronous, but for the pipeline that makes the       *)
(* artifact and for the commit and the preparation of the pull request,    *)
(* which wait for git.  A step is one wait with what follows it.           *)
(*                                                                         *)
(* Scope: one task and its one run; the files the draft is about and one   *)
(* branch besides the run's; the governance of the run lets it be          *)
(* approved once the pipeline has made the artifact.                       *)
(***************************************************************************)
EXTENDS Naturals, Sequences, FiniteSets

CONSTANTS
  Paths,       \* files of the checkout that matter here
  Requests,    \* git requests in flight at once
  MaxCommits,  \* bound: commits of the checkout, the first included
  MaxDeeds,    \* bound: what others do to the checkout
  MaxCrashes   \* bound: deaths of the server process

ASSUME PathsAssumption == IsFiniteSet(Paths) /\ Paths # {}
ASSUME BoundsAssumption ==
  MaxCommits \in Nat \ {0} /\ MaxDeeds \in Nat /\ MaxCrashes \in Nat

VARIABLES
  status,    \* run.status
  step,      \* run.currentStep
  docs,      \* each document: its file, and whether the notes have its hash
  verdicts,  \* the decisions in the notes
  started,   \* the notes say that the start was requested
  completed, \* the audit events have a RUN_COMPLETED
  panel,     \* what the events of the proposal application leave behind
  entries,   \* the entries of the patch content draft
  passed,    \* overallStatus of the quality report is "passed"
  target,    \* HEAD in the commit proposal, the parent in the commit report
  sha,       \* the commit in the commit report
  git,       \* the shared checkout
  pipeline,  \* what executeRun waits for
  request,   \* what each git request waits for, and the files left to stage
  deeds,     \* deeds of others so far
  crashes,   \* deaths so far
  touched    \* history: somebody used the checkout under a git request

run == <<status, step>>
notes == <<docs, verdicts, started>>
work == <<entries, passed, target, sha>>
actors == <<pipeline, request>>
faults == <<deeds, crashes, touched>>
vars == <<status, step, docs, verdicts, started, completed, panel, entries, passed,
          target, sha, git, pipeline, request, deeds, crashes, touched>>

-----------------------------------------------------------------------------
(* Types *)

Statuses == {"none", "pending", "preparing_workspace", "creating_branch",
             "generating_patch", "running_quality_gates", "waiting_for_approval", "completed", "failed"}

Steps == {"none", "prepared", "approval_requested", "working", "failed", "decided",
          "artifact_blocked", "artifact_ready", "artifact_approved", "artifact_rejected",
          "proposal_ready", "proposal_approved", "proposal_rejected",
          "draft_ready", "draft_approved", "draft_rejected", "patch_applied",
          "gates_completed", "report_approved", "report_rejected",
          "commit_proposed", "commit_created", "pull_request_prepared"}

Documents == {"artifact", "proposal", "draft", "application", "report",
              "commit_proposal", "commit", "preparation"}

(* "written": there is a file, and no hash in the notes; "stale": there is *)
(* one, of an earlier file.                                                *)
Files == {"none", "written", "recorded", "stale"}

Reviewed == {"artifact", "proposal", "draft", "report"}
Decisions == {"approved", "rejected"}

Contents == {"absent", "base", "draft", "other"}
Trees == [Paths -> Contents]
Branches == {"run", "other"}
Commits == 0..MaxCommits   \* in the order they are made; 0: none

Checkouts == [tree : Trees, index : Trees,
              log : Seq([tree : Trees, parent : Commits]),
              tip : [Branches -> Commits], head : Branches]

Waits == {"idle", "add", "check", "commit", "rev_parse", "inspect"}
Idle == [wait |-> "idle", todo |-> {}]

-----------------------------------------------------------------------------
(* What the readiness functions look at *)

Recorded(d) == docs[d] = "recorded"
Noted(d) == docs[d] \in {"recorded", "stale"}
Approved(d) == verdicts[d] = "approved"

(* Mutant: only the row is looked at. *)
WaitsInRowAt(s) == status = "waiting_for_approval" /\ step = s

(* The run waits at this step, and nothing says that it is completed.      *)
WaitsAt(s) == status = "waiting_for_approval" /\ step = s /\ ~completed

Targets == {p \in Paths : entries[p] # "none"}

HeadTree == git.log[git.tip[git.head]].tree

OnRunBranch == git.head = "run"
FilesAsApplied == \A p \in Targets : git.tree[p] = "draft"

(* Staged names: git diff --cached --name-only. *)
Staged == {p \in Paths : git.index[p] # HeadTree[p]}

ChangedBy(c) ==
  {p \in Paths : git.log[c].tree[p] # git.log[git.log[c].parent].tree[p]}

(* forbiddenPriorPatchApplicationAuditEvents *)
PanelAllows == panel \in {"untouched", "refused"}

-----------------------------------------------------------------------------
(* Deaths *)

Dies ==
  /\ crashes < MaxCrashes
  /\ crashes' = crashes + 1
  /\ pipeline' = "idle"
  /\ request' = [q \in Requests |-> Idle]

Lives == UNCHANGED <<crashes, actors>>

(* Mutant: the hash is taken out of the notes before the file is written.  *)
Withdrawn(d) == [docs EXCEPT ![d] = "written"]

(* The file is another one than the notes know. *)
Unrecorded(d) == [docs EXCEPT ![d] = IF Noted(d) THEN "stale" ELSE "written"]

(* How far a handler gets: its file, its row, its answer. *)
Ends == {"file", "row", "answer"}

(* The file is written, then the row, then the audit event: the process    *)
(* can die in between.                                                     *)
Record(d, next, end) ==
  IF end = "file"
  THEN docs' = Unrecorded(d) /\ UNCHANGED run
  ELSE /\ docs' = [docs EXCEPT ![d] = "recorded"]
       /\ status' = "waiting_for_approval"
       /\ step' = next

Writes(d, next, end) ==
  Record(d, next, end) /\ IF end = "answer" THEN Lives ELSE Dies

(* A handler that writes no file. *)
Answers(end) == end # "file" /\ IF end = "answer" THEN Lives ELSE Dies

(* A decision writes the row only. *)
Decides(d, verdict, steps, end) ==
  /\ verdicts[d] = "none"
  /\ verdicts' = [verdicts EXCEPT ![d] = verdict]
  /\ status' = "waiting_for_approval"
  /\ step' = steps[verdict]
  /\ Answers(end)
  /\ UNCHANGED <<docs, started, completed, panel, work, git, deeds, touched>>

-----------------------------------------------------------------------------
(* Preparing and starting the run *)

(* A task has at most one prepared run. *)
PrepareRun(end) ==
  /\ status = "none"
  /\ status' = "pending" /\ step' = "prepared"
  /\ Answers(end)
  /\ UNCHANGED <<notes, completed, panel, work, git, deeds, touched>>

RequestApproval(end) ==
  /\ status = "pending" /\ step = "prepared"
  /\ step' = "approval_requested"
  /\ Answers(end)
  /\ UNCHANGED <<status, notes, completed, panel, work, git, deeds, touched>>

(* The notes say that the run is started, then executeRun begins; a death  *)
(* in between leaves a run that is neither started nor startable.          *)
StartExecution(end) ==
  /\ status = "pending" /\ step = "approval_requested"
  /\ ~started
  /\ end # "file"
  /\ started' = TRUE
  /\ IF end = "answer"
     THEN /\ status' = "preparing_workspace" /\ step' = "working"
          /\ pipeline' = "verify"
          /\ UNCHANGED <<request, crashes>>
     ELSE Dies /\ UNCHANGED run
  /\ UNCHANGED <<docs, verdicts, completed, panel, work, git, deeds, touched>>

-----------------------------------------------------------------------------
(* executeRun and the pipeline of the implementation artifact *)

VerifyRepo ==
  /\ pipeline = "verify"
  /\ status' = "creating_branch" /\ step' = "working"
  /\ pipeline' = "branch"
  /\ UNCHANGED <<notes, completed, panel, work, git, request, faults>>

(* A branch that git would not make is not missed.  The worker follows in  *)
(* the same step.                                                          *)
MakeBranch(made) ==
  IF made THEN /\ git.tip["run"] = 0
               /\ git' = [git EXCEPT !.tip["run"] = git.tip[git.head], !.head = "run"]
          ELSE UNCHANGED git

ImplementArtifact(outcome, made) ==
  /\ pipeline = "branch"
  /\ MakeBranch(made)
  /\ IF outcome = "failed"
     THEN /\ status' = "failed" /\ step' = "failed"
          /\ pipeline' = "idle"
          /\ UNCHANGED docs
     ELSE /\ docs' = [docs EXCEPT !["artifact"] = "recorded"]
          /\ status' = "running_quality_gates" /\ step' = "working"
          /\ pipeline' = outcome
  /\ UNCHANGED <<verdicts, started, completed, panel, work, request, faults>>

(* The worker tells of its artifact before the row knows it. *)
WorkerDies(made) ==
  /\ pipeline = "branch"
  /\ MakeBranch(made)
  /\ docs' = [docs EXCEPT !["artifact"] = "written"]
  /\ status' = "generating_patch" /\ step' = "working"
  /\ Dies
  /\ UNCHANGED <<verdicts, started, completed, panel, work, deeds, touched>>

(* The gates are skipped; whatever became of the run meanwhile, it waits.  *)
AwaitReview ==
  /\ pipeline \in {"artifact_ready", "artifact_blocked"}
  /\ status' = "waiting_for_approval" /\ step' = pipeline
  /\ pipeline' = "refresh"
  /\ UNCHANGED <<notes, completed, panel, work, git, request, faults>>

RefreshEvidence ==
  /\ pipeline = "refresh"
  /\ pipeline' = "idle"
  /\ UNCHANGED <<run, notes, completed, panel, work, git, request, faults>>

(* The catch of executeRun, also when the artifact is already reviewed.    *)
FailPipeline ==
  /\ pipeline # "idle"
  /\ pipeline' = "idle"
  /\ status' = "failed" /\ step' = "failed"
  /\ UNCHANGED <<notes, completed, panel, work, git, request, faults>>

-----------------------------------------------------------------------------
(* From the artifact to the approved patch content *)

ArtifactReviewReady == WaitsAt("artifact_ready") /\ Recorded("artifact")

ReviewArtifact(verdict, end) ==
  /\ ArtifactReviewReady
  /\ Decides("artifact", verdict,
             [approved |-> "artifact_approved", rejected |-> "artifact_rejected"], end)

ProposalStands ==
  WaitsAt("artifact_approved") /\ Approved("artifact") /\ ~Noted("proposal")

ProposalReady == ProposalStands /\ Recorded("artifact")

(* An unrecorded file of an earlier attempt is overwritten. *)
CreateProposal(end) ==
  /\ ProposalReady
  /\ Writes("proposal", "proposal_ready", end)
  /\ UNCHANGED <<verdicts, started, completed, panel, work, git, deeds, touched>>

ProposalReviewStands == WaitsAt("proposal_ready") /\ Approved("artifact")

ProposalReviewReady ==
  ProposalReviewStands /\ Recorded("artifact") /\ Recorded("proposal")

ReviewProposal(verdict, end) ==
  /\ ProposalReviewReady
  /\ Decides("proposal", verdict,
             [approved |-> "proposal_approved", rejected |-> "proposal_rejected"], end)

(* Applying the proposal itself: it never has content, so the request is   *)
(* refused; a phrase that is not the exact one is refused otherwise, and a *)
(* death leaves the request without an answer.                             *)
ApplyProposal(answer) ==
  /\ status # "none" /\ ~Noted("application")
  /\ IF answer = "death" THEN Dies ELSE Lives
  /\ panel' = IF panel \in {"untouched", "refused"}
              THEN [content |-> "refused", phrase |-> "blocked", death |-> "open"][answer]
              ELSE panel
  /\ UNCHANGED <<run, notes, completed, work, git, deeds, touched>>

DraftStands ==
  /\ WaitsAt("proposal_approved")
  /\ Approved("artifact") /\ Approved("proposal")
  /\ ~Noted("application") /\ ~Noted("draft")

DraftReady == DraftStands /\ Recorded("artifact") /\ Recorded("proposal") /\ PanelAllows

(* What an entry expects to find in its file is kept and never compared.   *)
CreateDraft(new, end) ==
  /\ DraftReady
  /\ \E p \in Paths : new[p] # "none"
  /\ entries' = new
  /\ Writes("draft", "draft_ready", end)
  /\ UNCHANGED <<verdicts, started, completed, panel, passed, target, sha, git,
                 deeds, touched>>

DraftReviewStands ==
  WaitsAt("draft_ready") /\ Approved("artifact") /\ Approved("proposal")

DraftReviewReady ==
  DraftReviewStands /\ Recorded("draft") /\ docs["application"] = "none" /\ PanelAllows

ReviewDraft(verdict, end) ==
  /\ DraftReviewReady
  /\ Decides("draft", verdict,
             [approved |-> "draft_approved", rejected |-> "draft_rejected"], end)

-----------------------------------------------------------------------------
(* Applying the approved content *)

(* Mutant: a file is modified only if it is as the draft expected it.      *)
EntryFitsExpected(p) ==
  CASE entries[p] = "none" -> TRUE
    [] entries[p] = "modify" -> git.tree[p] = "base"
    [] entries[p] = "create" -> git.tree[p] = "absent"

(* validateApplicablePatchEntry *)
EntryFits(p) ==
  CASE entries[p] = "none" -> TRUE
    [] entries[p] = "modify" -> git.tree[p] # "absent"
    [] entries[p] = "create" -> git.tree[p] = "absent"

ReviewsApproved == Approved("artifact") /\ Approved("proposal") /\ Approved("draft")

ApplicationStands ==
  /\ WaitsAt("draft_approved")
  /\ ReviewsApproved

ApplicationUntried ==
  Recorded("draft") /\ docs["application"] = "none" /\ PanelAllows

ApplicationReady ==
  ApplicationStands /\ ApplicationUntried /\ \A p \in Paths : EntryFits(p)

Written(some) == [git EXCEPT !.tree = [p \in Paths |-> IF p \in some THEN "draft" ELSE @[p]]]

(* On whatever branch is checked out. *)
ApplyDraft(end) ==
  /\ ApplicationReady
  /\ git' = Written(Targets)
  /\ Writes("application", "patch_applied", end)
  /\ UNCHANGED <<verdicts, started, completed, panel, work, deeds, touched>>

(* A write throws, or the process dies between two: there is no rollback.  *)
ApplyBreaksOff(some, survives) ==
  /\ ApplicationReady
  /\ some \subseteq Targets
  /\ git' = Written(some)
  /\ IF survives THEN Lives ELSE Dies
  /\ UNCHANGED <<run, notes, completed, panel, work, deeds, touched>>

-----------------------------------------------------------------------------
(* From the applied patch to the commit proposal *)

GatesStand == WaitsAt("patch_applied") /\ ReviewsApproved

GatesReady ==
  /\ GatesStand
  /\ Recorded("application") /\ docs["report"] = "none"
  /\ \A p \in Targets : git.tree[p] # "absent"

(* The report of gates that failed is kept like any other. *)
RunGates(end) ==
  /\ GatesReady
  /\ passed' = (OnRunBranch /\ FilesAsApplied)
  /\ Writes("report", "gates_completed", end)
  /\ UNCHANGED <<verdicts, started, completed, panel, entries, target, sha, git,
                 deeds, touched>>

ReportReviewStands ==
  WaitsAt("gates_completed") /\ ReviewsApproved /\ Noted("application")

(* Also a rejection asks for a report that passed. *)
ReportReviewReady == ReportReviewStands /\ Recorded("report") /\ passed

ReviewReport(verdict, end) ==
  /\ ReportReviewReady
  /\ Decides("report", verdict,
             [approved |-> "report_approved", rejected |-> "report_rejected"], end)

CommitProposalStands ==
  WaitsAt("report_approved") /\ Approved("report") /\ docs["commit_proposal"] = "none"

CommitProposalDocuments == Recorded("application") /\ Recorded("report") /\ passed

ProposalOfCommitReady ==
  CommitProposalStands /\ CommitProposalDocuments /\ OnRunBranch /\ FilesAsApplied

ProposeCommit(end) ==
  /\ ProposalOfCommitReady
  /\ target' = git.tip["run"]
  /\ Writes("commit_proposal", "commit_proposed", end)
  /\ UNCHANGED <<verdicts, started, completed, panel, entries, passed, sha, git,
                 deeds, touched>>

-----------------------------------------------------------------------------
(* The commit *)

At(q, wait) == request[q].wait = wait
Goes(q, wait) == request' = [request EXCEPT ![q].wait = wait]
Leaves(q) == request' = [request EXCEPT ![q] = Idle]

CommitStands == WaitsAt("commit_proposed") /\ docs["commit"] = "none"

(* Mutant: the files are not compared again. *)
CommitReadyOnBranch ==
  CommitStands /\ Recorded("commit_proposal") /\ OnRunBranch /\ git.tip["run"] = target

HeadAsProposed == OnRunBranch /\ git.tip["run"] = target

CommitReady ==
  CommitStands /\ Recorded("commit_proposal") /\ HeadAsProposed /\ FilesAsApplied

AskCommit(q) ==
  /\ At(q, "idle")
  /\ CommitReady
  /\ request' = [request EXCEPT ![q] = [wait |-> "add", todo |-> Targets]]
  /\ UNCHANGED <<run, notes, completed, panel, work, git, pipeline, faults>>

(* git add, one file after the other; what is staged stays staged. *)
AddFile(q, p) ==
  /\ At(q, "add")
  /\ p \in request[q].todo
  /\ git' = [git EXCEPT !.index[p] = git.tree[p]]
  /\ request' = [request EXCEPT
       ![q] = [wait |-> IF @.todo = {p} THEN "check" ELSE "add", todo |-> @.todo \ {p}]]
  /\ UNCHANGED <<run, notes, completed, panel, work, pipeline, faults>>

(* assertStagedDiffMatchesProposedFiles: by name *)
CheckStaged(q) ==
  /\ At(q, "check")
  /\ IF Staged = Targets THEN Goes(q, "commit") ELSE Leaves(q)
  /\ UNCHANGED <<run, notes, completed, panel, work, git, pipeline, faults>>

Committed == [git EXCEPT !.log = Append(@, [tree |-> git.index, parent |-> git.tip[git.head]]),
                         !.tip[git.head] = Len(git.log) + 1]

GitCommit(q) ==
  /\ At(q, "commit")
  /\ Staged # {}
  /\ Len(git.log) < MaxCommits
  /\ git' = Committed
  /\ Goes(q, "rev_parse")
  /\ UNCHANGED <<run, notes, completed, panel, work, pipeline, faults>>

(* The notes are those of the start: a preparation recorded since is lost. *)
RecordCommit(q, end) ==
  /\ At(q, "rev_parse")
  /\ sha' = git.tip[git.head]
  /\ IF end = "file"
     THEN docs' = Unrecorded("commit") /\ UNCHANGED run
     ELSE /\ docs' = [docs EXCEPT !["commit"] = "recorded",
                        !["preparation"] = IF @ = "none" THEN "none" ELSE "written"]
          /\ status' = "waiting_for_approval" /\ step' = "commit_created"
  /\ IF end = "answer" THEN Leaves(q) /\ UNCHANGED <<crashes, pipeline>> ELSE Dies
  /\ UNCHANGED <<verdicts, started, completed, panel, entries, passed, target, git,
                 deeds, touched>>

-----------------------------------------------------------------------------
(* The preparation of the pull request *)

PreparationStands == WaitsAt("commit_created") /\ docs["preparation"] = "none"

HeadIsCommit == OnRunBranch /\ git.tip["run"] = sha

AskPreparation(q) ==
  /\ At(q, "idle")
  /\ PreparationStands /\ Recorded("commit") /\ HeadIsCommit
  /\ Goes(q, "inspect")
  /\ UNCHANGED <<run, notes, completed, panel, work, git, pipeline, faults>>

(* git has told the commit, its parent and its files; the files on disk    *)
(* are compared last.                                                      *)
PreparationReady == git.log[sha].parent = target /\ ChangedBy(sha) = Targets /\ FilesAsApplied

PreparePullRequest(q, end) ==
  /\ At(q, "inspect")
  /\ PreparationReady
  /\ Record("preparation", "pull_request_prepared", end)
  /\ IF end = "answer" THEN Leaves(q) /\ UNCHANGED <<crashes, pipeline>> ELSE Dies
  /\ UNCHANGED <<verdicts, started, completed, panel, work, git, deeds, touched>>

(* A git command fails, or the comparison does. *)
FailRequest(q) ==
  /\ ~At(q, "idle")
  /\ Leaves(q)
  /\ UNCHANGED <<run, notes, completed, panel, work, git, pipeline, faults>>

-----------------------------------------------------------------------------
(* Around the bridge *)

(* handleApprovalAction looks at no status: it stops a run in any.         *)
Close(action) ==
  /\ status # "none"
  /\ action = "approve" => Recorded("artifact")
  /\ status' = IF action = "approve" THEN "completed" ELSE "failed"
  /\ step' = "decided"
  /\ completed' = (completed \/ action = "approve")
  /\ UNCHANGED <<notes, panel, work, git, actors, faults>>

Deed ==
  /\ deeds < MaxDeeds
  /\ deeds' = deeds + 1
  /\ touched' = (touched \/ \E q \in Requests : ~At(q, "idle"))
  /\ UNCHANGED <<run, notes, completed, panel, work, actors, crashes>>

Edit(p, content) == Deed /\ git' = [git EXCEPT !.tree[p] = content]

Stage(p) == Deed /\ git' = [git EXCEPT !.index[p] = git.tree[p]]

CommitElse == Deed /\ Staged # {} /\ Len(git.log) < MaxCommits /\ git' = Committed

(* git checkout keeps what is changed, or refuses. *)
Switch(branch) ==
  LET there == git.log[git.tip[branch]].tree
      Changed(p) == git.tree[p] # HeadTree[p] \/ git.index[p] # HeadTree[p]
  IN /\ Deed
     /\ git.tip[branch] # 0
     /\ \A p \in Paths : Changed(p) => HeadTree[p] = there[p]
     /\ git' = [git EXCEPT !.head = branch,
                  !.tree = [p \in Paths |-> IF Changed(p) THEN @[p] ELSE there[p]],
                  !.index = [p \in Paths |-> IF Changed(p) THEN @[p] ELSE there[p]]]

Crash ==
  /\ \/ pipeline # "idle"
     \/ \E q \in Requests : ~At(q, "idle")
  /\ Dies
  /\ UNCHANGED <<run, notes, completed, panel, work, git, deeds, touched>>

Init ==
  /\ status = "none" /\ step = "none"
  /\ docs = [d \in Documents |-> "none"]
  /\ verdicts = [d \in Reviewed |-> "none"]
  /\ started = FALSE /\ completed = FALSE
  /\ panel = "untouched"
  /\ entries = [p \in Paths |-> "none"]
  /\ passed = FALSE /\ target = 0 /\ sha = 0
  /\ \E tree \in [Paths -> {"absent", "base"}] :
       git = [tree |-> tree, index |-> tree, log |-> <<[tree |-> tree, parent |-> 0]>>,
              tip |-> [b \in Branches |-> IF b = "other" THEN 1 ELSE 0], head |-> "other"]
  /\ pipeline = "idle"
  /\ request = [q \in Requests |-> Idle]
  /\ deeds = 0 /\ crashes = 0 /\ touched = FALSE

Start == \E end \in Ends : PrepareRun(end) \/ RequestApproval(end) \/ StartExecution(end)

Pipeline ==
  \/ VerifyRepo \/ AwaitReview \/ RefreshEvidence \/ FailPipeline
  \/ \E outcome \in {"failed", "artifact_ready", "artifact_blocked"}, made \in BOOLEAN :
       ImplementArtifact(outcome, made)
  \/ \E made \in BOOLEAN : WorkerDies(made)

Review ==
  \E verdict \in Decisions, end \in Ends :
    ReviewArtifact(verdict, end) \/ ReviewProposal(verdict, end)
      \/ ReviewDraft(verdict, end) \/ ReviewReport(verdict, end)

Document ==
  \E end \in Ends :
    \/ CreateProposal(end)
    \/ \E new \in [Paths -> {"none", "create", "modify"}] : CreateDraft(new, end)
    \/ ApplyDraft(end) \/ RunGates(end) \/ ProposeCommit(end)

Apply ==
  \/ \E answer \in {"content", "phrase", "death"} : ApplyProposal(answer)
  \/ \E some \in SUBSET Paths, survives \in BOOLEAN : ApplyBreaksOff(some, survives)

Git(q) ==
  \/ AskCommit(q) \/ CheckStaged(q) \/ GitCommit(q) \/ AskPreparation(q) \/ FailRequest(q)
  \/ \E p \in Paths : AddFile(q, p)
  \/ \E end \in Ends : RecordCommit(q, end) \/ PreparePullRequest(q, end)

Outside ==
  \/ \E p \in Paths, content \in {"base", "other"} : Edit(p, content)
  \/ \E p \in Paths : Stage(p)
  \/ CommitElse
  \/ \E branch \in Branches : Switch(branch)

Next ==
  \/ Start \/ Pipeline \/ Review \/ Document \/ Apply
  \/ \E q \in Requests : Git(q)
  \/ \E action \in {"approve", "request_fix", "stop"} : Close(action)
  \/ Outside \/ Crash

Spec == Init /\ [][Next]_vars

-----------------------------------------------------------------------------
(* Properties *)

(* Every variable keeps its shape. *)
TypeOK ==
  /\ status \in Statuses /\ step \in Steps
  /\ docs \in [Documents -> Files]
  /\ verdicts \in [Reviewed -> Decisions \cup {"none"}]
  /\ started \in BOOLEAN /\ completed \in BOOLEAN
  /\ panel \in {"untouched", "refused", "blocked", "open"}
  /\ entries \in [Paths -> {"none", "create", "modify"}]
  /\ passed \in BOOLEAN /\ target \in Commits /\ sha \in Commits
  /\ git \in Checkouts /\ Len(git.log) \in 1..MaxCommits
  /\ pipeline \in {"idle", "verify", "branch", "artifact_ready", "artifact_blocked", "refresh"}
  /\ request \in [Requests -> [wait : Waits, todo : SUBSET Paths]]
  /\ deeds \in 0..MaxDeeds /\ crashes \in 0..MaxCrashes /\ touched \in BOOLEAN

(* The commit on record is made of the approved content: on the commit of  *)
(* its proposal it changes the drafted files, to what the draft says, and  *)
(* nothing else, unless somebody used the checkout under the git commands  *)
(* (createVeraCommit).                                                     *)
CommitIsApproved ==
  Recorded("commit") /\ ~touched =>
    LET c == git.log[sha]
    IN /\ c.parent = target
       /\ c.tree = [p \in Paths |-> IF p \in Targets THEN "draft" ELSE git.log[target].tree[p]]

(* The dead ends of an approved draft: with the run still waiting, it      *)
(* cannot be applied for one of four reasons only, when nobody else wrote  *)
(* the files: a new file it had written already, a file to modify that is  *)
(* not there, a new file that is, a report whose row was never written, or *)
(* the other apply request (applyVeraApprovedPatchContentDraft).           *)
DeadEndsOfApplication ==
  WaitsAt("draft_approved") /\ deeds = 0 =>
    \/ ApplicationReady
    \/ \E p \in Targets : entries[p] = "create" /\ git.tree[p] # "absent"
    \/ \E p \in Targets : entries[p] = "modify" /\ HeadTree[p] = "absent"
    \/ docs["application"] = "written"
    \/ ~PanelAllows

(* A run that was approved as a whole starts no further step of the        *)
(* bridge, also when a commit in flight has set it back to waiting by then *)
(* (createVeraCommit overwrites the row; the RUN_COMPLETED event stays).   *)
ApprovedRunStartsNothing ==
  [][completed =>
       /\ verdicts' = verdicts /\ started' = started
       /\ \A q \in Requests : At(q, "idle") => request'[q].wait = "idle"
       /\ docs' # docs => pipeline # "idle" \/ \E q \in Requests : ~At(q, "idle")]_vars

(* How far the notes say the run has come. *)
Stages == <<Noted("artifact"), Approved("artifact"), Noted("proposal"),
            Approved("proposal"), Noted("draft"), Approved("draft"),
            Noted("application"), Noted("report"), Approved("report"),
            Noted("commit_proposal"), Noted("commit"), Noted("preparation")>>

Reached ==
  LET stages == Stages IN Cardinality({i \in 1..12 : \A j \in 1..i : stages[j]})

(* The documents and decisions of a run come one by one, each on top of    *)
(* all the earlier ones, and none is ever lost, whatever overlaps or dies: *)
(* only when somebody used the checkout under the git commands can the     *)
(* notes of an old read take a preparation back (createVeraCommit).        *)
StepsInOrder ==
  [][notes' # notes => touched' \/ Reached' \in {Reached, Reached + 1}]_vars

=============================================================================
