--------------------------- MODULE CommitCandidate ---------------------------
(***************************************************************************)
(* The commit candidates of one run, from the engineering sign-off to the  *)
(* merged pull request: sign off, prepare, local commit, push, pull        *)
(* request, merge readiness, merge.  Each step is a request of its own; it *)
(* validates the rows, waits for git or gh, writes an evidence file and    *)
(* then updates the candidate's row.                                       *)
(*                                                                         *)
(* A step of this module is one child process (its effect, and the check   *)
(* made on its answer), or the synchronous block that records the outcome. *)
(* Between two of them any other request, the server's death or somebody   *)
(* at the workstation or on GitHub may act.                                *)
(*                                                                         *)
(* Scope: the patch modifies files that exist and the worker plan allows   *)
(* exactly those; the recommended branch name is used, so the candidates   *)
(* of the run share one remote branch and one pull request; nobody rewrites*)
(* history, so a commit is named by its place in the log.                  *)
(***************************************************************************)
EXTENDS Naturals, Sequences

CONSTANTS
  Candidates,   \* ids of the run's commit candidates
  Requests,     \* requests in flight at once
  None,         \* no candidate
  GateResults,  \* what post-apply quality gates report, among Gates
  MaxVersion,   \* bound: versions of the patched files; 0 is without the patch
  MaxCommits,   \* bound: commits made on top of the base
  MaxSignoffs,  \* bound: sign-offs recorded
  MaxCrashes,   \* bound: deaths of the server process
  Others        \* what people do outside the Console, among Deeds

Gates == {"not_run", "passed", "failed"}
Deeds == {"edit", "commit", "push", "close", "merge"}

ASSUME NoneAssumption == None \notin Candidates
ASSUME GatesAssumption == GateResults \subseteq Gates /\ Others \subseteq Deeds
ASSUME BoundsAssumption == /\ MaxVersion \in Nat \ {0}
                           /\ MaxCommits \in Nat /\ MaxSignoffs \in Nat
                           /\ MaxCrashes \in Nat

VARIABLES
  candidate,  \* engineer_commit_candidates, one row per id
  file,       \* the evidence files of each candidate
  signoff,    \* the latest sign-off of the run
  patch,      \* status of the Hermes patch application
  gates,      \* the post-apply quality gates as they stand
  repo,       \* working tree, index and commits of the repository
  remote,     \* the remote branch and its pull request
  request,    \* the local state of each request in flight
  crashes     \* deaths so far

vars == <<candidate, file, signoff, patch, gates, repo, remote, request, crashes>>

-----------------------------------------------------------------------------
(* Types *)

Status == {"absent", "commit_candidate_prepared", "local_commit_created",
           "remote_branch_pushed", "pull_request_created",
           "pull_request_packet_prepared", "merge_readiness_recorded",
           "pull_request_merged"}
Versions == 0..MaxVersion
Commits == 0..MaxCommits              \* 0: no commit of the log
Modes == {"none", "live", "packet"}
Decisions == {"none", "ready", "not_ready"}

Rows == [status : Status, signoff : 0..MaxSignoffs, gates : Gates,
         override : BOOLEAN, hash : Commits, pushed : BOOLEAN, pr : Modes,
         readiness : Decisions, merged : BOOLEAN, sha : Commits]
Files == [push : Commits, pr : Modes, readiness : Decisions]

Signoffs == [id : 0..MaxSignoffs, approved : BOOLEAN, gates : Gates]
Repos == [tree : Versions, index : Versions, log : Seq(Versions)]
Remotes == [branch : Commits, pr : {"none", "open", "closed", "merged"}, head : Commits]

(* A request keeps what it read before it waited. *)
RequestStates ==
  [pc : {"idle", "signoff", "prepare", "commit_tree", "add", "commit", "rev_parse",
         "record_commit", "push_head", "push_status", "push", "record_push",
         "pr_list", "pr_create", "record_pr", "ready_view", "record_ready",
         "merge_view", "merge", "merged_view", "record_merge"},
   candidate : Candidates \cup {None}, approved : BOOLEAN, signoff : 0..MaxSignoffs,
   gates : Gates, override : BOOLEAN, decision : Decisions, commit : Commits]

EmptyRow == [status |-> "absent", signoff |-> 0, gates |-> "not_run",
             override |-> FALSE, hash |-> 0, pushed |-> FALSE, pr |-> "none",
             readiness |-> "none", merged |-> FALSE, sha |-> 0]

Idle == [pc |-> "idle", candidate |-> None, approved |-> FALSE, signoff |-> 0,
         gates |-> "not_run", override |-> FALSE, decision |-> "none", commit |-> 0]

-----------------------------------------------------------------------------
(* What the validations look at *)

HeadCommit == Len(repo.log)
HeadVersion == IF HeadCommit = 0 THEN 0 ELSE repo.log[HeadCommit]
Clean == repo.tree = repo.index /\ repo.index = HeadVersion

(* headRefOid: an open pull request follows the branch. *)
PrHead == IF remote.pr = "open" THEN remote.branch ELSE remote.head

SignoffStands(c) == signoff.approved /\ signoff.id = candidate[c].signoff
Applied == patch = "applied"

(* qualityGatesSatisfiedForApproval, qualityGatesOkFromPacket and          *)
(* qualityGatesCompleted agree on a finished run of the gates.             *)
GatesOk(g) == g = "passed"

Vetted(c) == SignoffStands(c) /\ Applied
DocumentedGates(c) == GatesOk(candidate[c].gates) \/ candidate[c].override
PushEvidenceAgrees(c) == /\ candidate[c].hash # 0
                         /\ candidate[c].pushed
                         /\ file[c].push = candidate[c].hash

(* validateLocalCommitForRun, up to the wait for the working tree. *)
MayCommit(c) == /\ candidate[c].status = "commit_candidate_prepared"
                /\ Vetted(c)
                /\ DocumentedGates(c)

(* validateRemoteBranchPushForRun, up to the wait for git. *)
MayPush(c) == /\ candidate[c].status = "local_commit_created"
              /\ candidate[c].hash # 0
              /\ Vetted(c)

PrStatuses == {"pull_request_created", "pull_request_packet_prepared"}

MayOpenPr(c) == /\ candidate[c].status = "remote_branch_pushed"
                /\ PushEvidenceAgrees(c)
                /\ Vetted(c)
                /\ DocumentedGates(c)

MayAssess(c) == /\ candidate[c].status \in PrStatuses \cup {"merge_readiness_recorded"}
                /\ PushEvidenceAgrees(c)
                /\ Vetted(c)
                /\ GatesOk(candidate[c].gates)

MayMerge(c) == /\ candidate[c].status = "merge_readiness_recorded"
               /\ candidate[c].readiness = "ready" /\ file[c].readiness = "ready"
               /\ candidate[c].pr = "live" /\ file[c].pr # "packet"
               /\ PushEvidenceAgrees(c)
               /\ Vetted(c)
               /\ GatesOk(candidate[c].gates)

-----------------------------------------------------------------------------
(* Requests *)

Free(q) == request[q].pc = "idle"
At(q, pc) == request[q].pc = pc

Wait(q, state) == request' = [request EXCEPT ![q] = state]
Goto(q, pc) == request' = [request EXCEPT ![q].pc = pc]

RowsKept == UNCHANGED <<candidate, file>>
ReviewKept == UNCHANGED <<signoff, patch, gates>>
WorldKept == UNCHANGED <<repo, remote>>

(* The block that ends a step: the evidence file, the row, the answer.  A  *)
(* server that dies in it may leave the file of a step the row denies, or  *)
(* a step on record that nobody was told of.                               *)
Save(q, c, row, evidence) ==
  /\ file' = [file EXCEPT ![c] = evidence]
  /\ \/ /\ candidate' = [candidate EXCEPT ![c] = row]
        /\ Wait(q, Idle)
        /\ UNCHANGED crashes
     \/ /\ crashes < MaxCrashes
        /\ crashes' = crashes + 1
        /\ request' = [r \in Requests |-> Idle]
        /\ candidate' \in {candidate, [candidate EXCEPT ![c] = row]}
  /\ ReviewKept /\ WorldKept

(* createEngineeringReviewSignoff: the gates are read before the evidence  *)
(* snapshot is awaited, the sign-off is inserted after it.                 *)
SignOff(q, approved, override) ==
  /\ Free(q)
  /\ signoff.id < MaxSignoffs
  /\ approved => Applied /\ (GatesOk(gates) \/ override)
  /\ Wait(q, [Idle EXCEPT !.pc = "signoff", !.approved = approved, !.gates = gates])
  /\ RowsKept /\ ReviewKept /\ WorldKept /\ UNCHANGED crashes

RecordSignoff(q) ==
  /\ At(q, "signoff")
  /\ signoff.id < MaxSignoffs
  /\ signoff' = [id |-> signoff.id + 1, approved |-> request[q].approved,
                 gates |-> request[q].gates]
  /\ Wait(q, Idle)
  /\ RowsKept /\ WorldKept /\ UNCHANGED <<patch, gates, crashes>>

(* prepareCommitCandidateForRun: the sign-off is the one found before the  *)
(* working tree is listed.                                                 *)
Prepare(q, c, override) ==
  /\ Free(q)
  /\ candidate[c].status = "absent"
  /\ \A p \in Requests : request[p].candidate # c
  /\ signoff.approved /\ Applied
  /\ GatesOk(gates) \/ override
  /\ Wait(q, [Idle EXCEPT !.pc = "prepare", !.candidate = c, !.signoff = signoff.id,
                          !.gates = signoff.gates, !.override = override])
  /\ RowsKept /\ ReviewKept /\ WorldKept /\ UNCHANGED crashes

RecordCandidate(q) ==
  /\ At(q, "prepare")
  /\ candidate' = [candidate EXCEPT ![request[q].candidate] =
                     [EmptyRow EXCEPT !.status = "commit_candidate_prepared",
                                      !.signoff = request[q].signoff,
                                      !.gates = request[q].gates,
                                      !.override = request[q].override]]
  /\ Wait(q, Idle)
  /\ ReviewKept /\ WorldKept /\ UNCHANGED <<file, crashes>>

(* A step on candidate c is requested, and goes on to wait at pc. *)
Begin(q, c, pc, decision) ==
  /\ Free(q)
  /\ Wait(q, [Idle EXCEPT !.pc = pc, !.candidate = c, !.decision = decision,
                          !.commit = candidate[c].hash])
  /\ RowsKept /\ ReviewKept /\ WorldKept /\ UNCHANGED crashes

(* A child process that only answers. *)
Checked(q, from, check, to) ==
  /\ At(q, from)
  /\ check
  /\ Goto(q, to)
  /\ RowsKept /\ ReviewKept /\ WorldKept /\ UNCHANGED crashes

RequestCommit(q, c) == MayCommit(c) /\ Begin(q, c, "commit_tree", "none")

(* assertWorkingTreeMatchesCandidate: getChangedFiles counts every allowed *)
(* file that exists as changed, so the names match, edited or not.         *)
CheckTree(q) == Checked(q, "commit_tree", TRUE, "add")

Add(q) ==
  /\ At(q, "add")
  /\ repo' = [repo EXCEPT !.index = repo.tree]
  /\ Goto(q, "commit")
  /\ RowsKept /\ ReviewKept /\ UNCHANGED <<remote, crashes>>

(* git commit fails when nothing is staged. *)
Commit(q) ==
  /\ At(q, "commit")
  /\ repo.index # HeadVersion
  /\ HeadCommit < MaxCommits
  /\ repo' = [repo EXCEPT !.log = Append(@, repo.index)]
  /\ Goto(q, "rev_parse")
  /\ RowsKept /\ ReviewKept /\ UNCHANGED <<remote, crashes>>

RevParse(q) ==
  /\ At(q, "rev_parse")
  /\ Wait(q, [request[q] EXCEPT !.pc = "record_commit", !.commit = HeadCommit])
  /\ RowsKept /\ ReviewKept /\ WorldKept /\ UNCHANGED crashes

RecordCommit(q) ==
  LET c == request[q].candidate IN
  /\ At(q, "record_commit")
  /\ Save(q, c, [candidate[c] EXCEPT !.status = "local_commit_created",
                                     !.hash = request[q].commit], file[c])

RequestPush(q, c) == MayPush(c) /\ Begin(q, c, "push_head", "none")

PushHead(q) == Checked(q, "push_head", HeadCommit = request[q].commit, "push_status")

PushStatus(q) == Checked(q, "push_status", Clean, "push")

(* git push origin HEAD:refs/heads/<branch> *)
PushBranch(q) ==
  /\ At(q, "push")
  /\ remote' = [remote EXCEPT !.branch = HeadCommit]
  /\ Goto(q, "record_push")
  /\ RowsKept /\ ReviewKept /\ UNCHANGED <<repo, crashes>>

RecordPush(q) ==
  LET c == request[q].candidate IN
  /\ At(q, "record_push")
  /\ Save(q, c, [candidate[c] EXCEPT !.status = "remote_branch_pushed", !.pushed = TRUE],
                [file[c] EXCEPT !.push = request[q].commit])

RowWithPr(c, mode) ==
  [candidate[c] EXCEPT !.pr = mode,
                       !.status = IF mode = "live" THEN "pull_request_created"
                                                   ELSE "pull_request_packet_prepared"]

(* prepare_packet mode waits for nothing. *)
PreparePacket(q, c) ==
  /\ Free(q)
  /\ MayOpenPr(c)
  /\ Save(q, c, RowWithPr(c, "packet"), [file[c] EXCEPT !.pr = "packet"])

RequestPr(q, c) == MayOpenPr(c) /\ Begin(q, c, "pr_list", "none")

(* gh pr list --state all: any pull request of the branch is reused. *)
ReusePr(q) == Checked(q, "pr_list", remote.pr # "none", "record_pr")
NoPrYet(q) == Checked(q, "pr_list", remote.pr = "none", "pr_create")

CreatePr(q) ==
  /\ At(q, "pr_create")
  /\ remote.pr = "none"
  /\ remote' = [remote EXCEPT !.pr = "open"]
  /\ Goto(q, "record_pr")
  /\ RowsKept /\ ReviewKept /\ UNCHANGED <<repo, crashes>>

RecordPr(q) ==
  LET c == request[q].candidate IN
  /\ At(q, "record_pr")
  /\ Save(q, c, RowWithPr(c, "live"), [file[c] EXCEPT !.pr = "live"])

Assessed(c, decision) ==
  [candidate[c] EXCEPT !.status = "merge_readiness_recorded", !.readiness = decision]

(* Merge readiness inspects the pull request only on its first recording,  *)
(* while the status still names a live one.                                *)
AssessFromEvidence(q, c, decision) ==
  /\ Free(q)
  /\ MayAssess(c)
  /\ candidate[c].status # "pull_request_created"
  /\ Save(q, c, Assessed(c, decision), [file[c] EXCEPT !.readiness = decision])

RequestAssessment(q, c, decision) ==
  /\ MayAssess(c)
  /\ candidate[c].status = "pull_request_created"
  /\ Begin(q, c, "ready_view", decision)

InspectionAgrees(q) ==
  /\ remote.pr # "merged"
  /\ remote.pr = "closed" => request[q].decision # "ready"
  /\ PrHead = request[q].commit

(* An inspection that fails is skipped. *)
ReadyView(q) == Checked(q, "ready_view", InspectionAgrees(q), "record_ready")
ReadySkipped(q) == Checked(q, "ready_view", TRUE, "record_ready")

RecordReadiness(q) ==
  LET c == request[q].candidate IN
  /\ At(q, "record_ready")
  /\ Save(q, c, Assessed(c, request[q].decision),
                [file[c] EXCEPT !.readiness = request[q].decision])

RequestMerge(q, c) == MayMerge(c) /\ Begin(q, c, "merge_view", "none")

(* Mutant: the live head is not compared with the recorded commit. *)
MergeableAnyHead(q) == remote.pr = "open"

Mergeable(q) == remote.pr = "open" /\ PrHead = request[q].commit

MergeView(q) == Checked(q, "merge_view", Mergeable(q), "merge")

Merged == [remote EXCEPT !.pr = "merged", !.head = remote.branch]

(* Mutant: a merge that fails passes for one that was done. *)
MergePrOrNot(q) ==
  /\ At(q, "merge")
  /\ remote' = IF remote.pr = "open" THEN Merged ELSE remote
  /\ Goto(q, "merged_view")
  /\ RowsKept /\ ReviewKept /\ UNCHANGED <<repo, crashes>>

(* gh pr merge merges the head as it is now, and is content with a pull    *)
(* request that was merged meanwhile.                                      *)
MergePr(q) ==
  /\ At(q, "merge")
  /\ \/ remote.pr = "open" /\ remote' = Merged
     \/ remote.pr = "merged" /\ UNCHANGED remote
  /\ Goto(q, "merged_view")
  /\ RowsKept /\ ReviewKept /\ UNCHANGED <<repo, crashes>>

(* A view that fails leaves the merge commit unknown. *)
MergedView(q) ==
  /\ At(q, "merged_view")
  /\ \E sha \in {0, PrHead} :
       Wait(q, [request[q] EXCEPT !.pc = "record_merge", !.commit = sha])
  /\ RowsKept /\ ReviewKept /\ WorldKept /\ UNCHANGED crashes

RecordMerge(q) ==
  LET c == request[q].candidate IN
  /\ At(q, "record_merge")
  /\ Save(q, c, [candidate[c] EXCEPT !.status = "pull_request_merged",
                                     !.merged = TRUE, !.sha = request[q].commit],
                file[c])

(* A check does not hold, or a command reports an error, be it after it    *)
(* did its work: the request is refused and leaves everything as it is.    *)
Refuse(q) ==
  /\ request[q].pc \notin {"idle", "record_merge"}
  /\ Wait(q, Idle)
  /\ RowsKept /\ ReviewKept /\ WorldKept /\ UNCHANGED crashes

-----------------------------------------------------------------------------
(* Around the requests *)

(* A finished batch of post-apply gates; they need an applied patch.       *)
GatesReport ==
  /\ Applied
  /\ gates' \in GateResults
  /\ RowsKept /\ WorldKept /\ UNCHANGED <<signoff, patch, request, crashes>>

(* rollbackHermesPatchForRun writes the former contents back. *)
RollbackPatch ==
  /\ Applied
  /\ patch' = "rolled_back"
  /\ repo' = [repo EXCEPT !.tree = 0]
  /\ RowsKept /\ UNCHANGED <<signoff, gates, remote, request, crashes>>

Crash ==
  /\ crashes < MaxCrashes
  /\ \E q \in Requests : ~Free(q)
  /\ crashes' = crashes + 1
  /\ request' = [q \in Requests |-> Idle]
  /\ RowsKept /\ ReviewKept /\ WorldKept

(* Somebody edits a file of the patch, commits something else, pushes the  *)
(* branch, closes or merges the pull request.                              *)
Edit(v) ==
  /\ "edit" \in Others
  /\ repo' = [repo EXCEPT !.tree = v]
  /\ UNCHANGED remote

CommitElse ==
  /\ "commit" \in Others
  /\ HeadCommit < MaxCommits
  /\ repo' = [repo EXCEPT !.log = Append(@, HeadVersion)]
  /\ UNCHANGED remote

PushElse ==
  /\ "push" \in Others
  /\ remote.branch # 0
  /\ remote' = [remote EXCEPT !.branch = HeadCommit]
  /\ UNCHANGED repo

ClosePr ==
  /\ "close" \in Others
  /\ remote.pr = "open"
  /\ remote' = [remote EXCEPT !.pr = "closed", !.head = remote.branch]
  /\ UNCHANGED repo

MergeElse ==
  /\ "merge" \in Others
  /\ remote.pr = "open"
  /\ remote' = Merged
  /\ UNCHANGED repo

OthersAct ==
  /\ \/ \E v \in Versions \ {0} : Edit(v)
     \/ CommitElse \/ PushElse \/ ClosePr \/ MergeElse
  /\ RowsKept /\ ReviewKept /\ UNCHANGED <<request, crashes>>

Init ==
  /\ candidate = [c \in Candidates |-> EmptyRow]
  /\ file = [c \in Candidates |-> [push |-> 0, pr |-> "none", readiness |-> "none"]]
  /\ signoff = [id |-> 0, approved |-> FALSE, gates |-> "not_run"]
  /\ patch = "applied"
  /\ gates = "not_run"
  /\ repo = [tree |-> 1, index |-> 0, log |-> <<>>]
  /\ remote = [branch |-> 0, pr |-> "none", head |-> 0]
  /\ request = [q \in Requests |-> Idle]
  /\ crashes = 0

Ask(q) ==
  \/ \E approved, override \in BOOLEAN : SignOff(q, approved, override)
  \/ \E c \in Candidates :
       \/ \E override \in BOOLEAN : Prepare(q, c, override)
       \/ RequestCommit(q, c) \/ RequestPush(q, c)
       \/ PreparePacket(q, c) \/ RequestPr(q, c)
       \/ \E d \in {"ready", "not_ready"} :
            AssessFromEvidence(q, c, d) \/ RequestAssessment(q, c, d)
       \/ RequestMerge(q, c)

GitSteps(q) ==
  \/ CheckTree(q) \/ Add(q) \/ Commit(q) \/ RevParse(q)
  \/ PushHead(q) \/ PushStatus(q) \/ PushBranch(q)

GithubSteps(q) ==
  \/ ReusePr(q) \/ NoPrYet(q) \/ CreatePr(q)
  \/ ReadyView(q) \/ ReadySkipped(q)
  \/ MergeView(q) \/ MergePr(q) \/ MergedView(q)

Records(q) ==
  \/ RecordSignoff(q) \/ RecordCandidate(q) \/ RecordCommit(q) \/ RecordPush(q)
  \/ RecordPr(q) \/ RecordReadiness(q) \/ RecordMerge(q)

Next ==
  \/ \E q \in Requests : Ask(q) \/ GitSteps(q) \/ GithubSteps(q) \/ Records(q) \/ Refuse(q)
  \/ GatesReport \/ RollbackPatch \/ Crash \/ OthersAct

Spec == Init /\ [][Next]_vars

-----------------------------------------------------------------------------
(* Properties *)

(* Every variable keeps its shape. *)
TypeOK ==
  /\ candidate \in [Candidates -> Rows]
  /\ file \in [Candidates -> Files]
  /\ signoff \in Signoffs
  /\ patch \in {"applied", "rolled_back"}
  /\ gates \in Gates
  /\ repo \in Repos /\ HeadCommit <= MaxCommits
  /\ remote \in Remotes
  /\ request \in [Requests -> RequestStates]
  /\ crashes \in 0..MaxCrashes

(* A row never claims what did not happen: its commit is in the log, a     *)
(* pushed candidate has a remote branch, a live pull request was opened, a *)
(* merged one is merged.  Whatever requests overlap and whatever others do.*)
Backed(c) ==
  /\ candidate[c].hash <= HeadCommit
  /\ candidate[c].pushed => remote.branch # 0
  /\ candidate[c].pr = "live" => remote.pr # "none"
  /\ candidate[c].merged => remote.pr = "merged"

RecordsAreBacked == \A c \in Candidates : Backed(c)

(* How far a row's columns say its candidate came. *)
Reached(row) ==
  IF row.merged THEN 6
  ELSE IF row.readiness # "none" THEN 5
  ELSE IF row.pr # "none" THEN 4
  ELSE IF row.pushed THEN 3
  ELSE IF row.hash # 0 THEN 2
  ELSE IF row.status # "absent" THEN 1
  ELSE 0

Steps == INSTANCE GovernedSteps
           WITH Items <- Candidates, Steps <- 6,
                reached <- [c \in Candidates |-> Reached(candidate[c])]

(* No step is recorded before its predecessor and none is taken back, even *)
(* where overlapping requests set the status of a candidate back.          *)
StepsInOrder == Steps!Spec

(* While requests do not overlap and nobody else commits or pushes, what   *)
(* was merged is the commit the candidate recorded, for one candidate only.*)
MergedCommitIsCandidates ==
  \A c \in Candidates : candidate[c].merged =>
    /\ remote.head = candidate[c].hash
    /\ \A d \in Candidates \ {c} : ~candidate[d].merged

=============================================================================
