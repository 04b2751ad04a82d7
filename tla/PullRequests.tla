----------------------------- MODULE PullRequests -----------------------------
(***************************************************************************)
(* The pull request of an approved run: createPrRequest commits the        *)
(* approved changes on the run's branch, pushes it and opens the pull      *)
(* request; createMergeRequest merges it.  Both judge the run first, then  *)
(* wait for git or gh many times, and note how far they came in their own  *)
(* row, which a later request resumes from.                                *)
(*                                                                         *)
(* A step is one wait with what follows it up to the next.  Between two    *)
(* steps any other request, the server's death, another run that uses the  *)
(* same workspace, or somebody on GitHub may act.                          *)
(*                                                                         *)
(* Scope: one run and one base branch, so one row of engineer_pr_requests; *)
(* the git reads of one readiness evaluation are one step, and so are      *)
(* gh pr list and gh pr create; nobody else commits the approved changes;  *)
(* the run's commit is among the 50 the log scan looks at.                 *)
(***************************************************************************)
EXTENDS Naturals, Sequences, FiniteSets, ReleaseStanding

CONSTANTS
  Requests,    \* requests in flight at once
  Reports,     \* the standings the run can have here, among Standings
  HardGates,   \* ENGINEER_CONSOLE_RELEASE_GATES_ENABLED
  PlanFiles,   \* the run has a worker plan whose files exist
  Others,      \* what happens outside the Console, among Deeds
  MaxCommits,  \* bound: commits made on top of the base
  MaxMerges,   \* bound: merge requests
  MaxOthers,   \* bound: deeds of others
  MaxCrashes   \* bound: deaths of the server process

Deeds == {"work", "commit", "push", "switch", "reset", "ready", "close"}

ASSUME ReportsAssumption == Reports \subseteq Standings
ASSUME FlagsAssumption == HardGates \in BOOLEAN /\ PlanFiles \in BOOLEAN
ASSUME OthersAssumption == Others \subseteq Deeds
ASSUME BoundsAssumption == /\ MaxCommits \in Nat /\ MaxMerges \in Nat
                           /\ MaxOthers \in Nat /\ MaxCrashes \in Nat

VARIABLES
  standing,  \* the governance of the run as the readiness checks read it
  pr,        \* the row of engineer_pr_requests
  merges,    \* engineer_merge_requests, in order
  repo,      \* the workspace: branches, HEAD, working tree, tracking ref
  github,    \* the remote branch and its pull request
  request,   \* the local state of each request in flight
  deeds,     \* deeds of others so far
  crashes,   \* deaths so far
  history    \* history: what the properties are conditioned on

vars == <<standing, pr, merges, repo, github, request, deeds, crashes, history>>

-----------------------------------------------------------------------------
(* Types *)

Commits == 0..MaxCommits   \* in the order they are made; 0: none
Branches == {"run", "other"}

PrStatus == {"none", "ready", "committing", "committed", "pushing", "pr_created", "failed"}
PrRows == [status : PrStatus, commit : Commits, url : BOOLEAN]

MergeStatus == {"ready", "merging", "merged", "failed"}

(* own: the commits that name the run and stay in the approved scope. *)
Repos == [log : [Branches -> Seq(Commits)], head : Branches, dirty : BOOLEAN,
          own : SUBSET Commits, made : Commits, tracking : Commits]

Githubs == [log : Seq(Commits), pr : {"none", "draft", "open", "closed", "merged"}]

(* A request keeps what it read before it waited. *)
RequestStates ==
  [pc : {"idle", "inspect", "checkout", "resolve", "commit", "rev_parse", "push",
         "open", "opened", "view", "preview", "merge", "postview", "refresh"},
   review : BOOLEAN, rationale : BOOLEAN, commit : Commits, reusable : Commits,
   attempt : 0..MaxMerges]

(* uprooted: HEAD was moved under a request, or the branch lost a commit;  *)
(* overlapped: two requests worked on the row at once; moved: the remote   *)
(* branch moved under a merge.                                             *)
Histories == [uprooted : BOOLEAN, overlapped : BOOLEAN, moved : BOOLEAN]

Idle == [pc |-> "idle", review |-> FALSE, rationale |-> FALSE, commit |-> 0,
         reusable |-> 0, attempt |-> 0]

-----------------------------------------------------------------------------
(* The workspace *)

In(c, log) == \E i \in 1..Len(log) : log[i] = c
Tip(log) == IF log = <<>> THEN 0 ELSE log[Len(log)]
Begins(a, b) == Len(a) <= Len(b) /\ SubSeq(b, 1, Len(a)) = a

RunLog == repo.log["run"]

(* getChangedFiles lists the files of a plan also when they are committed. *)
Listed == repo.dirty \/ PlanFiles

(* The newest commit of the log that is the run's own, or 0. *)
NewestOwn(log) ==
  LET places == {i \in 1..Len(log) : log[i] \in repo.own}
  IN IF places = {} THEN 0
     ELSE log[CHOOSE i \in places : \A j \in places : j <= i]

(* Mutant: only what the row remembers is looked for. *)
ReusableFromRow(recorded) == IF In(recorded, RunLog) THEN recorded ELSE 0

(* detectReusableCommit: the recorded commit if the branch has it, else    *)
(* one that names the run.                                                 *)
Reusable(recorded) ==
  IF In(recorded, RunLog) THEN recorded ELSE NewestOwn(RunLog)

Stale(recorded) == recorded # 0 /\ ~In(recorded, RunLog)

(* manualRecoveryRequired *)
Stuck(recorded) ==
  \/ Stale(recorded)
  \/ repo.head = "run" /\ ~Listed /\ Reusable(recorded) = 0

-----------------------------------------------------------------------------
(* Requests *)

Free(q) == request[q].pc = "idle"
At(q, pc) == request[q].pc = pc
Goes(q, pc) == request' = [request EXCEPT ![q].pc = pc]
Ends(q) == request' = [request EXCEPT ![q] = Idle]

(* updatePrRequest; the row's commit and url are written with a status. *)
Note(status) == pr' = [pr EXCEPT !.status = status]

(* findExistingPrRequest *)
OnRecord == pr.status = "pr_created" /\ pr.url

(* The row a request works on: a new one, or the one it resumes, which may *)
(* have a commit.                                                          *)
Begun ==
  IF pr.status = "none"
  THEN [status |-> "ready", commit |-> 0, url |-> FALSE]
  ELSE [pr EXCEPT !.status = IF pr.commit = 0 THEN "ready" ELSE "committed"]

PrSteps == {"checkout", "resolve", "commit", "rev_parse", "push", "open", "opened"}
MergeSteps == {"preview", "merge", "postview", "refresh"}

InFlight(steps) == \E q \in Requests : request[q].pc \in steps

(* createPrRequest reads the database, then evaluates git's answers. *)
AskPr(q, rationale) ==
  /\ Free(q)
  /\ ~PrBlocked(standing)
  /\ request' = [request EXCEPT ![q] =
       [Idle EXCEPT !.pc = "inspect", !.review = PrWarned(standing),
                    !.rationale = rationale, !.commit = pr.commit]]
  /\ UNCHANGED <<standing, pr, merges, repo, github, deeds, crashes, history>>

(* A pull request on record is returned; anything else is resumed. *)
Inspect(q) ==
  LET recorded == request[q].commit
      warned == request[q].review \/ repo.head # "run"
  IN /\ At(q, "inspect")
     /\ ~Stuck(recorded)
     /\ warned => request[q].rationale
     /\ IF OnRecord
        THEN Ends(q) /\ UNCHANGED <<pr, history>>
        ELSE /\ history' = [history EXCEPT !.overlapped = @ \/ InFlight(PrSteps)]
             /\ pr' = Begun
             /\ request' = [request EXCEPT ![q].pc = "checkout", ![q].commit = pr.commit,
                                           ![q].reusable = Reusable(recorded)]
     /\ UNCHANGED <<standing, merges, repo, github, deeds, crashes>>

Checkout(q) ==
  /\ At(q, "checkout")
  /\ repo' = [repo EXCEPT !.head = "run"]
  /\ Note("committing")
  /\ Goes(q, "resolve")
  /\ UNCHANGED <<standing, merges, github, deeds, crashes, history>>

(* The commit is on record; the push has begun. *)
Recorded(c) == [pr EXCEPT !.status = "pushing", !.commit = c]

(* resolveCommitForPrRequest: the commit found at the inspection, else the *)
(* one the row had then, else the one it has by now.                       *)
Known(q) ==
  IF request[q].reusable # 0 THEN request[q].reusable
  ELSE IF request[q].commit # 0 THEN request[q].commit ELSE pr.commit

(* It must still be on the branch; without one there is a new commit.      *)
ReuseCommit(q) ==
  /\ At(q, "resolve")
  /\ In(Known(q), RunLog)
  /\ pr' = Recorded(Known(q))
  /\ Goes(q, "push")
  /\ UNCHANGED <<standing, merges, repo, github, deeds, crashes, history>>

ListChanges(q) ==
  /\ At(q, "resolve")
  /\ Known(q) = 0
  /\ Listed
  /\ Goes(q, "commit")
  /\ UNCHANGED <<standing, pr, merges, repo, github, deeds, crashes, history>>

(* git add and git commit, on whatever branch is checked out by then. *)
Commit(q) ==
  /\ At(q, "commit")
  /\ repo.dirty
  /\ repo.made < MaxCommits
  /\ repo' = [repo EXCEPT !.log[repo.head] = Append(@, repo.made + 1),
                          !.made = @ + 1, !.own = @ \cup {repo.made + 1},
                          !.dirty = FALSE]
  /\ Goes(q, "rev_parse")
  /\ UNCHANGED <<standing, pr, merges, github, deeds, crashes, history>>

RevParse(q) ==
  /\ At(q, "rev_parse")
  /\ pr' = Recorded(Tip(repo.log[repo.head]))
  /\ Goes(q, "push")
  /\ UNCHANGED <<standing, merges, repo, github, deeds, crashes, history>>

(* The remote branch moves: a merge under way has seen another head. *)
Moved == [history EXCEPT !.moved = @ \/ InFlight(MergeSteps)]

(* Mutant: a push that git refuses is left for later. *)
PushIfPossible(q) ==
  /\ At(q, "push")
  /\ IF Begins(github.log, RunLog)
     THEN /\ github' = [github EXCEPT !.log = RunLog]
          /\ repo' = [repo EXCEPT !.head = "run", !.tracking = Tip(RunLog)]
          /\ history' = Moved
     ELSE UNCHANGED <<github, history>> /\ repo' = [repo EXCEPT !.head = "run"]
  /\ Goes(q, "open")
  /\ UNCHANGED <<standing, pr, merges, deeds, crashes>>

(* The push is skipped when the tracking ref, which only this workspace's  *)
(* pushes move, is at HEAD; git refuses what is not a fast forward.        *)
Push(q) ==
  /\ At(q, "push")
  /\ IF repo.tracking # 0 /\ repo.tracking = Tip(RunLog)
     THEN UNCHANGED <<github, history>> /\ repo' = [repo EXCEPT !.head = "run"]
     ELSE /\ Begins(github.log, RunLog)
          /\ github' = [github EXCEPT !.log = RunLog]
          /\ repo' = [repo EXCEPT !.head = "run", !.tracking = Tip(RunLog)]
          /\ history' = Moved
  /\ Goes(q, "open")
  /\ UNCHANGED <<standing, pr, merges, deeds, crashes>>

(* A pull request of this head and base is reused whatever its state. *)
OpenPr(q, state) ==
  /\ At(q, "open")
  /\ IF github.pr # "none"
     THEN UNCHANGED github
     ELSE github.log # <<>> /\ github' = [github EXCEPT !.pr = state]
  /\ Goes(q, "opened")
  /\ UNCHANGED <<standing, pr, merges, repo, deeds, crashes, history>>

RecordPr(q) ==
  /\ At(q, "opened")
  /\ pr' = [pr EXCEPT !.status = "pr_created", !.url = TRUE]
  /\ Ends(q)
  /\ UNCHANGED <<standing, merges, repo, github, deeds, crashes, history>>

(* Any git or gh command fails: also after another request's success. *)
FailPr(q) ==
  /\ request[q].pc \in PrSteps
  /\ Note("failed")
  /\ Ends(q)
  /\ UNCHANGED <<standing, merges, repo, github, deeds, crashes, history>>

-----------------------------------------------------------------------------
(* Merging *)

(* resolvePrRequestForMerge: the newest request that has its pull request. *)
Mergeable == pr.status = "pr_created"

(* updateMergeRequest, of the row this request inserted. *)
NoteMerge(q, status) == merges' = [merges EXCEPT ![request[q].attempt] = status]

AskMerge(q, rationale) ==
  /\ Free(q)
  /\ HardGates => standing.evidence /\ ~HardBlocked(standing)
  /\ ~MergeBlocked(standing)
  /\ Mergeable
  /\ request' = [request EXCEPT ![q] =
       [Idle EXCEPT !.pc = "view", !.review = MergeWarned(standing),
                    !.rationale = rationale, !.commit = pr.commit]]
  /\ UNCHANGED <<standing, pr, merges, repo, github, deeds, crashes, history>>

(* Mutant: the head of the pull request is not compared. *)
SeesFitAnyHead(q) ==
  \/ request[q].rationale
  \/ github.pr \in {"draft", "open"} /\ ~request[q].review

(* The rest of evaluateMergeReadiness for a recorded commit, warned of     *)
(* something or not: GitHub's view, or a warning that there is none.       *)
MergeJudged(commit, warned, seen) ==
  IF seen /\ github.pr \in {"closed", "merged"} THEN "blocked"
  ELSE IF warned \/ ~seen \/ commit # Tip(github.log) THEN "requires_review"
  ELSE "passed"

Seen == IF github.pr = "none" THEN {FALSE} ELSE BOOLEAN

SeesFit(q) ==
  \E seen \in Seen :
    LET now == MergeJudged(request[q].commit, request[q].review, seen)
    IN now = "passed" \/ (now = "requires_review" /\ request[q].rationale)

ViewPr(q) ==
  /\ At(q, "view")
  /\ SeesFit(q)
  /\ Len(merges) < MaxMerges
  /\ merges' = Append(merges, "ready")
  /\ request' = [request EXCEPT ![q].pc = "preview", ![q].attempt = Len(merges) + 1]
  /\ UNCHANGED <<standing, pr, repo, github, deeds, crashes, history>>

Preview(q) ==
  /\ At(q, "preview")
  /\ github.pr # "merged"
  /\ NoteMerge(q, "merging")
  /\ Goes(q, "merge")
  /\ UNCHANGED <<standing, pr, repo, github, deeds, crashes, history>>

(* gh pr merge takes the head as it is by then, and is content with a pull *)
(* request that is merged already; its answer can be lost.                 *)
Merge(q, answer) ==
  /\ At(q, "merge")
  /\ \/ /\ github.pr = "open"
        /\ github' = [github EXCEPT !.pr = "merged"]
     \/ github.pr = "merged" /\ UNCHANGED github
  /\ IF answer = "answered"
     THEN Goes(q, "postview") /\ UNCHANGED merges
     ELSE /\ NoteMerge(q, "failed")
          /\ Ends(q)
  /\ UNCHANGED <<standing, pr, repo, deeds, crashes, history>>

ViewMerged(q) ==
  /\ At(q, "postview")
  /\ NoteMerge(q, "merged")
  /\ Goes(q, "refresh")
  /\ UNCHANGED <<standing, pr, repo, github, deeds, crashes, history>>

(* refreshRunEvidenceBundle *)
Refresh(q) ==
  /\ At(q, "refresh")
  /\ Ends(q)
  /\ UNCHANGED <<standing, pr, merges, repo, github, deeds, crashes, history>>

FailMerge(q) ==
  /\ request[q].pc \in MergeSteps
  /\ NoteMerge(q, "failed")
  /\ Ends(q)
  /\ UNCHANGED <<standing, pr, repo, github, deeds, crashes, history>>

(* Blocked, or without the rationale that a warning asks for. *)
Refuse(q) ==
  /\ request[q].pc \in {"inspect", "view"}
  /\ Ends(q)
  /\ UNCHANGED <<standing, pr, merges, repo, github, deeds, crashes, history>>

-----------------------------------------------------------------------------
(* Around the requests *)

(* Reviews, policy evaluations and replays go on. *)
Reassess(s) ==
  /\ standing' = s
  /\ UNCHANGED <<pr, merges, repo, github, request, deeds, crashes, history>>

Uproot == [history EXCEPT !.uprooted = TRUE]

Deed(kind) ==
  /\ kind \in Others
  /\ deeds < MaxOthers
  /\ deeds' = deeds + 1
  /\ CASE kind = "work" ->    \* another round of the run changes its files
            repo' = [repo EXCEPT !.dirty = TRUE] /\ UNCHANGED <<github, history>>
       [] kind = "commit" ->  \* of something else
            /\ repo.made < MaxCommits
            /\ repo' = [repo EXCEPT !.log[repo.head] = Append(@, repo.made + 1),
                                    !.made = @ + 1]
            /\ UNCHANGED <<github, history>>
       [] kind = "push" ->    \* from another clone
            /\ repo.made < MaxCommits
            /\ repo' = [repo EXCEPT !.made = @ + 1]
            /\ github' = [github EXCEPT !.log = Append(@, repo.made + 1)]
            /\ history' = Moved
       [] kind = "switch" ->  \* another run checks its branch out
            /\ repo' = [repo EXCEPT !.head = "other"]
            /\ history' = IF InFlight(PrSteps) THEN Uproot ELSE history
            /\ UNCHANGED github
       [] kind = "reset" ->
            /\ RunLog # <<>>
            /\ repo' = [repo EXCEPT !.log["run"] = SubSeq(@, 1, Len(@) - 1)]
            /\ history' = Uproot
            /\ UNCHANGED github
       [] kind = "ready" ->   \* a draft is marked ready for review
            /\ github.pr = "draft"
            /\ github' = [github EXCEPT !.pr = "open"]
            /\ UNCHANGED <<repo, history>>
       [] kind = "close" ->
            /\ github.pr \in {"draft", "open"}
            /\ github' = [github EXCEPT !.pr = "closed"]
            /\ UNCHANGED <<repo, history>>
  /\ UNCHANGED <<standing, pr, merges, request, crashes>>

Crash ==
  /\ crashes < MaxCrashes
  /\ \E q \in Requests : ~Free(q)
  /\ crashes' = crashes + 1
  /\ request' = [q \in Requests |-> Idle]
  /\ UNCHANGED <<standing, pr, merges, repo, github, deeds, history>>

Init ==
  /\ standing \in Reports
  /\ pr = [status |-> "none", commit |-> 0, url |-> FALSE]
  /\ merges = <<>>
  /\ repo = [log |-> [b \in Branches |-> <<>>], head |-> "run", dirty |-> TRUE,
             own |-> {}, made |-> 0, tracking |-> 0]
  /\ github = [log |-> <<>>, pr |-> "none"]
  /\ request = [q \in Requests |-> Idle]
  /\ deeds = 0
  /\ crashes = 0
  /\ history = [uprooted |-> FALSE, overlapped |-> FALSE, moved |-> FALSE]

Ask(q) == \E rationale \in BOOLEAN : AskPr(q, rationale) \/ AskMerge(q, rationale)

Continue(q) ==
  \/ Inspect(q) \/ Checkout(q) \/ ReuseCommit(q) \/ ListChanges(q) \/ Commit(q)
  \/ RevParse(q) \/ Push(q) \/ RecordPr(q) \/ FailPr(q)
  \/ \E state \in {"draft", "open"} : OpenPr(q, state)
  \/ ViewPr(q) \/ Preview(q) \/ ViewMerged(q) \/ Refresh(q) \/ FailMerge(q)
  \/ \E answer \in {"answered", "lost"} : Merge(q, answer)
  \/ Refuse(q)

Next ==
  \/ \E q \in Requests : Ask(q) \/ Continue(q)
  \/ \E s \in Reports : Reassess(s)
  \/ \E kind \in Deeds : Deed(kind)
  \/ Crash

Spec == Init /\ [][Next]_vars

-----------------------------------------------------------------------------
(* Properties *)

(* Every variable keeps its shape. *)
TypeOK ==
  /\ standing \in Reports
  /\ pr \in PrRows
  /\ merges \in Seq(MergeStatus) /\ Len(merges) <= MaxMerges
  /\ repo \in Repos
  /\ github \in Githubs
  /\ request \in [Requests -> RequestStates]
  /\ deeds \in 0..MaxOthers
  /\ crashes \in 0..MaxCrashes
  /\ history \in Histories

(* A pull request that is on record exists, and GitHub has the commit that *)
(* is on record with it, whatever failed, was repeated or died on the way, *)
(* unless the workspace was moved under a request or two requests worked   *)
(* on the row at once (createPrRequest and createControlledGithubPr).      *)
PublishedAsRecorded ==
  pr.status = "pr_created" /\ ~history.uprooted /\ ~history.overlapped =>
    github.pr # "none" /\ pr.commit # 0 /\ In(pr.commit, github.log)

(* A death between git commit and the row, or a command that fails, leaves *)
(* something to go on with: either the approved changes are still in the   *)
(* working tree, or a later request finds their commit on the run's branch.*)
WorkNeverStranded ==
  ~history.uprooted => repo.dirty \/ Reusable(pr.commit) # 0

(* Without a rationale the head that is merged is the commit on record,    *)
(* if the remote branch stood still since the readiness evaluation: nothing*)
(* pins the head that gh pr merge takes (createMergeRequest).              *)
MergesWhatWasRecorded ==
  [][\A q \in Requests :
       /\ At(q, "merge") /\ github.pr # "merged" /\ github'.pr = "merged"
       /\ ~request[q].rationale /\ ~history.moved
       => Tip(github.log) = request[q].commit]_vars

=============================================================================
