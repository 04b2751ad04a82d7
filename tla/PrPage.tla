-------------------------------- MODULE PrPage --------------------------------
(***************************************************************************)
(* The panels from which an operator creates and merges the pull request   *)
(* of a run of PullRequests.  The first evaluates the readiness of the     *)
(* run, loads the request on record, and derives from the two what it      *)
(* announces: the state of commit, branch and pull request, the next       *)
(* action, and whether its button is enabled; the second evaluates the     *)
(* readiness to merge.  A handler decides anew when a button is pressed.   *)
(*                                                                         *)
(* Scope: the panels are fresh, and gh pr view answers; labels and texts   *)
(* are left out, and so is what the retry guidance says of the step that   *)
(* failed.                                                                 *)
(***************************************************************************)
EXTENDS PullRequests

-----------------------------------------------------------------------------
(* evaluatePrReadiness *)

ReadinessStatus ==
  IF PrBlocked(standing) \/ Stuck(pr.commit) THEN "blocked"
  ELSE IF PrWarned(standing) \/ repo.head # "run" THEN "requires_review"
  ELSE "passed"

(* The signals the panel reads; the remote branch is known by its tracking *)
(* ref alone.                                                              *)
Readiness ==
  LET reusable == Reusable(pr.commit)
  IN [status |-> ReadinessStatus,
      reusable |-> reusable,
      manual |-> Stuck(pr.commit),
      resumes |-> reusable # 0 /\ ~Stuck(pr.commit) /\ ~pr.url,
      url |-> pr.url,
      remote |-> repo.tracking # 0,
      matches |-> repo.tracking # 0 /\ repo.tracking = reusable]

-----------------------------------------------------------------------------
(* The card *)

(* reusableCommitPrefix: the commit found on the branch, else the recorded *)
(* one.                                                                    *)
Prefix(s) == IF s.reusable # 0 THEN s.reusable ELSE pr.commit

(* branchStateValue *)
BranchState(s) ==
  IF s.matches THEN "already_pushed"
  ELSE IF Prefix(s) # 0 THEN "needs_push"
  ELSE "exists_locally"

(* commitStateValue *)
CommitState(s) ==
  IF s.manual THEN "clean_without_commit"
  ELSE IF Prefix(s) # 0 THEN "reused"
  ELSE IF s.status # "blocked" THEN "will_be_created"
  ELSE "none_yet"

(* prStateValue *)
PrState(s) ==
  IF s.url THEN "existing"
  ELSE IF pr.status = "failed" THEN
         (IF s.resumes \/ Prefix(s) # 0 THEN "can_be_created" ELSE "failed")
  ELSE IF s.status = "blocked" THEN "none_yet"
  ELSE "can_be_created"

(* readinessValue *)
ReadinessState(s) ==
  IF s.url THEN "created"
  ELSE IF s.status = "passed" THEN (IF s.resumes THEN "ready_to_retry" ELSE "ready")
  ELSE s.status

(* nextActionValue *)
NextAction(s) ==
  IF s.url THEN "review_existing"
  ELSE IF s.manual THEN "manual_recovery"
  ELSE IF s.status = "blocked" THEN "fix_blocker"
  ELSE IF s.resumes \/ Prefix(s) # 0 THEN "retry"
  ELSE "create"

(* buildRetryGuidance: what it lists as done by the attempt that failed. *)
Succeeded(s) ==
  IF pr.status # "failed" THEN {}
  ELSE {done \in {"commit", "remote_branch", "local_branch", "pull_request"} :
          CASE done = "commit" -> Prefix(s) # 0
            [] done = "remote_branch" -> BranchState(s) = "already_pushed"
            [] done = "local_branch" -> BranchState(s) # "already_pushed"
            [] done = "pull_request" -> s.url}

(* derivePrStateCardState, when no request of the panel's own is under way. *)
CardAllows(s) == NextAction(s) \in {"retry", "create"}

(* The button of the panel. *)
Enabled(s) == CardAllows(s) /\ s.status # "blocked"

-----------------------------------------------------------------------------
(* The merge panel *)

(* It lists the pull requests on record; one of them is evaluated when the *)
(* operator asks for it.                                                   *)
MergeReadiness ==
  IF MergeBlocked(standing) \/ ~Mergeable THEN "blocked"
  ELSE MergeJudged(pr.commit, MergeWarned(standing), github.pr # "none")

MergeEnabled == Mergeable /\ MergeReadiness # "blocked"

-----------------------------------------------------------------------------
(* Properties *)

NoRequest == ~InFlight(PrSteps \cup {"inspect"})

(* Unless the branch was moved under a request or two worked on the row at *)
(* once, the panel keeps its word, whatever failed, died or was retried    *)
(* before: a commit will be reused exactly when the run has made one, and  *)
(* no retry ever made a second; a branch that is pushed already, so that   *)
(* the push will be skipped, has that commit on GitHub; and a pull request *)
(* it announces, or counts as done, exists; the button is enabled exactly  *)
(* when the handler would go on to the checkout.  A merge is offered only  *)
(* where no hard gate would stop it, of a pull request that is still open  *)
(* to one, and never again once one merge request is told as merged.       *)
PanelKeepsItsWord ==
  LET s == Readiness IN
  NoRequest /\ ~history.uprooted /\ ~history.overlapped =>
    /\ CommitState(s) = "reused" => Cardinality(repo.own) = 1
    /\ CommitState(s) = "will_be_created" => repo.own = {}
    /\ BranchState(s) = "already_pushed" => In(Prefix(s), github.log)
    /\ PrState(s) = "existing" \/ "pull_request" \in Succeeded(s) => github.pr # "none"
    /\ ReadinessState(s) = "created" <=> OnRecord
    /\ Enabled(s) <=> ~PrBlocked(standing) /\ ~Stuck(pr.commit) /\ ~OnRecord
    /\ MergeEnabled => /\ standing.evidence /\ ~HardBlocked(standing)
                       /\ github.pr \in {"draft", "open"}
    /\ In("merged", merges) => github.pr = "merged"

=============================================================================
