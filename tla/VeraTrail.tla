------------------------------- MODULE VeraTrail -------------------------------
(***************************************************************************)
(* The audit events of the Vera bridge: a handler appends that it is       *)
(* requested, writes its file and its row, and appends what became of it.  *)
(* The ledger and the row are two writes, so a process that dies in        *)
(* between leaves one without the other.                                   *)
(*                                                                         *)
(* An event is abstracted to its part in the story of its step: a request, *)
(* the record of what was done, a repetition, a refusal or a failure.      *)
(***************************************************************************)
EXTENDS VeraBridge

VARIABLES
  told,       \* records in the ledger, by step
  unanswered  \* steps with a request that nothing will answer

trail == <<told, unanswered>>

Parts == {"request", "record", "repeat", "refusal", "failure"}

Subjects == {"run", "approval", "start", "worker", "artifact", "proposal",
             "proposal_review", "panel", "draft", "draft_review", "application",
             "gates", "report_review", "commit_proposal", "commit", "preparation"}

-----------------------------------------------------------------------------
(* What the handlers append, by the course they take *)

Denied == <<"request", "refusal">>
Made == <<"request", "record">>

PrepareEvents == [done |-> Made, repeated |-> <<"request", "repeat">>, refused |-> Denied]

(* One event, of the request that was recorded. *)
ApprovalEvents == [done |-> <<"record">>, repeated |-> <<>>, refused |-> <<"refusal">>]

(* A start that is repeated is requested and never answered. *)
StartEvents == [done |-> Made, repeated |-> <<"request">>, refused |-> Denied]

WorkerEvents == [done |-> Made, failed |-> <<"request", "failure">>]

ArtifactReviewEvents == [done |-> Made, repeated |-> <<"refusal">>, refused |-> Denied]

ProposalEvents == [done |-> Made, repeated |-> <<>>, refused |-> Denied]

ProposalReviewEvents == [done |-> Made, repeated |-> <<"refusal">>, refused |-> Denied]

PanelEvents == [repeated |-> <<"refusal">>, refused |-> Denied]

DraftEvents == [done |-> Made, repeated |-> <<"refusal">>, refused |-> Denied]

DraftReviewEvents == [done |-> Made, repeated |-> <<"refusal">>, refused |-> Denied]

ApplicationEvents ==
  [done |-> Made, repeated |-> <<"refusal">>, refused |-> Denied,
   failed |-> <<"request", "failure">>]

(* Mutant: the request is appended together with its answer. *)
GatesEventsAtEnd ==
  [done |-> <<"record">>, repeated |-> <<"refusal">>, refused |-> Denied]

GatesEvents == [done |-> Made, repeated |-> <<"refusal">>, refused |-> Denied]

ReportReviewEvents == [done |-> Made, repeated |-> <<"refusal">>, refused |-> Denied]

CommitProposalEvents == [done |-> Made, repeated |-> <<"refusal">>, refused |-> Denied]

(* A git command that fails is a refusal, anything else a failure. *)
CommitEvents ==
  [done |-> Made, repeated |-> <<"refusal">>, refused |-> Denied,
   failed |-> <<"request", "failure">>]

(* The readiness, which waits for git, comes before the request. *)
PreparationEvents == [done |-> Made, repeated |-> <<"refusal">>, refused |-> Denied]

Events ==
  [run |-> PrepareEvents, approval |-> ApprovalEvents, start |-> StartEvents,
   artifact |-> ArtifactReviewEvents, proposal |-> ProposalEvents,
   proposal_review |-> ProposalReviewEvents, panel |-> PanelEvents, draft |-> DraftEvents,
   draft_review |-> DraftReviewEvents, application |-> ApplicationEvents,
   gates |-> GatesEvents, report_review |-> ReportReviewEvents,
   commit_proposal |-> CommitProposalEvents, commit |-> CommitEvents,
   preparation |-> PreparationEvents]

ASSUME EventsAssumption ==
  \A subject \in DOMAIN Events :
    \A course \in DOMAIN Events[subject] : Events[subject][course] \in Seq(Parts)

-----------------------------------------------------------------------------
(* Appending *)

InCommit(q) == request[q].wait \in {"add", "check", "commit", "rev_parse"}

(* The commits under way die with the process, after their request. *)
LostAnswers ==
  IF crashes' # crashes /\ \E q \in Requests : InCommit(q) THEN {"commit"} ELSE {}

Has(events, part) == \E i \in 1..Len(events) : events[i] = part

Appends(subject, events) ==
  /\ told' = IF Has(events, "record") THEN [told EXCEPT ![subject] = @ + 1] ELSE told
  /\ unanswered' = unanswered \cup LostAnswers \cup
       IF events # <<>> /\ events[Len(events)] = "request" THEN {subject} ELSE {}

(* Mutant: what was done is told before it is on record. *)
ReachesEarly(subject, events, end) == Appends(subject, events)

(* The event of what was done is the last. *)
Reaches(subject, events, end) ==
  Appends(subject, IF end = "answer" THEN events ELSE SubSeq(events, 1, Len(events) - 1))

Silent == Appends("run", <<>>)

-----------------------------------------------------------------------------
(* The steps of the bridge, with what they append *)

StartTold(end) ==
  \/ PrepareRun(end) /\ Reaches("run", PrepareEvents.done, end)
  \/ RequestApproval(end) /\ Reaches("approval", ApprovalEvents.done, end)
  \/ StartExecution(end) /\ Reaches("start", StartEvents.done, end)

WorkerTold(made) ==
  \/ /\ ImplementArtifact("failed", made)
     /\ Appends("worker", WorkerEvents.failed)
  \/ \E outcome \in {"artifact_ready", "artifact_blocked"} :
       ImplementArtifact(outcome, made) /\ Appends("worker", WorkerEvents.done)
  \/ WorkerDies(made) /\ Appends("worker", WorkerEvents.done)

ReviewTold(verdict, end) ==
  \/ ReviewArtifact(verdict, end) /\ Reaches("artifact", ArtifactReviewEvents.done, end)
  \/ ReviewProposal(verdict, end)
       /\ Reaches("proposal_review", ProposalReviewEvents.done, end)
  \/ ReviewDraft(verdict, end) /\ Reaches("draft_review", DraftReviewEvents.done, end)
  \/ ReviewReport(verdict, end) /\ Reaches("report_review", ReportReviewEvents.done, end)

DocumentTold(end) ==
  \/ CreateProposal(end) /\ Reaches("proposal", ProposalEvents.done, end)
  \/ \E new \in [Paths -> {"none", "create", "modify"}] :
       CreateDraft(new, end) /\ Reaches("draft", DraftEvents.done, end)
  \/ ApplyDraft(end) /\ Reaches("application", ApplicationEvents.done, end)
  \/ RunGates(end) /\ Reaches("gates", GatesEvents.done, end)
  \/ ProposeCommit(end) /\ Reaches("commit_proposal", CommitProposalEvents.done, end)

ApplyTold ==
  \/ \E answer \in {"content", "phrase", "death"} :
       /\ ApplyProposal(answer)
       /\ Reaches("panel", PanelEvents.refused, IF answer = "death" THEN "row" ELSE "answer")
  \/ \E some \in SUBSET Paths, survives \in BOOLEAN :
       /\ ApplyBreaksOff(some, survives)
       /\ Reaches("application", ApplicationEvents.failed, IF survives THEN "answer" ELSE "row")

(* The request of a commit is appended when it is asked, and counts as     *)
(* unanswered when nothing is left to answer it.                           *)
GitTold(q) ==
  \/ AskCommit(q) /\ Silent
  \/ CheckStaged(q)
       /\ Appends("commit", IF request'[q].wait = "idle" THEN CommitEvents.refused ELSE <<>>)
  \/ (GitCommit(q) \/ AskPreparation(q) \/ \E p \in Paths : AddFile(q, p)) /\ Silent
  \/ FailRequest(q) /\ InCommit(q)
       /\ \E course \in {"refused", "failed"} : Appends("commit", CommitEvents[course])
  \/ FailRequest(q) /\ ~InCommit(q) /\ Appends("preparation", PreparationEvents.refused)
  \/ \E end \in Ends :
       \/ RecordCommit(q, end) /\ Reaches("commit", CommitEvents.done, end)
       \/ PreparePullRequest(q, end) /\ Reaches("preparation", PreparationEvents.done, end)

-----------------------------------------------------------------------------
(* Requests that change nothing *)

(* What says that a step is done. *)
OnRecord(subject) ==
  CASE subject = "run" -> status # "none"
    [] subject = "approval" -> step = "approval_requested" \/ started
    [] subject = "start" -> started
    [] subject = "worker" -> Noted("artifact")
    [] subject = "artifact" -> verdicts["artifact"] # "none"
    [] subject = "proposal_review" -> verdicts["proposal"] # "none"
    [] subject = "draft_review" -> verdicts["draft"] # "none"
    [] subject = "report_review" -> verdicts["report"] # "none"
    [] subject = "panel" -> Noted("application")
    [] subject = "gates" -> Noted("report")
    [] OTHER -> Noted(subject)

(* The step is done already, it is not ready, or the phrase is not typed:  *)
(* of interest here is what has no answer.                                 *)
Denies(subject) ==
  LET events == IF OnRecord(subject) THEN Events[subject].repeated
                                     ELSE Events[subject].refused
  IN /\ status # "none" \/ subject = "run"
     /\ events # <<>> /\ events[Len(events)] = "request"
     /\ UNCHANGED vars
     /\ Appends(subject, events)

TrailInit ==
  /\ Init
  /\ told = [subject \in Subjects |-> 0]
  /\ unanswered = {}

TrailNext ==
  \/ \E end \in Ends : StartTold(end) \/ DocumentTold(end)
  \/ \E verdict \in Decisions, end \in Ends : ReviewTold(verdict, end)
  \/ (VerifyRepo \/ AwaitReview \/ RefreshEvidence \/ FailPipeline) /\ Silent
  \/ \E made \in BOOLEAN : WorkerTold(made)
  \/ ApplyTold
  \/ \E q \in Requests : GitTold(q)
  \/ \E subject \in DOMAIN Events : Denies(subject)
  \/ (Outside \/ Crash \/ \E action \in {"approve", "request_fix", "stop"} : Close(action))
       /\ Silent

TrailSpec == TrailInit /\ [][TrailNext]_<<vars, trail>>

-----------------------------------------------------------------------------
(* Properties *)

Kept == Subjects \ {"approval", "panel"}
Told(x) == told[x] > 0

(* The ledger and the notes tell the same story: a step is told once at    *)
(* most, after it is on record, but for the artifact of the worker, and no *)
(* more steps are in one and not in the other than the process died times, *)
(* unless somebody used the checkout under the git commands (the appends   *)
(* before and after updateRun in the handlers of the bridge).              *)
ToldAsRecorded ==
  ~touched =>
    /\ \A x \in Kept \ {"preparation"} : told[x] <= 1
    /\ \A x \in Kept \ {"worker"} : Told(x) => OnRecord(x)
    /\ Cardinality({x \in Kept : Told(x) # OnRecord(x)}) <= crashes

(* The document of a step. *)
FileOf == [worker |-> "artifact", proposal |-> "proposal", draft |-> "draft",
           application |-> "application", gates |-> "report",
           commit_proposal |-> "commit_proposal", commit |-> "commit",
           preparation |-> "preparation"]

(* A step that was interrupted, so that its file, its row and its event do *)
(* not belong together, shows in the ledger as a request without an answer:*)
(* an operator finds the place (the REQUESTED events of the handlers); the *)
(* worker shows by the artifact it told of.                                *)
InterruptionsShow ==
  ~touched =>
    \A x \in Kept :
      \/ Told(x) # OnRecord(x)
      \/ /\ x \in DOMAIN FileOf
         /\ docs[FileOf[x]] \in {"written", "stale"}
         /\ ~Told(x)
      => x \in unanswered \/ (x = "worker" /\ Told(x))

=============================================================================
