------------------------------- MODULE VeraPage -------------------------------
(***************************************************************************)
(* The page of a Vera run, with one panel for every request of the bridge. *)
(* The page is rendered from the row, the notes and the readiness of every *)
(* step; a panel is there when the run is at its step or past it, and its  *)
(* button works when the step is not done, the run is at it and it is      *)
(* ready.  A panel keeps the run it was mounted with until its own request *)
(* is answered: a refresh of the page gives it a new readiness only.       *)
(*                                                                         *)
(* That matters for one panel, which is there a step early: the others are *)
(* mounted when the run has come to their step, or is past it.             *)
(***************************************************************************)
EXTENDS VeraTrail

VARIABLE
  startPanel  \* the step that the panel of the start was mounted with

page == <<startPanel>>

-----------------------------------------------------------------------------
(* The panels: when their button works *)

Panel(done, at, ready) == ~done /\ step = at /\ ready

(* On the page of the task. *)
HandoffPanel == status = "none"

ApprovalPanel == Panel(step = "approval_requested", "prepared", status = "pending")

StartReady == status = "pending" /\ step = "approval_requested" /\ ~started

(* The run it was mounted with, the readiness of now. *)
StartPanel == startPanel = "approval_requested" /\ StartReady

ArtifactReviewPanel ==
  Panel(verdicts["artifact"] # "none", "artifact_ready", ArtifactReviewReady)

ProposalPanel ==
  Panel(Noted("proposal"), "artifact_approved", Approved("artifact") /\ ProposalReady)

ProposalReviewPanel ==
  Panel(verdicts["proposal"] # "none", "proposal_ready", ProposalReviewReady)

(* A proposal never has content, so its application is never ready. *)
ProposalApplicationPanel == Panel(Noted("application"), "proposal_approved", FALSE)

DraftPanel == Panel(Noted("draft"), "proposal_approved", DraftReady)

DraftReviewPanel == Panel(verdicts["draft"] # "none", "draft_ready", DraftReviewReady)

ApplicationPanel == Panel(Noted("application"), "draft_approved", ApplicationReady)

(* Mutant: the panel waits for a report. *)
GatesPanelOnReport == Panel(~Noted("report"), "patch_applied", GatesReady)

GatesPanel == Panel(Noted("report"), "patch_applied", GatesReady)

ReportReviewPanel ==
  Noted("report") /\ Panel(verdicts["report"] # "none", "gates_completed", ReportReviewReady)

CommitProposalPanel ==
  Panel(Noted("commit_proposal"), "report_approved", ProposalOfCommitReady)

CommitPanel ==
  Noted("commit_proposal") /\ Panel(Noted("commit"), "commit_proposed", CommitReady)

PreparationPanel ==
  /\ Noted("commit")
  /\ Panel(Noted("preparation"), "commit_created",
           PreparationStands /\ Recorded("commit") /\ HeadIsCommit /\ PreparationReady)

Offers ==
  [prepare |-> HandoffPanel, approval |-> ApprovalPanel, start |-> StartPanel,
   artifact_review |-> ArtifactReviewPanel, proposal |-> ProposalPanel,
   proposal_review |-> ProposalReviewPanel, proposal_application |-> ProposalApplicationPanel,
   draft |-> DraftPanel, draft_review |-> DraftReviewPanel, application |-> ApplicationPanel,
   gates |-> GatesPanel, report_review |-> ReportReviewPanel,
   commit_proposal |-> CommitProposalPanel, commit |-> CommitPanel,
   preparation |-> PreparationPanel]

Offered == {r \in DOMAIN Offers : Offers[r]}

-----------------------------------------------------------------------------
(* Opening and refreshing the page *)

StartPanelShown == step \in {"prepared", "approval_requested"} /\ ~started

(* Every panel is mounted anew. *)
Open ==
  /\ startPanel' = IF StartPanelShown THEN step ELSE "none"
  /\ UNCHANGED <<vars, trail>>

(* A panel that stays keeps its run. *)
Refresh ==
  /\ startPanel' = CASE ~StartPanelShown -> "none"
                     [] StartPanelShown /\ startPanel = "none" -> step
                     [] OTHER -> startPanel
  /\ UNCHANGED <<vars, trail>>

(* Once the run is started, the panel of the start offers nothing, whatever*)
(* it was mounted with.                                                    *)
Stays == startPanel' = IF started' THEN "none" ELSE startPanel

PageInit == TrailInit /\ startPanel = "none"

PageNext == (TrailNext /\ Stays) \/ Open \/ Refresh

PageSpec == PageInit /\ [][PageNext]_<<vars, trail, page>>

-----------------------------------------------------------------------------
(* Properties *)

(* Where a run that nobody interfered with has no way on. *)
AtItsEnd ==
  \/ step \in {"artifact_blocked", "artifact_rejected", "proposal_rejected",
               "draft_rejected", "report_rejected", "pull_request_prepared"}
  \/ step = "gates_completed" /\ ~passed
  \/ step \in {"proposal_approved", "draft_ready", "draft_approved"} /\ ~PanelAllows
  \/ step = "draft_approved" /\ \E p \in Targets : ~EntryFits(p)
  \/ step = "commit_proposed" /\ git.tip["run"] # target   \* committed, never recorded

(* The page leads a run on: while it waits, nothing of it is under way and *)
(* nobody interfered, one panel offers its request, and only one, unless   *)
(* the run is at its end, or the panel of the start was mounted before the *)
(* approval was requested, which only a new visit mends                    *)
(* (VeraExecutionStartPanel and the panels after it).                      *)
PageLeadsOn ==
  /\ deeds = 0 /\ crashes = 0 /\ pipeline = "idle" /\ ~completed
  /\ \A q \in Requests : At(q, "idle")
  /\ status \in {"none", "pending", "waiting_for_approval"}
  => \/ Cardinality(Offered) = 1
     \/ AtItsEnd
     \/ step = "approval_requested" /\ startPanel # "approval_requested"

=============================================================================
