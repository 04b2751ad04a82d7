---------------------------- MODULE CandidatePanel ----------------------------
(***************************************************************************)
(* The commit candidate panel of a run, from the preparation of a candidate*)
(* to the merge.  It loads the latest candidate, the sign-off and the patch*)
(* and offers a form for every step that these allow; under the form it    *)
(* says what the step came to, by its own last answer where it has one and *)
(* by the row otherwise.  The answers are kept when another candidate is   *)
(* prepared.                                                               *)
(*                                                                         *)
(* Scope: one visit of the panel, in which it loads after every answer,    *)
(* and another when the server is back after a death; requests about       *)
(* another candidate than the latest come from elsewhere.                  *)
(***************************************************************************)
EXTENDS CommitCandidate

VARIABLES
  latest,  \* the candidate on the panel
  own      \* the answers the panel keeps

shown == <<latest, own>>

Nothing == [commit |-> 0, push |-> FALSE, pr |-> "none", readiness |-> "none",
            merge |-> FALSE]

-----------------------------------------------------------------------------
(* The forms: what the panel asks of what it loaded *)

CanPrepare == signoff.approved /\ Applied

CanLocalCommit(c) ==
  CanPrepare /\ candidate[c].status = "commit_candidate_prepared" /\ candidate[c].hash = 0

CanPushRemote(c) ==
  /\ CanPrepare
  /\ candidate[c].status = "local_commit_created"
  /\ candidate[c].hash # 0 /\ ~candidate[c].pushed

CanCreatePr(c) ==
  /\ CanPrepare
  /\ candidate[c].status = "remote_branch_pushed"
  /\ candidate[c].pushed /\ candidate[c].pr = "none"

(* Mutant: readiness is recorded once. *)
CanRecordMergeReadinessOnce(c) ==
  /\ CanPrepare
  /\ candidate[c].status \in PrStatuses
  /\ candidate[c].pr # "none" /\ candidate[c].hash # 0 /\ candidate[c].pushed

CanRecordMergeReadiness(c) ==
  /\ CanPrepare
  /\ candidate[c].status \in PrStatuses \cup {"merge_readiness_recorded"}
  /\ candidate[c].pr # "none" /\ candidate[c].hash # 0 /\ candidate[c].pushed

CanMergePr(c) ==
  /\ CanPrepare
  /\ candidate[c].status = "merge_readiness_recorded"
  /\ candidate[c].readiness = "ready" /\ candidate[c].pr = "live"
  /\ ~candidate[c].merged

-----------------------------------------------------------------------------
(* The sections: the form, and what is said of the step *)

PrepareSection == [form |-> CanPrepare, says |-> latest # None]

Said(mine, nothing, loaded) == IF mine # nothing THEN mine ELSE loaded

LocalCommitSection(c) ==
  [form |-> CanLocalCommit(c), says |-> Said(own.commit, 0, candidate[c].hash)]

PushSection(c) ==
  [form |-> CanPushRemote(c), says |-> Said(own.push, FALSE, candidate[c].pushed)]

PrSection(c) ==
  [form |-> CanCreatePr(c), says |-> Said(own.pr, "none", candidate[c].pr)]

MergeReadinessSection(c) ==
  [form |-> CanRecordMergeReadiness(c),
   says |-> Said(own.readiness, "none", candidate[c].readiness)]

MergeSection(c) ==
  [form |-> CanMergePr(c), says |-> Said(own.merge, FALSE, candidate[c].merged)]

-----------------------------------------------------------------------------
(* The handlers: what the panel keeps of the answer to its request *)

HandlePrepare(q) ==
  RecordCandidate(q) /\ latest' = request[q].candidate /\ UNCHANGED own

(* What is kept of an answer about candidate c; with the server the visit  *)
(* ends.                                                                   *)
Keeps(c, answers) ==
  /\ own' = IF crashes' # crashes THEN Nothing ELSE IF c = latest THEN answers ELSE own
  /\ UNCHANGED latest

HandleLocalCommit(q) ==
  RecordCommit(q) /\ Keeps(request[q].candidate, [own EXCEPT !.commit = request[q].commit])

HandlePushRemote(q) == RecordPush(q) /\ Keeps(request[q].candidate, [own EXCEPT !.push = TRUE])

HandleCreatePr(q) ==
  \/ RecordPr(q) /\ Keeps(request[q].candidate, [own EXCEPT !.pr = "live"])
  \/ \E c \in Candidates :
       PreparePacket(q, c) /\ Keeps(c, [own EXCEPT !.pr = "packet"])

(* Mutant: an answer that is already there stays. *)
HandleMergeReadinessFirst(q) ==
  \/ RecordReadiness(q)
       /\ Keeps(request[q].candidate, IF own.readiness = "none"
                   THEN [own EXCEPT !.readiness = request[q].decision] ELSE own)
  \/ \E c \in Candidates, d \in {"ready", "not_ready"} :
       /\ AssessFromEvidence(q, c, d)
       /\ Keeps(c, IF own.readiness = "none" THEN [own EXCEPT !.readiness = d] ELSE own)

HandleMergeReadiness(q) ==
  \/ RecordReadiness(q) /\ Keeps(request[q].candidate, [own EXCEPT !.readiness = request[q].decision])
  \/ \E c \in Candidates, d \in {"ready", "not_ready"} :
       AssessFromEvidence(q, c, d) /\ Keeps(c, [own EXCEPT !.readiness = d])

HandleMergePr(q) == RecordMerge(q) /\ Keeps(request[q].candidate, [own EXCEPT !.merge = TRUE])

Handles(q) ==
  \/ HandlePrepare(q) \/ HandleLocalCommit(q) \/ HandlePushRemote(q) \/ HandleCreatePr(q)
  \/ HandleMergeReadiness(q) \/ HandleMergePr(q)

PanelInit == Init /\ latest = None /\ own = Nothing

(* What reaches no panel, or leaves the rows as they are. *)
Elsewhere ==
  /\ \/ \E q \in Requests :
          \/ \E approved, override \in BOOLEAN : SignOff(q, approved, override)
          \/ \E c \in Candidates :
               \/ \E override \in BOOLEAN : Prepare(q, c, override)
               \/ RequestCommit(q, c) \/ RequestPush(q, c) \/ RequestPr(q, c)
               \/ \E d \in {"ready", "not_ready"} : RequestAssessment(q, c, d)
               \/ RequestMerge(q, c)
          \/ GitSteps(q) \/ GithubSteps(q) \/ RecordSignoff(q) \/ Refuse(q)
     \/ GatesReport \/ RollbackPatch \/ OthersAct
  /\ UNCHANGED shown

VisitEnds == Crash /\ own' = Nothing /\ UNCHANGED latest

PanelNext == Elsewhere \/ VisitEnds \/ \E q \in Requests : Handles(q)

PanelSpec == PanelInit /\ [][PanelNext]_<<vars, shown>>

-----------------------------------------------------------------------------
(* Properties *)

(* While requests do not overlap, the panel hides no step that would be    *)
(* accepted, and refuses none it offers but for two reasons the panel does *)
(* not look at: another sign-off came after the candidate was prepared, or *)
(* the gates of its sign-off had not passed; and, for the merge, that the  *)
(* evidence file of a dead server says otherwise (the forms of             *)
(* CommitCandidatePanel against the validations of the handlers).          *)
PanelOffersWhatIsAccepted ==
  \A c \in Candidates :
    LET Fits == SignoffStands(c) /\ DocumentedGates(c) /\ crashes = 0 IN
    /\ MayCommit(c) => LocalCommitSection(c).form
    /\ MayPush(c) => PushSection(c).form
    /\ MayOpenPr(c) => PrSection(c).form
    /\ MayAssess(c) => MergeReadinessSection(c).form
    /\ MayMerge(c) => MergeSection(c).form
    /\ Fits /\ LocalCommitSection(c).form => MayCommit(c)
    /\ Fits /\ PushSection(c).form => MayPush(c)
    /\ Fits /\ PrSection(c).form => MayOpenPr(c)
    /\ Fits /\ GatesOk(candidate[c].gates) =>
         /\ MergeReadinessSection(c).form => MayAssess(c)
         /\ MergeSection(c).form => MayMerge(c)

(* What the panel says of its steps is on the row of the candidate it      *)
(* shows, while the run has one; with more of them it may still be that of *)
(* an earlier candidate, and is on the row of one of them in any case (the *)
(* results CommitCandidatePanel keeps beside the loaded candidate).        *)
PanelSaysWhatIsRecorded ==
  /\ PrepareSection.says <=> \E c \in Candidates : candidate[c].status # "absent"
  /\ latest # None =>
    LET Agrees(c) == /\ LocalCommitSection(latest).says = candidate[c].hash
                     /\ PushSection(latest).says = candidate[c].pushed
                     /\ PrSection(latest).says = candidate[c].pr
                     /\ MergeReadinessSection(latest).says = candidate[c].readiness
                     /\ MergeSection(latest).says = candidate[c].merged
        Alone == \A d \in Candidates \ {latest} : candidate[d].status = "absent"
    IN /\ Alone => Agrees(latest)
       /\ own.commit # 0 => \E c \in Candidates : candidate[c].hash = own.commit

=============================================================================
