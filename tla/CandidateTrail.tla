---------------------------- MODULE CandidateTrail ----------------------------
(***************************************************************************)
(* The audit events of a commit candidate, from the local commit to the    *)
(* merge: a handler appends that it was asked and that the request is      *)
(* valid once its validation, git included, is through; the record of what *)
(* was done after the row says so; or its rejection.                       *)
(*                                                                         *)
(* Scope: a request that is not valid appends its rejection only, under    *)
(* codes of its own, and is left out; so is the preparation.               *)
(***************************************************************************)
EXTENDS CommitCandidate, FiniteSets

VARIABLES
  told,       \* what the ledger last says was done, by candidate and step
  unanswered  \* steps of candidates with a request that nothing will answer

trail == <<told, unanswered>>

NothingTold == [commit |-> 0, push |-> FALSE, pr |-> "none", readiness |-> "none",
                merge |-> FALSE]

StepNames == DOMAIN NothingTold

-----------------------------------------------------------------------------
(* What the handlers append: when they begin, and when they are done or    *)
(* refused after all                                                       *)

Asked == <<"requested", "validated">>

(* Mutant: everything is appended when the commit is there. *)
LocalCommitEventsAtEnd ==
  [begun |-> <<>>, done |-> Asked \o <<"created">>, refused |-> <<"rejected">>]

LocalCommitEvents ==
  [begun |-> Asked, done |-> <<"created">>, refused |-> <<"rejected">>]

RemoteBranchPushEvents ==
  [begun |-> Asked, done |-> <<"created">>, refused |-> <<"rejected">>]

PullRequestEvents ==
  [begun |-> Asked, done |-> <<"created or packet prepared">>, refused |-> <<"rejected">>]

MergeReadinessEvents ==
  [begun |-> Asked, done |-> <<"recorded">>, refused |-> <<"rejected">>]

GovernedPrMergeEvents ==
  [begun |-> Asked, done |-> <<"merged">>, refused |-> <<"rejected">>]

Events ==
  [commit |-> LocalCommitEvents, push |-> RemoteBranchPushEvents,
   pr |-> PullRequestEvents, readiness |-> MergeReadinessEvents,
   merge |-> GovernedPrMergeEvents]

-----------------------------------------------------------------------------
(* Appending *)

(* Where a request of a step waits once it is valid. *)
Places ==
  [commit |-> {"add", "commit", "rev_parse", "record_commit"},
   push |-> {"push", "record_push"},
   pr |-> {"pr_list", "pr_create", "record_pr"},
   readiness |-> {"ready_view", "record_ready"},
   merge |-> {"merge_view", "merge", "merged_view", "record_merge"}]

IsAbout(q, c, step) == request[q].candidate = c /\ request[q].pc \in Places[step]

Dead == crashes' # crashes

(* Events that end in a request leave it open. *)
Open(events) == events # <<>> /\ events[Len(events)] = "validated"

(* The requests that end open: without a word, or with the events of an    *)
(* end among "done" and "refused".                                         *)
LeftBy(asked, ends) ==
  {a \in asked : Open(Events[a[2]].begun \o
                        IF ends = "silently" THEN <<>> ELSE Events[a[2]][ends])}

InFlight == {a \in Candidates \X StepNames : \E q \in Requests : IsAbout(q, a[1], a[2])}

Lost == IF Dead THEN LeftBy(InFlight, "silently") ELSE {}

Silent == UNCHANGED told /\ unanswered' = unanswered \cup Lost

(* The event of what was done is the last of a step. *)
Reaches(c, step, answer) ==
  /\ told' = IF Dead THEN told ELSE [told EXCEPT ![c][step] = answer]
  /\ unanswered' = unanswered \cup Lost \cup
       LeftBy({<<c, step>>}, IF Dead THEN "silently" ELSE "done")

-----------------------------------------------------------------------------
(* The steps of the candidates, with what they append *)

Answers(q) ==
  LET c == request[q].candidate IN
  \/ RecordCommit(q) /\ Reaches(c, "commit", request[q].commit)
  \/ RecordPush(q) /\ Reaches(c, "push", TRUE)
  \/ RecordPr(q) /\ Reaches(c, "pr", "live")
  \/ RecordReadiness(q) /\ Reaches(c, "readiness", request[q].decision)
  \/ RecordMerge(q) /\ Reaches(c, "merge", TRUE)
  \/ \E d \in Candidates :
       \/ PreparePacket(q, d) /\ Reaches(d, "pr", "packet")
       \/ \E decision \in {"ready", "not_ready"} :
            AssessFromEvidence(q, d, decision) /\ Reaches(d, "readiness", decision)

RefusalTold(q) ==
  /\ Refuse(q)
  /\ UNCHANGED told
  /\ unanswered' = unanswered \cup
       LeftBy({a \in InFlight : IsAbout(q, a[1], a[2])}, "refused")

(* What appends nothing, or the two events of a request that goes on. *)
GoesOn ==
  \/ \E q \in Requests :
       \/ \E approved, override \in BOOLEAN : SignOff(q, approved, override)
       \/ \E c \in Candidates :
            \/ \E override \in BOOLEAN : Prepare(q, c, override)
            \/ RequestCommit(q, c) \/ RequestPush(q, c) \/ RequestPr(q, c)
            \/ \E d \in {"ready", "not_ready"} : RequestAssessment(q, c, d)
            \/ RequestMerge(q, c)
       \/ GitSteps(q) \/ GithubSteps(q) \/ RecordSignoff(q) \/ RecordCandidate(q)
  \/ GatesReport \/ RollbackPatch \/ Crash \/ OthersAct

TrailInit ==
  /\ Init
  /\ told = [c \in Candidates |-> NothingTold]
  /\ unanswered = {}

(* Bound: after a death requests come one at a time. *)
OneAtATime ==
  crashes' > 0 => Cardinality({q \in Requests : request'[q].pc # "idle"}) <= 1

TrailNext ==
  /\ \/ \E q \in Requests : Answers(q) \/ RefusalTold(q)
     \/ GoesOn /\ Silent
  /\ OneAtATime

TrailSpec == TrailInit /\ [][TrailNext]_<<vars, trail>>

-----------------------------------------------------------------------------
(* Properties *)

Recorded(c) ==
  [commit |-> candidate[c].hash, push |-> candidate[c].pushed, pr |-> candidate[c].pr,
   readiness |-> candidate[c].readiness, merge |-> candidate[c].merged]

(* The evidence is there when the row says so. *)
Documented(c) ==
  /\ (file[c].push # 0) = candidate[c].pushed
  /\ file[c].pr = candidate[c].pr /\ file[c].readiness = candidate[c].readiness

(* Where the ledger, or the evidence files, are not what the row of a      *)
(* candidate says, the ledger shows why: a request of that candidate has   *)
(* no answer (the REQUESTED and VALIDATED events of the handlers, before   *)
(* anything is done).                                                      *)
InterruptionsShow ==
  \A c \in Candidates :
    /\ \A step \in StepNames :
         told[c][step] # Recorded(c)[step] => <<c, step>> \in unanswered
    /\ ~Documented(c) => \E step \in {"push", "pr", "readiness"} : <<c, step>> \in unanswered

=============================================================================
