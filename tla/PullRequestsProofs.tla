-------------------------- MODULE PullRequestsProofs --------------------------
(***************************************************************************)
(* Proofs about PullRequests, for any number of requests, commits, merges, *)
(* deaths and deeds of others: every variable keeps its shape, a pull      *)
(* request on record exists on GitHub with the commit that is on record,   *)
(* that commit is what is merged, the approved work is never stranded, and *)
(* the panels keep their word.                                             *)
(***************************************************************************)
EXTENDS PrPage, FiniteSetTheorems, SequenceTheorems, TLAPS

(* Commits are numbered as they are made, so a branch has each once. *)
Numbered ==
  /\ \A i \in 1..Len(RunLog) : RunLog[i] \in 1..repo.made
  /\ \A i, j \in 1..Len(RunLog) : RunLog[i] = RunLog[j] => i = j

(* What the tracking ref names has been pushed, with all that precedes it. *)
PushedUpTo(k) ==
  /\ RunLog[k] = repo.tracking /\ k <= Len(github.log)
  /\ \A i \in 1..k : github.log[i] = RunLog[i]

Tracked ==
  repo.tracking # 0 /\ ~history.uprooted => \E k \in 1..Len(RunLog) : PushedUpTo(k)

(* One request at a time works on the row, unless two overlapped. *)
Working(q) == request[q].pc \in PrSteps

Alone ==
  ~history.overlapped => \A q, r \in Requests : Working(q) /\ Working(r) => q = r

(* How far a request has come, and what is true by then. *)
Achieved(q) ==
  /\ Working(q) => pr.status # "pr_created"
  /\ request[q].pc \in {"resolve", "commit", "rev_parse"} => repo.head = "run"
  /\ At(q, "rev_parse") => RunLog # <<>>
  /\ At(q, "push") => pr.commit # 0 /\ In(pr.commit, RunLog)
  /\ request[q].pc \in {"open", "opened"} => pr.commit # 0 /\ In(pr.commit, github.log)
  /\ At(q, "opened") => github.pr # "none"

Calm == ~history.uprooted /\ ~history.overlapped

IInv ==
  /\ TypeOK /\ Numbered /\ Tracked /\ Alone
  /\ Calm => \A q \in Requests : Achieved(q)
  /\ PublishedAsRecorded

-----------------------------------------------------------------------------
(* Types *)

LEMMA Bounds ==
  /\ MaxCommits \in Nat /\ MaxMerges \in Nat /\ MaxOthers \in Nat /\ MaxCrashes \in Nat
  /\ Commits \subseteq Nat /\ 0 \in Commits
  BY BoundsAssumption DEF Commits

LEMMA Shapes ==
  ASSUME TypeOK
  PROVE  /\ pr \in PrRows /\ pr.commit \in Commits
         /\ repo.log \in [Branches -> Seq(Commits)] /\ repo.head \in Branches
         /\ repo.log[repo.head] \in Seq(Commits) /\ RunLog \in Seq(Commits)
         /\ repo.own \subseteq Commits /\ repo.made \in Commits /\ repo.tracking \in Commits
         /\ repo.dirty \in BOOLEAN
         /\ github.log \in Seq(Commits)
         /\ \A q \in Requests : request[q] \in RequestStates
  BY DEF TypeOK, PrRows, Repos, Githubs, Branches, RunLog

LEMMA Added ==
  ASSUME NEW S, NEW s \in Seq(S), NEW x \in S
  PROVE  /\ Append(s, x) \in Seq(S)
         /\ Len(Append(s, x)) = Len(s) + 1
         /\ Append(s, x)[Len(s) + 1] = x
         /\ \A i \in 1..Len(s) : Append(s, x)[i] = s[i]
  OBVIOUS

(* A branch without its newest commit. *)
LEMMA Shortened ==
  ASSUME NEW S, NEW s \in Seq(S), s # <<>>
  PROVE  /\ SubSeq(s, 1, Len(s) - 1) \in Seq(S)
         /\ Len(SubSeq(s, 1, Len(s) - 1)) = Len(s) - 1
         /\ \A i \in 1..(Len(s) - 1) : SubSeq(s, 1, Len(s) - 1)[i] = s[i]
<1>1. Len(s) \in Nat /\ Len(s) # 0
  OBVIOUS
<1> DEFINE m == Len(s) - 1
<1>2. m \in Nat /\ m <= Len(s) /\ m - 1 + 1 = m
  BY <1>1
<1>3. \A i \in 1..m : s[i] \in S /\ 1 + i - 1 = i
  BY <1>1, <1>2
<1> HIDE DEF m
<1>4. /\ SubSeq(s, 1, m) \in Seq(S)
      /\ Len(SubSeq(s, 1, m)) = IF 1 <= m THEN m - 1 + 1 ELSE 0
      /\ \A i \in 1..(m - 1 + 1) : SubSeq(s, 1, m)[i] = s[1 + i - 1]
  BY <1>2, <1>3, SubSeqProperties
<1> QED
  BY <1>2, <1>3, <1>4 DEF m

LEMMA TipType ==
  ASSUME NEW s \in Seq(Commits)
  PROVE  Tip(s) \in Commits
  BY Bounds DEF Tip

(* Some numbers have a greatest one: what lies after it is least. *)
LEMMA Greatest ==
  ASSUME NEW n \in Nat, NEW S \in SUBSET (1..n), S # {}
  PROVE  \E i \in S : \A j \in S : j <= i
<1> DEFINE From(i) == {j \in S : i <= j}
           T == {From(i) : i \in S}
           R == StrictSubsetOrdering(1..n)
<1>1. IsWellFoundedOn(R, SUBSET (1..n))
  <2>1. IsFiniteSet(1..n)
    BY FS_Interval
  <2>2. FiniteSubsetsOf(1..n) = SUBSET (1..n)
    BY <2>1, FS_FiniteSubsetsOfFinite
  <2> QED
    BY <2>2, FS_StrictSubsetOrderingWellFounded
<1>2. T \subseteq SUBSET (1..n) /\ T # {}
  OBVIOUS
<1> HIDE DEF R, T
<1>3. PICK x \in T : \A y \in T : ~(<<y, x>> \in R)
  BY <1>1, <1>2, WFMin
<1>4. PICK i \in S : x = From(i)
  BY DEF T
<1>5. ASSUME NEW j \in S PROVE j <= i
  <2> SUFFICES ASSUME i < j PROVE FALSE
    OBVIOUS
  <2>1. i \in From(i) /\ i \notin From(j) /\ \A k \in From(j) : k \in From(i)
    OBVIOUS
  <2>2. From(j) \in SUBSET (1..n) /\ From(i) \in SUBSET (1..n) /\ From(j) \in T
    BY DEF T
  <2> HIDE DEF From
  <2>3. From(j) \subseteq From(i) /\ From(j) # From(i)
    BY <2>1
  <2>4. <<From(j), From(i)>> \in R
    BY <2>2, <2>3 DEF R, StrictSubsetOrdering
  <2> QED
    BY <1>3, <1>4, <2>2, <2>4
<1> QED
  BY <1>5

LEMMA ReusableType ==
  ASSUME TypeOK, NEW c \in Commits
  PROVE  Reusable(c) \in Commits
<1> DEFINE places == {i \in 1..Len(RunLog) : RunLog[i] \in repo.own}
<1>1. RunLog \in Seq(Commits) /\ Len(RunLog) \in Nat
  BY Shapes
<1>2. CASE places = {}
  BY <1>2, Bounds DEF Reusable, NewestOwn
<1>3. CASE places # {}
  <2>1. PICK last \in places : \A j \in places : j <= last
    BY <1>1, <1>3, Greatest
  <2> DEFINE k == CHOOSE i \in places : \A j \in places : j <= i
  <2>2. k \in places
    BY <2>1
  <2>3. RunLog[k] \in Commits
    BY <1>1, <2>2
  <2>4. NewestOwn(RunLog) = RunLog[k]
    BY <1>3 DEF NewestOwn
  <2> QED
    BY <2>3, <2>4 DEF Reusable
<1> QED
  BY <1>2, <1>3

LEMMA InitTypes == Init => TypeOK
<1> SUFFICES ASSUME Init PROVE TypeOK
  OBVIOUS
<1> USE DEF Init
<1>1. pr \in PrRows /\ repo \in Repos /\ github \in Githubs /\ history \in Histories
  BY Bounds DEF PrRows, PrStatus, Repos, Githubs, Histories, Branches
<1>2. request \in [Requests -> RequestStates]
  BY Bounds DEF RequestStates, Idle
<1>3. merges \in Seq(MergeStatus) /\ Len(merges) <= MaxMerges
  BY Bounds
<1> QED
  BY <1>1, <1>2, <1>3, Bounds DEF TypeOK

(* A request goes on, or ends. *)
LEMMA RequestTypes ==
  ASSUME TypeOK, NEW q \in Requests
  PROVE  /\ \A pc \in {"checkout", "resolve", "commit", "rev_parse", "push", "open", "opened",
                       "preview", "merge", "postview", "refresh"} :
              Goes(q, pc) => request' \in [Requests -> RequestStates]
         /\ Ends(q) => request' \in [Requests -> RequestStates]
<1>1. request \in [Requests -> RequestStates] /\ request[q] \in RequestStates
  BY DEF TypeOK
<1>2. ASSUME NEW pc \in {"checkout", "resolve", "commit", "rev_parse", "push", "open", "opened",
                        "preview", "merge", "postview", "refresh"}
      PROVE  [request[q] EXCEPT !.pc = pc] \in RequestStates
  BY <1>1 DEF RequestStates
<1>3. Idle \in RequestStates
  BY Bounds DEF RequestStates, Idle
<1> QED
  BY <1>1, <1>2, <1>3 DEF Goes, Ends

LEMMA NoteTypes ==
  ASSUME TypeOK, NEW q, NEW status \in MergeStatus, NoteMerge(q, status)
  PROVE  merges' \in Seq(MergeStatus) /\ Len(merges') <= MaxMerges
<1>1. merges \in Seq(MergeStatus) /\ Len(merges) <= MaxMerges
  BY DEF TypeOK
<1>2. PICK a : merges' = [merges EXCEPT ![a] = status]
  BY DEF NoteMerge
<1>3. merges \in [1..Len(merges) -> MergeStatus] /\ Len(merges) \in Nat
  BY <1>1
<1>4. merges' \in [1..Len(merges) -> MergeStatus]
  BY <1>2, <1>3, Zenon
<1> QED
  BY <1>1, <1>3, <1>4

(* What an action changes of the variables, one kind of step after another. *)
LEMMA AskTypes ==
  ASSUME TypeOK, NEW q \in Requests, Ask(q)
  PROVE  TypeOK'
<1>1. PICK r \in BOOLEAN : AskPr(q, r) \/ AskMerge(q, r)
  BY DEF Ask
<1>2. pr.commit \in Commits
  BY Shapes
<1>3. PrWarned(standing) \in BOOLEAN /\ MergeWarned(standing) \in BOOLEAN
  BY DEF PrWarned, MergeWarned
<1>4. ASSUME NEW pc \in {"inspect", "view"}, NEW w \in BOOLEAN
      PROVE  [Idle EXCEPT !.pc = pc, !.review = w, !.rationale = r, !.commit = pr.commit]
               \in RequestStates
  <2>1. Idle \in RequestStates
    BY Bounds DEF Idle, RequestStates
  <2> QED
    BY <1>2, <1>4, <2>1 DEF RequestStates
<1>5. request' \in [Requests -> RequestStates]
  BY <1>1, <1>3, <1>4 DEF AskPr, AskMerge, TypeOK
<1> QED
  BY <1>1, <1>5 DEF TypeOK, AskPr, AskMerge

LEMMA InspectTypes ==
  ASSUME TypeOK, NEW q \in Requests, Inspect(q)
  PROVE  TypeOK'
<1>1. /\ pr \in PrRows /\ pr.commit \in Commits /\ request[q] \in RequestStates
      /\ request[q].commit \in Commits
  BY Shapes DEF RequestStates
<1>2. Begun \in PrRows
  BY <1>1, Bounds DEF Begun, PrRows, PrStatus
<1>3. pr' \in PrRows
  BY <1>1, <1>2 DEF Inspect
<1>4. history' \in Histories
  BY DEF Inspect, TypeOK, Histories, InFlight
<1>5. request' \in [Requests -> RequestStates]
  <2>1. Reusable(request[q].commit) \in Commits
    BY <1>1, ReusableType
  <2>2. [request[q] EXCEPT !.pc = "checkout", !.commit = pr.commit,
                           !.reusable = Reusable(request[q].commit)] \in RequestStates
    BY <1>1, <2>1 DEF RequestStates
  <2>3. CASE OnRecord
    BY <2>3, RequestTypes DEF Inspect
  <2>4. CASE ~OnRecord
    <3>1. request' = [request EXCEPT ![q] =
            [request[q] EXCEPT !.pc = "checkout", !.commit = pr.commit,
                               !.reusable = Reusable(request[q].commit)]]
      BY <2>4 DEF Inspect, TypeOK
    <3> QED
      BY <2>2, <3>1 DEF TypeOK
  <2> QED
    BY <2>3, <2>4
<1> QED
  BY <1>3, <1>4, <1>5 DEF TypeOK, Inspect

LEMMA RecordedType ==
  ASSUME TypeOK, NEW c \in Commits
  PROVE  Recorded(c) \in PrRows
  BY DEF TypeOK, Recorded, PrRows, PrStatus

LEMMA CommittedTypes ==
  ASSUME TypeOK, repo.made < MaxCommits
  PROVE  /\ repo.made + 1 \in Commits
         /\ [repo.log EXCEPT ![repo.head] = Append(@, repo.made + 1)]
              \in [Branches -> Seq(Commits)]
<1>1. repo.made + 1 \in Commits
  BY Bounds, Shapes DEF Commits
<1>2. Append(repo.log[repo.head], repo.made + 1) \in Seq(Commits)
  BY <1>1, Shapes, Added
<1> QED
  BY <1>1, <1>2, Shapes

LEMMA PrStepTypes ==
  ASSUME TypeOK, NEW q \in Requests,
         \/ Checkout(q) \/ ReuseCommit(q) \/ ListChanges(q) \/ Commit(q) \/ RevParse(q)
         \/ Push(q) \/ RecordPr(q) \/ FailPr(q) \/ \E state \in {"draft", "open"} : OpenPr(q, state)
  PROVE  TypeOK'
<1>1. request[q] \in RequestStates /\ pr \in PrRows
  BY Shapes
<1>2. request' \in [Requests -> RequestStates]
  BY RequestTypes DEF Checkout, ReuseCommit, ListChanges, Commit, RevParse, Push, RecordPr,
                      FailPr, OpenPr
<1>3. ASSUME NEW status \in PrStatus, Note(status) PROVE pr' \in PrRows
  BY <1>1, <1>3 DEF Note, PrRows
<1>4. CASE Checkout(q)
  <2>1. repo' \in Repos
    BY <1>4 DEF Checkout, TypeOK, Repos, Branches
  <2>2. pr' \in PrRows
    BY <1>3, <1>4 DEF Checkout, PrStatus
  <2> QED
    BY <1>2, <1>4, <2>1, <2>2 DEF Checkout, TypeOK
<1>5. CASE ReuseCommit(q)
  <2>1. Known(q) \in Commits
    BY <1>1 DEF RequestStates, PrRows, Known
  <2>2. pr' \in PrRows
    BY <1>5, <2>1, RecordedType DEF ReuseCommit
  <2> QED
    BY <1>2, <1>5, <2>2 DEF ReuseCommit, TypeOK
<1>6. CASE ListChanges(q)
  BY <1>2, <1>6 DEF ListChanges, TypeOK
<1>7. CASE Commit(q)
  <2>1. repo' \in Repos
    BY <1>7, CommittedTypes DEF Commit, TypeOK, Repos
  <2> QED
    BY <1>2, <1>7, <2>1 DEF Commit, TypeOK
<1>8. CASE RevParse(q)
  <2>1. pr' \in PrRows
    BY <1>8, RecordedType, Shapes, TipType DEF RevParse
  <2> QED
    BY <1>2, <1>8, <2>1 DEF RevParse, TypeOK
<1>9. CASE Push(q)
  <2>1. Tip(RunLog) \in Commits /\ RunLog \in Seq(Commits)
    BY Shapes, TipType
  <2>2. repo' \in Repos
    BY <1>9, <2>1 DEF Push, TypeOK, Repos, Branches
  <2>3. github' \in Githubs
    BY <1>9, <2>1 DEF Push, TypeOK, Githubs
  <2>4. history' \in Histories
    BY <1>9 DEF Push, Moved, InFlight, TypeOK, Histories
  <2> QED
    BY <1>2, <1>9, <2>2, <2>3, <2>4 DEF Push, TypeOK
<1>10. CASE RecordPr(q)
  <2>1. pr' \in PrRows
    BY <1>1, <1>10 DEF RecordPr, PrRows, PrStatus
  <2> QED
    BY <1>2, <1>10, <2>1 DEF RecordPr, TypeOK
<1>11. CASE FailPr(q)
  BY <1>2, <1>3, <1>11 DEF FailPr, TypeOK, PrStatus
<1>12. ASSUME NEW state \in {"draft", "open"}, OpenPr(q, state) PROVE TypeOK'
  <2>1. github' \in Githubs
    BY <1>12 DEF OpenPr, TypeOK, Githubs
  <2> QED
    BY <1>2, <1>12, <2>1 DEF OpenPr, TypeOK
<1> QED
  BY <1>4, <1>5, <1>6, <1>7, <1>8, <1>9, <1>10, <1>11, <1>12

LEMMA MergeStepTypes ==
  ASSUME TypeOK, NEW q \in Requests,
         \/ ViewPr(q) \/ Preview(q) \/ ViewMerged(q) \/ Refresh(q) \/ FailMerge(q) \/ Refuse(q)
         \/ \E answer \in {"answered", "lost"} : Merge(q, answer)
  PROVE  TypeOK'
<1>1. request[q] \in RequestStates
  BY Shapes
<1>2. ASSUME NEW status \in MergeStatus, NoteMerge(q, status)
      PROVE  merges' \in Seq(MergeStatus) /\ Len(merges') <= MaxMerges
  BY <1>2, NoteTypes
<1>3. CASE ViewPr(q)
  <2>1. "ready" \in MergeStatus
    BY DEF MergeStatus
  <2>2. /\ merges' \in Seq(MergeStatus) /\ Len(merges') = Len(merges) + 1
        /\ Len(merges) \in Nat /\ Len(merges) < MaxMerges
    BY <1>3, <2>1, Added DEF ViewPr, TypeOK
  <2>3. Len(merges) + 1 \in 0..MaxMerges /\ Len(merges') <= MaxMerges
    BY <2>2, Bounds
  <2>4. [request[q] EXCEPT !.pc = "preview", !.attempt = Len(merges) + 1] \in RequestStates
    BY <1>1, <2>3 DEF RequestStates
  <2>5. request' = [request EXCEPT ![q] =
          [request[q] EXCEPT !.pc = "preview", !.attempt = Len(merges) + 1]]
    BY <1>3 DEF ViewPr, TypeOK
  <2>6. request' \in [Requests -> RequestStates]
    BY <2>4, <2>5 DEF TypeOK
  <2> QED
    BY <1>3, <2>2, <2>3, <2>6 DEF ViewPr, TypeOK
<1>4. CASE ~ViewPr(q)
  <2>1. request' \in [Requests -> RequestStates]
    BY <1>4, RequestTypes DEF Preview, ViewMerged, Refresh, FailMerge, Refuse, Merge
  <2>2. merges' \in Seq(MergeStatus) /\ Len(merges') <= MaxMerges
    BY <1>2, <1>4 DEF Preview, ViewMerged, Refresh, FailMerge, Refuse, Merge, MergeStatus, TypeOK
  <2>3. github' \in Githubs
    BY <1>4 DEF Preview, ViewMerged, Refresh, FailMerge, Refuse, Merge, TypeOK, Githubs
  <2> QED
    BY <1>4, <2>1, <2>2, <2>3
       DEF Preview, ViewMerged, Refresh, FailMerge, Refuse, Merge, TypeOK
<1> QED
  BY <1>3, <1>4

LEMMA DeedTypes ==
  ASSUME TypeOK, NEW kind \in Deeds, Deed(kind)
  PROVE  TypeOK'
<1>1. deeds' \in 0..MaxOthers
  BY Bounds DEF Deed, TypeOK
<1>2. /\ UNCHANGED <<standing, pr, merges, request, crashes>>
      /\ kind \in {"work", "commit", "push", "switch", "reset", "ready", "close"}
  BY DEF Deed, Deeds
<1>3. SUFFICES repo' \in Repos /\ github' \in Githubs /\ history' \in Histories
  BY <1>1, <1>2 DEF TypeOK
<1>4. repo \in Repos /\ github \in Githubs /\ history \in Histories
  BY DEF TypeOK
<1>5. Uproot \in Histories /\ Moved \in Histories
  BY <1>4 DEF Uproot, Moved, Histories, InFlight
<1>6. CASE kind = "work"
  <2>1. repo' = [repo EXCEPT !.dirty = TRUE] /\ UNCHANGED <<github, history>>
    BY <1>6 DEF Deed
  <2> QED
    BY <1>4, <2>1 DEF Repos
<1>7. CASE kind = "commit"
  <2>1. /\ repo.made < MaxCommits /\ UNCHANGED <<github, history>>
        /\ repo' = [repo EXCEPT !.log[repo.head] = Append(@, repo.made + 1), !.made = repo.made + 1]
    BY <1>7 DEF Deed
  <2>2. repo' \in Repos
    BY <1>4, <2>1, CommittedTypes DEF Repos
  <2> QED
    BY <1>4, <2>1, <2>2
<1>8. CASE kind = "push"
  <2>1. /\ repo.made < MaxCommits /\ history' = Moved
        /\ repo' = [repo EXCEPT !.made = repo.made + 1]
        /\ github' = [github EXCEPT !.log = Append(github.log, repo.made + 1)]
    BY <1>8 DEF Deed
  <2>2. Append(github.log, repo.made + 1) \in Seq(Commits) /\ repo.made + 1 \in Commits
    BY <2>1, CommittedTypes, Shapes, Added
  <2> QED
    BY <1>4, <1>5, <2>1, <2>2 DEF Repos, Githubs
<1>9. CASE kind = "switch"
  <2>1. repo' = [repo EXCEPT !.head = "other"] /\ github' = github
        /\ history' \in {Uproot, history}
    BY <1>9 DEF Deed
  <2> QED
    BY <1>4, <1>5, <2>1 DEF Repos, Branches
<1>10. CASE kind = "reset"
  <2>1. /\ RunLog # <<>> /\ github' = github /\ history' = Uproot
        /\ repo' = [repo EXCEPT !.log["run"] = SubSeq(RunLog, 1, Len(RunLog) - 1)]
    BY <1>10 DEF Deed, RunLog
  <2>2. SubSeq(RunLog, 1, Len(RunLog) - 1) \in Seq(Commits)
    BY <2>1, Shapes, Shortened
  <2> QED
    BY <1>4, <1>5, <2>1, <2>2 DEF Repos, Branches
<1>11. CASE kind = "ready"
  BY <1>4, <1>11 DEF Deed, Githubs
<1>12. CASE kind = "close"
  BY <1>4, <1>12 DEF Deed, Githubs
<1> QED
  BY <1>2, <1>6, <1>7, <1>8, <1>9, <1>10, <1>11, <1>12

LEMMA StepTypes ==
  ASSUME TypeOK, [Next]_vars
  PROVE  TypeOK'
<1>1. ASSUME NEW q \in Requests, Continue(q) PROVE TypeOK'
  BY <1>1, InspectTypes, PrStepTypes, MergeStepTypes DEF Continue
<1>2. ASSUME NEW s \in Reports, Reassess(s) PROVE TypeOK'
  BY <1>2 DEF Reassess, TypeOK
<1>3. CASE Crash
  <2>1. Idle \in RequestStates
    BY Bounds DEF Idle, RequestStates
  <2>2. crashes' \in 0..MaxCrashes
    BY <1>3, Bounds DEF Crash, TypeOK
  <2> QED
    BY <1>3, <2>1, <2>2 DEF Crash, TypeOK
<1>4. CASE UNCHANGED vars
  BY <1>4 DEF vars, TypeOK
<1> QED
  BY <1>1, <1>2, <1>3, <1>4, AskTypes, DeedTypes DEF Next

-----------------------------------------------------------------------------
(* What is on record is published *)

LEMMA InitHolds == Init => IInv
<1> SUFFICES ASSUME Init PROVE IInv
  OBVIOUS
<1>1. TypeOK
  BY InitTypes
<1>2. RunLog = <<>> /\ repo.tracking = 0 /\ \A q \in Requests : request[q].pc = "idle"
  BY DEF Init, RunLog, Branches, Idle
<1>3. \A q \in Requests : ~Working(q)
  BY <1>2 DEF Working, PrSteps
<1>4. Numbered /\ Tracked /\ Alone
  BY <1>2, <1>3 DEF Numbered, Tracked, Alone
<1>5. \A q \in Requests : Achieved(q)
  BY <1>2, <1>3 DEF Achieved, At
<1>6. PublishedAsRecorded
  BY DEF Init, PublishedAsRecorded
<1> QED
  BY <1>1, <1>4, <1>5, <1>6 DEF IInv

(* Requests that do not work on the row go on, or end. *)
LEMMA QuietKeeps ==
  ASSUME IInv, TypeOK',
         repo' = repo, pr' = pr, history' = history, github'.log = github.log,
         github.pr # "none" => github'.pr # "none",
         \A q \in Requests : Working(q)' => request'[q].pc = request[q].pc
  PROVE  IInv'
<1>1. Numbered' /\ Tracked'
  BY DEF IInv, Numbered, Tracked, PushedUpTo, RunLog
<1>2. Alone'
  BY DEF IInv, Alone, Working
<1>3. ASSUME Calm', NEW q \in Requests PROVE Achieved(q)'
  <2>1. Achieved(q)
    BY <1>3 DEF IInv, Calm
  <2>2. request'[q].pc \in PrSteps => request'[q].pc = request[q].pc
    BY DEF Working
  <2> QED
    BY <2>1, <2>2 DEF Achieved, Working, At, In, RunLog, PrSteps
<1>4. PublishedAsRecorded'
  BY DEF IInv, PublishedAsRecorded, In
<1> QED
  BY <1>1, <1>2, <1>3, <1>4 DEF IInv

(* The request that works on the row takes its next step. *)
LEMMA WorkerKeeps ==
  ASSUME IInv, TypeOK', NEW q \in Requests, Working(q),
         history'.uprooted = history.uprooted, history'.overlapped = history.overlapped,
         \A r \in Requests \ {q} : request'[r] = request[r],
         Numbered', Tracked', Calm => Achieved(q)',
         Calm => PublishedAsRecorded'
  PROVE  IInv'
<1>1. Alone'
  BY DEF IInv, Alone, Working
<1>2. ASSUME Calm', NEW r \in Requests, r # q PROVE Achieved(r)'
  <2>1. ~Working(r)
    BY <1>2 DEF IInv, Alone, Calm
  <2>2. request'[r] = request[r]
    BY <1>2
  <2> QED
    BY <2>1, <2>2 DEF Achieved, Working, At, PrSteps
<1>3. Calm' => Calm
  BY DEF Calm
<1>4. PublishedAsRecorded'
  BY <1>3 DEF PublishedAsRecorded, Calm
<1> QED
  BY <1>1, <1>2, <1>3, <1>4 DEF IInv

LEMMA AskKeeps ==
  ASSUME IInv, NEW q \in Requests, Ask(q)
  PROVE  IInv'
<1>1. TypeOK'
  BY AskTypes DEF IInv
<1>2. /\ UNCHANGED <<repo, pr, history, github>>
      /\ \A r \in Requests \ {q} : request'[r] = request[r]
      /\ request'[q].pc \in {"inspect", "view"}
  BY DEF Ask, AskPr, AskMerge, IInv, TypeOK, Idle
<1>3. \A r \in Requests : Working(r)' => request'[r].pc = request[r].pc
  BY <1>2 DEF Working, PrSteps
<1> QED
  BY <1>1, <1>2, <1>3, QuietKeeps

LEMMA MergeStepKeeps ==
  ASSUME IInv, NEW q \in Requests,
         \/ ViewPr(q) \/ Preview(q) \/ ViewMerged(q) \/ Refresh(q) \/ FailMerge(q) \/ Refuse(q)
         \/ \E answer \in {"answered", "lost"} : Merge(q, answer)
  PROVE  IInv'
<1>1. TypeOK'
  BY MergeStepTypes DEF IInv
<1>2. /\ UNCHANGED <<repo, pr, history>> /\ github'.log = github.log
      /\ github.pr # "none" => github'.pr # "none"
  BY DEF ViewPr, Preview, ViewMerged, Refresh, FailMerge, Refuse, Merge, IInv, TypeOK, Githubs
<1>3. /\ \A r \in Requests \ {q} : request'[r] = request[r]
      /\ request'[q].pc \in {"idle", "preview", "merge", "postview", "refresh"}
  <2>1. request[q] \in RequestStates /\ request \in [Requests -> RequestStates]
    BY DEF IInv, TypeOK
  <2> QED
    BY <2>1 DEF ViewPr, Preview, ViewMerged, Refresh, FailMerge, Refuse, Merge, Goes, Ends, Idle,
                RequestStates
<1>4. \A r \in Requests : Working(r)' => request'[r].pc = request[r].pc
  BY <1>3 DEF Working, PrSteps
<1> QED
  BY <1>1, <1>2, <1>4, QuietKeeps

(* The next step of q, and what it leaves of the others. *)
LEMMA NextOf ==
  ASSUME TypeOK, NEW q \in Requests
  PROVE  /\ \A pc : Goes(q, pc) => request'[q].pc = pc
                                  /\ \A r \in Requests \ {q} : request'[r] = request[r]
         /\ Ends(q) => request'[q].pc = "idle"
                       /\ \A r \in Requests \ {q} : request'[r] = request[r]
<1>1. request \in [Requests -> RequestStates] /\ request[q] \in RequestStates
  BY DEF TypeOK
<1>2. ASSUME NEW pc, Goes(q, pc)
      PROVE  request'[q].pc = pc /\ \A r \in Requests \ {q} : request'[r] = request[r]
  BY <1>1, <1>2 DEF Goes, RequestStates
<1>3. ASSUME Ends(q)
      PROVE  request'[q].pc = "idle" /\ \A r \in Requests \ {q} : request'[r] = request[r]
  BY <1>1, <1>3 DEF Ends, Idle
<1> QED
  BY <1>2, <1>3

(* An inspection that finds no pull request on record begins the work. *)
LEMMA InspectKeeps ==
  ASSUME IInv, NEW q \in Requests, Inspect(q)
  PROVE  IInv'
<1> USE DEF IInv
<1>1. TypeOK'
  BY InspectTypes
<1>2. repo' = repo /\ github' = github /\ At(q, "inspect")
  BY DEF Inspect
<1>3. CASE OnRecord
  <2>1. Ends(q) /\ pr' = pr /\ history' = history
    BY <1>3 DEF Inspect
  <2>2. \A r \in Requests : Working(r)' => request'[r].pc = request[r].pc
    BY <2>1, NextOf DEF Working, PrSteps
  <2> QED
    BY <1>1, <1>2, <2>1, <2>2, QuietKeeps
<1>4. CASE ~OnRecord
  <2>1. /\ history' = [history EXCEPT !.overlapped = @ \/ InFlight(PrSteps)]
        /\ pr' = Begun
        /\ request'[q].pc = "checkout"
        /\ \A r \in Requests \ {q} : request'[r] = request[r]
    BY <1>4 DEF Inspect, TypeOK, RequestStates
  <2>2. history'.uprooted = history.uprooted
        /\ (history'.overlapped <=> history.overlapped \/ InFlight(PrSteps))
    BY <2>1 DEF TypeOK, Histories
  <2>3. pr'.status # "pr_created"
    BY <2>1 DEF Begun, TypeOK, PrRows
  <2>4. Numbered' /\ Tracked'
    BY <1>2, <2>2 DEF Numbered, Tracked, PushedUpTo, RunLog
  <2>5. ASSUME ~history'.overlapped, NEW r \in Requests, r # q PROVE ~Working(r)'
    BY <2>1, <2>2, <2>5 DEF InFlight, Working
  <2>6. Alone'
    BY <2>5 DEF Alone
  <2>7. ASSUME Calm', NEW r \in Requests PROVE Achieved(r)'
    <3>1. CASE r = q
      BY <2>1, <2>3, <3>1 DEF Achieved, At
    <3>2. CASE r # q
      BY <2>5, <2>7, <3>2 DEF Achieved, At, Working, PrSteps, Calm
    <3> QED
      BY <3>1, <3>2
  <2>8. PublishedAsRecorded'
    BY <2>3 DEF PublishedAsRecorded
  <2> QED
    BY <1>1, <2>4, <2>6, <2>7, <2>8
<1> QED
  BY <1>3, <1>4

LEMMA CheckoutKeeps ==
  ASSUME IInv, NEW q \in Requests, Checkout(q)
  PROVE  IInv'
<1> USE DEF IInv
<1>1. TypeOK' /\ Working(q)
  BY PrStepTypes DEF Checkout, Working, At, PrSteps
<1>2. /\ repo'.head = "run" /\ repo'.log = repo.log /\ repo'.made = repo.made
      /\ repo'.tracking = repo.tracking /\ github' = github /\ history' = history
      /\ pr'.status = "committing"
  BY DEF Checkout, Note, TypeOK, Repos, PrRows
<1>3. request'[q].pc = "resolve" /\ \A r \in Requests \ {q} : request'[r] = request[r]
  BY NextOf DEF Checkout
<1>4. Numbered' /\ Tracked'
  BY <1>2 DEF Numbered, Tracked, PushedUpTo, RunLog
<1>5. Achieved(q)' /\ PublishedAsRecorded'
  BY <1>2, <1>3 DEF Achieved, At, PublishedAsRecorded
<1> QED
  BY <1>1, <1>2, <1>3, <1>4, <1>5, WorkerKeeps

LEMMA ReuseCommitKeeps ==
  ASSUME IInv, NEW q \in Requests, ReuseCommit(q)
  PROVE  IInv'
<1> USE DEF IInv
<1> DEFINE known == Known(q)
<1>1. TypeOK' /\ Working(q)
  BY PrStepTypes DEF ReuseCommit, Working, At, PrSteps
<1>2. UNCHANGED <<repo, github, history>> /\ In(known, RunLog) /\ pr' = Recorded(known)
  BY DEF ReuseCommit
<1> HIDE DEF known
<1>3. request'[q].pc = "push" /\ \A r \in Requests \ {q} : request'[r] = request[r]
  BY NextOf DEF ReuseCommit
<1>4. Numbered' /\ Tracked'
  BY <1>2 DEF Numbered, Tracked, PushedUpTo, RunLog
<1>5. known # 0
  BY <1>2, Shapes DEF In, Numbered
<1>6. pr'.status = "pushing" /\ pr'.commit = known
  BY <1>2 DEF Recorded, TypeOK, PrRows
<1>7. Achieved(q)' /\ PublishedAsRecorded'
  BY <1>2, <1>3, <1>5, <1>6 DEF Achieved, At, PublishedAsRecorded, In, RunLog
<1> QED
  BY <1>1, <1>2, <1>3, <1>4, <1>7, WorkerKeeps

LEMMA ListChangesKeeps ==
  ASSUME IInv, NEW q \in Requests, ListChanges(q)
  PROVE  IInv'
<1> USE DEF IInv
<1>1. TypeOK' /\ Working(q) /\ At(q, "resolve")
  BY PrStepTypes DEF ListChanges, Working, At, PrSteps
<1>2. UNCHANGED <<repo, github, history, pr>>
  BY DEF ListChanges
<1>3. request'[q].pc = "commit" /\ \A r \in Requests \ {q} : request'[r] = request[r]
  BY NextOf DEF ListChanges
<1>4. Numbered' /\ Tracked'
  BY <1>2 DEF Numbered, Tracked, PushedUpTo, RunLog
<1>5. Calm => Achieved(q)'
  BY <1>1, <1>2, <1>3 DEF Achieved, At, Working
<1>6. PublishedAsRecorded'
  BY <1>2 DEF PublishedAsRecorded, In
<1> QED
  BY <1>1, <1>2, <1>3, <1>4, <1>5, <1>6, WorkerKeeps

(* A commit on the branch that is checked out. *)
LEMMA BranchGrows ==
  ASSUME TypeOK, Numbered, repo'.made = repo.made + 1,
         repo'.log = [repo.log EXCEPT ![repo.head] = Append(@, repo.made + 1)]
  PROVE  /\ Numbered'
         /\ \A i \in 1..Len(RunLog) : i \in 1..Len(RunLog') /\ RunLog'[i] = RunLog[i]
         /\ repo.head = "run" => RunLog' # <<>>
<1>1. /\ RunLog \in Seq(Commits) /\ repo.made \in Nat /\ repo.log \in [Branches -> Seq(Commits)]
      /\ repo.head \in Branches /\ "run" \in Branches /\ Len(RunLog) \in Nat
  <2>1. "run" \in Branches
    BY DEF Branches
  <2>2. /\ RunLog \in Seq(Commits) /\ repo.made \in Commits
        /\ repo.log \in [Branches -> Seq(Commits)] /\ repo.head \in Branches
    BY Shapes
  <2>3. Len(RunLog) \in Nat
    BY <2>2
  <2>4. repo.made \in Nat
    BY <2>2, Bounds
  <2> QED
    BY <2>1, <2>2, <2>3, <2>4
<1>2. CASE repo.head # "run"
  <2>1. RunLog' = RunLog
    BY <1>1, <1>2 DEF RunLog
  <2> QED
    BY <1>1, <1>2, <2>1 DEF Numbered
<1>3. CASE repo.head = "run"
  <2>1. RunLog' = Append(RunLog, repo.made + 1)
    BY <1>1, <1>3 DEF RunLog
  <2>2. /\ Len(RunLog') = Len(RunLog) + 1 /\ RunLog'[Len(RunLog) + 1] = repo.made + 1
        /\ \A i \in 1..Len(RunLog) : RunLog'[i] = RunLog[i]
    BY <1>1, <2>1
  <2>3. \A i \in 1..Len(RunLog') : i \in 1..Len(RunLog) \/ i = Len(RunLog) + 1
    BY <1>1, <2>2
  <2>4. \A i \in 1..Len(RunLog) : RunLog'[i] \in 1..repo.made /\ RunLog'[i] # repo.made + 1
    BY <1>1, <2>2 DEF Numbered
  <2>5. \A i \in 1..Len(RunLog') : RunLog'[i] \in 1..repo'.made
    BY <1>1, <2>2, <2>3, <2>4
  <2>6. \A i, j \in 1..Len(RunLog') : RunLog'[i] = RunLog'[j] => i = j
    BY <2>2, <2>3, <2>4 DEF Numbered
  <2>7. Numbered'
    BY <2>5, <2>6 DEF Numbered
  <2>8. RunLog' # <<>>
    BY <1>1, <2>2
  <2> QED
    BY <1>1, <2>2, <2>7, <2>8
<1> QED
  BY <1>2, <1>3

(* What was pushed stays pushed while both branches grow. *)
LEMMA TrackedKept ==
  ASSUME TypeOK, Tracked, repo'.tracking = repo.tracking,
         history'.uprooted = history.uprooted,
         \A i \in 1..Len(RunLog) : i \in 1..Len(RunLog') /\ RunLog'[i] = RunLog[i],
         Len(github.log) <= Len(github'.log), Len(github'.log) \in Nat,
         \A i \in 1..Len(github.log) : github'.log[i] = github.log[i]
  PROVE  Tracked'
<1> SUFFICES ASSUME repo.tracking # 0, ~history.uprooted
             PROVE  \E k \in 1..Len(RunLog') : PushedUpTo(k)'
  BY DEF Tracked
<1>1. PICK k \in 1..Len(RunLog) : PushedUpTo(k)
  BY DEF Tracked
<1>2. Len(RunLog) \in Nat /\ Len(github.log) \in Nat
  BY Shapes
<1>3. k \in 1..Len(RunLog') /\ RunLog'[k] = repo'.tracking /\ k <= Len(github'.log)
  BY <1>1, <1>2 DEF PushedUpTo
<1>4. \A i \in 1..k : i \in 1..Len(RunLog) /\ i \in 1..Len(github.log)
  BY <1>1, <1>2 DEF PushedUpTo
<1>5. \A i \in 1..k : github'.log[i] = RunLog'[i]
  BY <1>1, <1>4 DEF PushedUpTo
<1> QED
  BY <1>3, <1>5 DEF PushedUpTo

LEMMA CommitKeeps ==
  ASSUME IInv, NEW q \in Requests, Commit(q)
  PROVE  IInv'
<1> USE DEF IInv
<1>1. TypeOK' /\ Working(q) /\ At(q, "commit")
  BY PrStepTypes DEF Commit, Working, At, PrSteps
<1>2. /\ UNCHANGED <<pr, github, history>>
      /\ repo'.log = [repo.log EXCEPT ![repo.head] = Append(@, repo.made + 1)]
      /\ repo'.made = repo.made + 1 /\ repo'.head = repo.head /\ repo'.tracking = repo.tracking
  BY DEF Commit, TypeOK, Repos
<1>3. request'[q].pc = "rev_parse" /\ \A r \in Requests \ {q} : request'[r] = request[r]
  BY NextOf DEF Commit
<1>4. /\ Numbered' /\ (repo.head = "run" => RunLog' # <<>>)
      /\ \A i \in 1..Len(RunLog) : i \in 1..Len(RunLog') /\ RunLog'[i] = RunLog[i]
  BY <1>2, BranchGrows
<1>5. Tracked'
  <2>1. Len(github'.log) \in Nat /\ Len(github.log) <= Len(github'.log)
    BY <1>2, Shapes
  <2> QED
    BY <1>2, <1>4, <2>1, TrackedKept
<1>6. Calm => Achieved(q)'
  <2> SUFFICES ASSUME Calm PROVE Achieved(q)'
    OBVIOUS
  <2>1. pr.status # "pr_created" /\ repo.head = "run"
    BY <1>1 DEF Achieved, At
  <2> QED
    BY <1>2, <1>3, <1>4, <2>1 DEF Achieved, At
<1>7. PublishedAsRecorded'
  BY <1>2 DEF PublishedAsRecorded, In
<1> QED
  BY <1>1, <1>2, <1>3, <1>4, <1>5, <1>6, <1>7, WorkerKeeps

LEMMA RevParseKeeps ==
  ASSUME IInv, NEW q \in Requests, RevParse(q)
  PROVE  IInv'
<1> USE DEF IInv
<1>1. TypeOK' /\ Working(q) /\ At(q, "rev_parse")
  BY PrStepTypes DEF RevParse, Working, At, PrSteps
<1>2. /\ UNCHANGED <<repo, github, history>>
      /\ pr'.commit = Tip(repo.log[repo.head]) /\ pr'.status = "pushing"
  BY DEF RevParse, Recorded, TypeOK, PrRows
<1>3. request'[q].pc = "push" /\ \A r \in Requests \ {q} : request'[r] = request[r]
  BY NextOf DEF RevParse
<1>4. Numbered' /\ Tracked'
  BY <1>2 DEF Numbered, Tracked, PushedUpTo, RunLog
<1>5. ASSUME Calm PROVE Achieved(q)'
  <2>1. repo.head = "run" /\ RunLog # <<>>
    BY <1>1, <1>5 DEF Achieved, At
  <2>2. Len(RunLog) \in 1..Len(RunLog)
    BY <2>1, Shapes
  <2>3. pr'.commit = RunLog[Len(RunLog)]
    BY <1>2, <2>1 DEF Tip, RunLog
  <2>4. In(pr'.commit, RunLog)
    BY <2>2, <2>3 DEF In
  <2>5. RunLog[Len(RunLog)] \in 1..repo.made
    BY <2>2 DEF Numbered
  <2>6. pr'.commit # 0
    BY <2>3, <2>5, Shapes, Bounds
  <2>7. In(pr'.commit, RunLog')
    BY <1>2, <2>4 DEF RunLog
  <2> QED
    BY <1>2, <1>3, <2>6, <2>7 DEF Achieved, At, In
<1>6. PublishedAsRecorded'
  BY <1>2 DEF PublishedAsRecorded
<1> QED
  BY <1>1, <1>2, <1>3, <1>4, <1>5, <1>6, WorkerKeeps

(* What GitHub has after a push, whether git pushed or nothing was to do. *)
LEMMA PushPublishes ==
  ASSUME TypeOK, Numbered, Tracked, ~history.uprooted, NEW q \in Requests, Push(q),
         In(pr.commit, RunLog)
  PROVE  In(pr.commit, github'.log)
<1>1. PICK i \in 1..Len(RunLog) : RunLog[i] = pr.commit
  BY DEF In
<1>2. Len(RunLog) \in Nat /\ Len(github.log) \in Nat
  BY Shapes
<1>3. CASE github'.log = RunLog
  BY <1>1, <1>3 DEF In
<1>4. CASE github' = github /\ repo.tracking # 0 /\ repo.tracking = Tip(RunLog)
  <2>1. PICK k \in 1..Len(RunLog) : PushedUpTo(k)
    BY <1>4 DEF Tracked
  <2>2. Len(RunLog) \in 1..Len(RunLog) /\ Tip(RunLog) = RunLog[Len(RunLog)]
    BY <1>1, <1>2 DEF Tip
  <2>3. k = Len(RunLog)
    BY <1>4, <2>1, <2>2 DEF PushedUpTo, Numbered
  <2>4. i \in 1..k /\ i \in 1..Len(github.log) /\ github.log[i] = pr.commit
    BY <1>1, <1>2, <2>1, <2>3 DEF PushedUpTo
  <2> QED
    BY <1>4, <2>4 DEF In
<1> QED
  <2>1. github'.log = RunLog \/ (github' = github /\ repo.tracking # 0 /\ repo.tracking = Tip(RunLog))
    BY DEF Push, TypeOK, Githubs
  <2> QED
    BY <1>3, <1>4, <2>1

LEMMA PushKeeps ==
  ASSUME IInv, NEW q \in Requests, Push(q)
  PROVE  IInv'
<1> USE DEF IInv
<1>1. TypeOK' /\ Working(q) /\ At(q, "push")
  BY PrStepTypes DEF Push, Working, At, PrSteps
<1>2. /\ pr' = pr /\ repo'.log = repo.log /\ repo'.made = repo.made
      /\ github'.pr = github.pr
      /\ history'.uprooted = history.uprooted /\ history'.overlapped = history.overlapped
  BY DEF Push, TypeOK, Repos, Githubs, Moved, Histories
<1>3. request'[q].pc = "open" /\ \A r \in Requests \ {q} : request'[r] = request[r]
  BY NextOf DEF Push
<1>4. Numbered'
  BY <1>2 DEF Numbered, RunLog
<1>5. RunLog' = RunLog
  BY <1>2 DEF RunLog
<1>6. Tracked'
  <2>1. CASE github' = github /\ repo'.tracking = repo.tracking
    BY <1>2, <1>5, <2>1 DEF Tracked, PushedUpTo
  <2>2. CASE github'.log = RunLog /\ repo'.tracking = Tip(RunLog)
    <3> SUFFICES ASSUME repo'.tracking # 0
                 PROVE  \E k \in 1..Len(RunLog') : PushedUpTo(k)'
      BY DEF Tracked
    <3>1. Len(RunLog) \in 1..Len(RunLog) /\ Tip(RunLog) = RunLog[Len(RunLog)]
      BY <2>2, Shapes DEF Tip
    <3>2. RunLog'[Len(RunLog)] = repo'.tracking
      BY <1>5, <2>2, <3>1
    <3>3. Len(RunLog) <= Len(github'.log)
      BY <2>2, Shapes
    <3> QED
      BY <1>5, <2>2, <3>1, <3>2, <3>3 DEF PushedUpTo
  <2>3. \/ github' = github /\ repo'.tracking = repo.tracking
        \/ github'.log = RunLog /\ repo'.tracking = Tip(RunLog)
    BY DEF Push, TypeOK, Githubs, Repos
  <2> QED
    BY <2>1, <2>2, <2>3
<1>7. ASSUME Calm PROVE Achieved(q)' /\ PublishedAsRecorded'
  <2>1. pr.commit # 0 /\ In(pr.commit, RunLog) /\ pr.status # "pr_created"
    BY <1>1, <1>7 DEF Achieved
  <2>2. In(pr.commit, github'.log)
    BY <1>7, <2>1, PushPublishes DEF Calm
  <2> QED
    BY <1>2, <1>3, <2>1, <2>2 DEF Achieved, At, In, PublishedAsRecorded
<1> QED
  BY <1>1, <1>2, <1>3, <1>4, <1>6, <1>7, WorkerKeeps

LEMMA OpenPrKeeps ==
  ASSUME IInv, NEW q \in Requests, NEW state \in {"draft", "open"}, OpenPr(q, state)
  PROVE  IInv'
<1> USE DEF IInv
<1>1. TypeOK' /\ Working(q) /\ At(q, "open")
  BY PrStepTypes DEF OpenPr, Working, At, PrSteps
<1>2. UNCHANGED <<repo, pr, history>> /\ github'.log = github.log /\ github'.pr # "none"
  BY DEF OpenPr, TypeOK, Githubs
<1>3. request'[q].pc = "opened" /\ \A r \in Requests \ {q} : request'[r] = request[r]
  BY NextOf DEF OpenPr
<1>4. Numbered' /\ Tracked'
  BY <1>2 DEF Numbered, Tracked, PushedUpTo, RunLog
<1>5. Calm => Achieved(q)'
  BY <1>1, <1>2, <1>3 DEF Achieved, At, Working, In
<1>6. PublishedAsRecorded'
  BY <1>2 DEF PublishedAsRecorded, In
<1> QED
  BY <1>1, <1>2, <1>3, <1>4, <1>5, <1>6, WorkerKeeps

LEMMA RecordPrKeeps ==
  ASSUME IInv, NEW q \in Requests, RecordPr(q)
  PROVE  IInv'
<1> USE DEF IInv
<1>1. TypeOK' /\ Working(q) /\ At(q, "opened")
  BY PrStepTypes DEF RecordPr, Working, At, PrSteps
<1>2. UNCHANGED <<repo, github, history>> /\ pr'.commit = pr.commit
  BY DEF RecordPr, TypeOK, PrRows
<1>3. request'[q].pc = "idle" /\ \A r \in Requests \ {q} : request'[r] = request[r]
  BY NextOf DEF RecordPr
<1>4. Numbered' /\ Tracked'
  BY <1>2 DEF Numbered, Tracked, PushedUpTo, RunLog
<1>5. Achieved(q)'
  BY <1>3 DEF Achieved, At, Working, PrSteps
<1>6. Calm => PublishedAsRecorded'
  BY <1>1, <1>2 DEF Achieved, At, PublishedAsRecorded, In
<1> QED
  BY <1>1, <1>2, <1>3, <1>4, <1>5, <1>6, WorkerKeeps

LEMMA FailPrKeeps ==
  ASSUME IInv, NEW q \in Requests, FailPr(q)
  PROVE  IInv'
<1> USE DEF IInv
<1>1. TypeOK' /\ Working(q)
  BY PrStepTypes DEF FailPr, Working
<1>2. UNCHANGED <<repo, github, history>> /\ pr'.status = "failed"
  BY DEF FailPr, Note, TypeOK, PrRows
<1>3. request'[q].pc = "idle" /\ \A r \in Requests \ {q} : request'[r] = request[r]
  BY NextOf DEF FailPr
<1>4. Numbered' /\ Tracked'
  BY <1>2 DEF Numbered, Tracked, PushedUpTo, RunLog
<1>5. Achieved(q)' /\ PublishedAsRecorded'
  BY <1>2, <1>3 DEF Achieved, At, Working, PrSteps, PublishedAsRecorded
<1> QED
  BY <1>1, <1>2, <1>3, <1>4, <1>5, WorkerKeeps

(* Somebody else moves the branches: what is on record stays published.    *)
LEMMA DeedOnBranchesKeeps ==
  ASSUME IInv, TypeOK', pr' = pr, request' = request, Numbered', Tracked',
         history'.overlapped = history.overlapped,
         history.uprooted => history'.uprooted,
         ~history'.uprooted =>
           /\ \A i \in 1..Len(RunLog) : i \in 1..Len(RunLog') /\ RunLog'[i] = RunLog[i]
           /\ repo'.head = repo.head \/ ~InFlight(PrSteps),
         github'.pr = github.pr,
         \A i \in 1..Len(github.log) : i \in 1..Len(github'.log) /\ github'.log[i] = github.log[i]
  PROVE  IInv'
<1> USE DEF IInv
<1>1. Alone'
  BY DEF Alone, Working
<1>2. \A c : In(c, github.log) => In(c, github'.log)
  BY DEF In
<1>3. PublishedAsRecorded'
  BY <1>2 DEF PublishedAsRecorded
<1>4. ASSUME Calm', NEW q \in Requests PROVE Achieved(q)'
  <2>1. Achieved(q)
    BY <1>4 DEF Calm
  <2>2. \A c : In(c, RunLog) => In(c, RunLog')
    BY <1>4 DEF In, Calm
  <2>3. RunLog # <<>> => RunLog' # <<>>
    <3>1. SUFFICES ASSUME RunLog # <<>> PROVE RunLog' # <<>>
      OBVIOUS
    <3>2. Len(RunLog) \in 1..Len(RunLog)
      BY <3>1, Shapes
    <3>3. Len(RunLog) \in 1..Len(RunLog')
      BY <1>4, <3>2 DEF Calm
    <3> QED
      BY <3>3
  <2>4. Working(q) => repo'.head = repo.head
    BY <1>4 DEF Calm, Working, InFlight
  <2>5. request'[q].pc = request[q].pc
    OBVIOUS
  <2> QED
    BY <1>2, <2>1, <2>2, <2>3, <2>4, <2>5 DEF Achieved, At, Working, PrSteps
<1> QED
  BY <1>1, <1>3, <1>4

LEMMA DeedKeeps ==
  ASSUME IInv, NEW kind \in Deeds, Deed(kind)
  PROVE  IInv'
<1> USE DEF IInv
<1>1. TypeOK' /\ pr' = pr /\ request' = request
  BY DeedTypes DEF Deed
<1>2. /\ repo \in Repos /\ github \in Githubs /\ history \in Histories
      /\ Len(github.log) \in Nat /\ Len(RunLog) \in Nat /\ repo.made \in Nat
  <2>1. repo.made \in Nat
    BY Shapes, Bounds
  <2>2. Len(github.log) \in Nat /\ Len(RunLog) \in Nat
    BY Shapes
  <2> QED
    BY <2>1, <2>2 DEF TypeOK
<1>3. kind \in {"work", "commit", "push", "switch", "reset", "ready", "close"}
  BY DEF Deeds
<1>4. CASE kind = "work"
  <2>1. /\ repo'.log = repo.log /\ repo'.made = repo.made /\ repo'.tracking = repo.tracking
        /\ repo'.head = repo.head /\ github' = github /\ history' = history
    BY <1>2, <1>4 DEF Deed, Repos
  <2>2. Numbered' /\ Tracked'
    BY <2>1 DEF Numbered, Tracked, PushedUpTo, RunLog
  <2> QED
    BY <1>1, <2>1, <2>2, DeedOnBranchesKeeps DEF RunLog
<1>5. CASE kind = "commit"
  <2>1. /\ repo'.log = [repo.log EXCEPT ![repo.head] = Append(@, repo.made + 1)]
        /\ repo'.made = repo.made + 1 /\ repo'.tracking = repo.tracking
        /\ repo'.head = repo.head /\ github' = github /\ history' = history
    BY <1>2, <1>5 DEF Deed, Repos
  <2>2. Numbered' /\ \A i \in 1..Len(RunLog) : i \in 1..Len(RunLog') /\ RunLog'[i] = RunLog[i]
    BY <2>1, BranchGrows
  <2>3. Len(github.log) <= Len(github'.log) /\ Len(github'.log) \in Nat
    BY <1>2, <2>1
  <2>4. Tracked'
    BY <2>1, <2>2, <2>3, TrackedKept
  <2> QED
    BY <1>1, <2>1, <2>2, <2>4, DeedOnBranchesKeeps
<1>6. CASE kind = "push"
  <2>1. /\ repo'.log = repo.log /\ repo'.made = repo.made + 1 /\ repo'.tracking = repo.tracking
        /\ repo'.head = repo.head /\ github'.pr = github.pr
        /\ github'.log = Append(github.log, repo.made + 1)
        /\ history'.uprooted = history.uprooted /\ history'.overlapped = history.overlapped
    BY <1>2, <1>6 DEF Deed, Repos, Githubs, Moved, Histories
  <2>2. RunLog' = RunLog
    BY <2>1 DEF RunLog
  <2>3. /\ Len(github'.log) = Len(github.log) + 1
        /\ \A i \in 1..Len(github.log) : github'.log[i] = github.log[i]
    BY <1>2, <2>1, Shapes
  <2>4. /\ Len(github.log) <= Len(github'.log) /\ Len(github'.log) \in Nat
        /\ \A i \in 1..Len(github.log) : i \in 1..Len(github'.log)
    BY <1>2, <2>3
  <2>5. Numbered'
    <3>1. \A i \in 1..Len(RunLog) : RunLog[i] \in 1..(repo.made + 1)
      BY <1>2 DEF Numbered
    <3> QED
      BY <2>1, <2>2, <3>1 DEF Numbered
  <2>6. Tracked'
    BY <2>1, <2>2, <2>3, <2>4, TrackedKept
  <2> QED
    BY <1>1, <2>1, <2>2, <2>3, <2>4, <2>5, <2>6, DeedOnBranchesKeeps
<1>7. CASE kind = "switch"
  <2>1. /\ repo'.log = repo.log /\ repo'.made = repo.made /\ repo'.tracking = repo.tracking
        /\ github' = github
        /\ history' = IF InFlight(PrSteps) THEN Uproot ELSE history
    BY <1>2, <1>7 DEF Deed, Repos
  <2>2. history'.overlapped = history.overlapped
        /\ (history.uprooted => history'.uprooted) /\ (InFlight(PrSteps) => history'.uprooted)
    BY <1>2, <2>1 DEF Uproot, Histories
  <2>3. Numbered' /\ Tracked'
    BY <2>1, <2>2 DEF Numbered, Tracked, PushedUpTo, RunLog
  <2> QED
    BY <1>1, <2>1, <2>2, <2>3, DeedOnBranchesKeeps DEF RunLog
<1>8. CASE kind = "reset"
  <2>1. /\ RunLog # <<>> /\ github' = github /\ history'.uprooted
        /\ history'.overlapped = history.overlapped /\ repo'.made = repo.made
        /\ RunLog' = SubSeq(RunLog, 1, Len(RunLog) - 1)
    BY <1>2, <1>8 DEF Deed, RunLog, Uproot, Histories, Repos, Branches
  <2>2. /\ Len(RunLog') = Len(RunLog) - 1
        /\ \A i \in 1..(Len(RunLog) - 1) : RunLog'[i] = RunLog[i]
    BY <2>1, Shapes, Shortened
  <2>3. \A i \in 1..(Len(RunLog) - 1) : i \in 1..Len(RunLog)
    BY <1>2
  <2>4. Numbered'
    BY <2>1, <2>2, <2>3 DEF Numbered
  <2>5. Tracked'
    BY <2>1 DEF Tracked
  <2> QED
    BY <1>1, <2>1, <2>4, <2>5, DeedOnBranchesKeeps
<1>9. CASE kind \in {"ready", "close"}
  <2>1. /\ UNCHANGED <<repo, history>> /\ github'.log = github.log
        /\ github.pr # "none" => github'.pr # "none"
    BY <1>2, <1>9 DEF Deed, Githubs
  <2>2. \A q \in Requests : Working(q)' => request'[q].pc = request[q].pc
    BY <1>1
  <2> QED
    BY <1>1, <2>1, <2>2, QuietKeeps
<1> QED
  BY <1>3, <1>4, <1>5, <1>6, <1>7, <1>8, <1>9

LEMMA StepKeeps ==
  ASSUME IInv, [Next]_vars
  PROVE  IInv'
<1>1. ASSUME NEW q \in Requests, Continue(q) PROVE IInv'
  BY <1>1, InspectKeeps, CheckoutKeeps, ReuseCommitKeeps, ListChangesKeeps, CommitKeeps,
     RevParseKeeps, PushKeeps, OpenPrKeeps, RecordPrKeeps, FailPrKeeps, MergeStepKeeps DEF Continue
<1>2. ASSUME NEW s \in Reports, Reassess(s) PROVE IInv'
  <2>1. TypeOK' /\ UNCHANGED <<repo, pr, history, github, request>>
    BY <1>2 DEF Reassess, IInv, TypeOK
  <2> QED
    BY <2>1, QuietKeeps
<1>3. CASE Crash
  <2>1. TypeOK'
    BY <1>3, StepTypes DEF IInv, Next
  <2>2. UNCHANGED <<repo, pr, history, github>> /\ \A q \in Requests : ~Working(q)'
    BY <1>3 DEF Crash, Working, PrSteps, Idle
  <2> QED
    BY <2>1, <2>2, QuietKeeps
<1>4. CASE UNCHANGED vars
  <2>1. TypeOK' /\ UNCHANGED <<repo, pr, history, github, request>>
    BY <1>4 DEF vars, IInv, TypeOK
  <2> QED
    BY <2>1, QuietKeeps
<1> QED
  BY <1>1, <1>2, <1>3, <1>4, AskKeeps, DeedKeeps DEF Next

-----------------------------------------------------------------------------
(* Theorems *)

(* Every variable keeps its shape, whatever overlaps, fails or dies        *)
(* (createPrRequest, createMergeRequest and their rows).                   *)
THEOREM PullRequestTypes == Spec => []TypeOK
  BY InitTypes, StepTypes, PTL DEF Spec

(* A pull request on record exists, and GitHub has the commit on record    *)
(* with it (createPrRequest, createControlledGithubPr).                    *)
THEOREM Published == Spec => []PublishedAsRecorded
<1>1. Spec => []IInv
  BY InitHolds, StepKeeps, PTL DEF Spec
<1>2. IInv => PublishedAsRecorded
  BY DEF IInv
<1> QED
  BY <1>1, <1>2, PTL

-----------------------------------------------------------------------------
(* What a merge goes by *)

(* Until a merge is asked of GitHub, the remote branch is as it was judged.*)
HeadSeen(q) ==
  request[q].pc \in {"preview", "merge"} /\ ~request[q].rationale /\ ~history.moved
    => Tip(github.log) = request[q].commit

HeadsSeen == \A q \in Requests : HeadSeen(q)

(* A merge request that is told as merged, or about to be, has merged. *)
Told ==
  /\ \A q \in Requests : request[q].pc \in {"postview", "refresh"} => github.pr = "merged"
  /\ In("merged", merges) => github.pr = "merged"

LEMMA Going ==
  ASSUME TypeOK, NEW q \in Requests, NEW pc, Goes(q, pc)
  PROVE  /\ request'[q].pc = pc
         /\ request'[q].rationale = request[q].rationale
         /\ request'[q].commit = request[q].commit
         /\ request'[q].reusable = request[q].reusable
         /\ \A r \in Requests \ {q} : request'[r] = request[r]
<1>1. request \in [Requests -> RequestStates] /\ request[q] \in RequestStates
  BY DEF TypeOK
<1> QED
  BY <1>1 DEF Goes, RequestStates

LEMMA Ending ==
  ASSUME TypeOK, NEW q \in Requests, Ends(q)
  PROVE  /\ request'[q].pc = "idle" /\ request'[q].commit = 0 /\ request'[q].reusable = 0
         /\ \A r \in Requests \ {q} : request'[r] = request[r]
<1>1. request \in [Requests -> RequestStates]
  BY DEF TypeOK
<1> QED
  BY <1>1 DEF Ends, Idle

(* Which steps move the remote branch, and that a merge under way is noted.*)
Remote ==
  /\ history.moved => history'.moved
  /\ github'.log = github.log \/ (InFlight(MergeSteps) => history'.moved)

LEMMA SeenKept ==
  ASSUME HeadsSeen, Remote,
         \A q \in Requests :
           request'[q].pc \in {"preview", "merge"} =>
             /\ request[q].pc \in {"preview", "merge"}
             /\ request'[q].rationale = request[q].rationale
             /\ request'[q].commit = request[q].commit
  PROVE  HeadsSeen'
<1> SUFFICES ASSUME NEW q \in Requests, request'[q].pc \in {"preview", "merge"},
                    ~request'[q].rationale, ~history'.moved
             PROVE  Tip(github'.log) = request'[q].commit
  BY DEF HeadsSeen, HeadSeen
<1>1. InFlight(MergeSteps)
  BY DEF InFlight, MergeSteps
<1>2. github'.log = github.log /\ ~history.moved
  BY <1>1 DEF Remote
<1> QED
  BY <1>2 DEF HeadsSeen, HeadSeen

LEMMA RemoteOfSteps ==
  ASSUME TypeOK, [Next]_vars
  PROVE  Remote
<1>1. github \in Githubs /\ history \in Histories
  BY DEF TypeOK
<1>2. CASE UNCHANGED <<github, history>>
  BY <1>2 DEF Remote
<1>3. ASSUME NEW q \in Requests, Continue(q) PROVE Remote
  <2>1. CASE Inspect(q)
    BY <1>1, <2>1 DEF Inspect, Remote, Histories
  <2>2. CASE Push(q)
    BY <1>1, <2>2 DEF Push, Remote, Histories, Githubs, Moved
  <2>3. CASE \E state \in {"draft", "open"} : OpenPr(q, state)
    BY <1>1, <2>3 DEF OpenPr, Remote, Githubs
  <2>4. CASE \E answer \in {"answered", "lost"} : Merge(q, answer)
    BY <1>1, <2>4 DEF Merge, Remote, Githubs
  <2>5. CASE \/ Checkout(q) \/ ReuseCommit(q) \/ ListChanges(q) \/ Commit(q) \/ RevParse(q)
             \/ RecordPr(q) \/ FailPr(q) \/ ViewPr(q) \/ Preview(q) \/ ViewMerged(q)
             \/ Refresh(q) \/ FailMerge(q) \/ Refuse(q)
    BY <1>2, <2>5 DEF Checkout, ReuseCommit, ListChanges, Commit, RevParse, RecordPr, FailPr,
                      ViewPr, Preview, ViewMerged, Refresh, FailMerge, Refuse
  <2> QED
    BY <1>3, <2>1, <2>2, <2>3, <2>4, <2>5 DEF Continue
<1>4. ASSUME NEW kind \in Deeds, Deed(kind) PROVE Remote
  <2>1. \/ UNCHANGED github /\ history' \in {history, Uproot}
        \/ history' = Moved
        \/ UNCHANGED history /\ github'.log = github.log
    BY <1>1, <1>4 DEF Deed, Deeds, Githubs
  <2> QED
    BY <1>1, <2>1 DEF Remote, Uproot, Moved, Histories
<1> QED
  BY <1>2, <1>3, <1>4 DEF Next, Ask, AskPr, AskMerge, Reassess, Crash, vars

(* The evaluation that lets a merge go on without a rationale. *)
LEMMA ViewSees ==
  ASSUME TypeOK, NEW q \in Requests, ViewPr(q), HeadsSeen, Remote
  PROVE  HeadsSeen'
<1>1. /\ request' = [request EXCEPT ![q].pc = "preview", ![q].attempt = Len(merges) + 1]
      /\ github' = github
  BY DEF ViewPr
<1>2. request[q] \in RequestStates /\ request \in [Requests -> RequestStates]
  BY DEF TypeOK
<1>3. /\ request'[q].rationale = request[q].rationale
      /\ request'[q].commit = request[q].commit
      /\ \A r \in Requests \ {q} : request'[r] = request[r]
  BY <1>1, <1>2 DEF RequestStates
<1>4. ~request[q].rationale => Tip(github.log) = request[q].commit
  BY DEF ViewPr, SeesFit, MergeJudged
<1>5. HeadSeen(q)'
  BY <1>1, <1>3, <1>4 DEF HeadSeen
<1>6. ASSUME NEW r \in Requests \ {q} PROVE HeadSeen(r)'
  <2>1. HeadSeen(r) /\ request'[r] = request[r]
    BY <1>3 DEF HeadsSeen
  <2> QED
    BY <1>1, <2>1 DEF HeadSeen, Remote
<1> QED
  BY <1>5, <1>6 DEF HeadsSeen

LEMMA SeenStays ==
  ASSUME TypeOK, HeadsSeen, [Next]_vars
  PROVE  HeadsSeen'
<1>1. Remote
  BY RemoteOfSteps
<1> DEFINE Same(q) == /\ request[q].pc \in {"preview", "merge"}
                      /\ request'[q].rationale = request[q].rationale
                      /\ request'[q].commit = request[q].commit
           Rest(q) == \A r \in Requests \ {q} : request'[r] = request[r]
<1>2. request \in [Requests -> RequestStates] /\ \A q \in Requests : request[q] \in RequestStates
  BY DEF TypeOK
<1>3. CASE UNCHANGED request
  BY <1>1, <1>3, SeenKept
<1>4. ASSUME NEW q \in Requests, Rest(q),
             request'[q].pc \notin {"preview", "merge"} \/ Same(q)
      PROVE  HeadsSeen'
  <2>1. \A r \in Requests : request'[r].pc \in {"preview", "merge"} => Same(r)
    BY <1>4
  <2> QED
    BY <1>1, <2>1, SeenKept
<1>5. ASSUME NEW q \in Requests, Ask(q) PROVE HeadsSeen'
  <2>1. request'[q].pc \notin {"preview", "merge"} /\ Rest(q)
    <3>1. PICK rationale \in BOOLEAN : AskPr(q, rationale) \/ AskMerge(q, rationale)
      BY <1>5 DEF Ask
    <3>2. CASE AskPr(q, rationale)
      BY <1>2, <3>2 DEF AskPr, Idle
    <3>3. CASE AskMerge(q, rationale)
      BY <1>2, <3>3 DEF AskMerge, Idle
    <3> QED
      BY <3>1, <3>2, <3>3
  <2> QED
    BY <1>4, <2>1
<1>6. ASSUME NEW q \in Requests, Continue(q) PROVE HeadsSeen'
  <2>1. CASE Inspect(q)
    <3>1. request'[q].pc \notin {"preview", "merge"} /\ Rest(q)
      BY <1>2, <2>1, Ending DEF Inspect, RequestStates
    <3> QED
      BY <1>4, <3>1
  <2>2. CASE \E pc \in PrSteps \cup {"postview", "refresh"} : Goes(q, pc)
    <3>1. request'[q].pc \notin {"preview", "merge"} /\ Rest(q)
      BY <2>2, Going DEF PrSteps
    <3> QED
      BY <1>4, <3>1
  <2>3. CASE Ends(q)
    <3>1. request'[q].pc \notin {"preview", "merge"} /\ Rest(q)
      BY <2>3, Ending
    <3> QED
      BY <1>4, <3>1
  <2>4. CASE ViewPr(q)
    BY <1>1, <2>4, ViewSees
  <2>5. CASE Preview(q)
    <3>1. Same(q) /\ Rest(q)
      BY <2>5, Going DEF Preview, At
    <3> QED
      BY <1>4, <3>1
  <2>6. \/ Inspect(q) \/ ViewPr(q) \/ Preview(q) \/ Ends(q)
        \/ \E pc \in PrSteps \cup {"postview", "refresh"} : Goes(q, pc)
    BY <1>6 DEF Continue, Checkout, ReuseCommit, ListChanges, Commit, RevParse, Push, RecordPr,
                FailPr, OpenPr, ViewMerged, Refresh, FailMerge, Merge, Refuse, PrSteps
  <2> QED
    BY <2>1, <2>2, <2>3, <2>4, <2>5, <2>6
<1>7. CASE Crash
  <2>1. \A q \in Requests : request'[q].pc \notin {"preview", "merge"}
    BY <1>7 DEF Crash, Idle
  <2> QED
    BY <1>1, <2>1, SeenKept
<1> QED
  BY <1>3, <1>5, <1>6, <1>7 DEF Next, Reassess, Deed, vars

(* Without a rationale the head that is merged is the commit on record, if *)
(* the remote branch stood still meanwhile (createMergeRequest).           *)
THEOREM MergesTheRecorded == Spec => MergesWhatWasRecorded
<1>1. Spec => []TypeOK
  BY PullRequestTypes
<1>2. Init => HeadsSeen
  BY DEF Init, HeadsSeen, HeadSeen, Idle
<1>3. TypeOK /\ HeadsSeen /\ [Next]_vars => HeadsSeen'
  BY SeenStays
<1>4. HeadsSeen =>
        [\A q \in Requests :
           /\ At(q, "merge") /\ github.pr # "merged" /\ github'.pr = "merged"
           /\ ~request[q].rationale /\ ~history.moved
           => Tip(github.log) = request[q].commit]_vars
  BY DEF HeadsSeen, HeadSeen, At
<1> QED
  BY <1>1, <1>2, <1>3, <1>4, PTL DEF Spec, MergesWhatWasRecorded

-----------------------------------------------------------------------------
(* The approved changes are in the working tree or in a commit *)

OnBranch ==
  \A q \in Requests : request[q].pc \in {"resolve", "commit", "rev_parse"} => repo.head = "run"

(* A commit of the run's own is on its branch. *)
Kept == \E i \in 1..Len(RunLog) : RunLog[i] \in repo.own

Saved == ~history.uprooted => OnBranch /\ (repo.dirty \/ Kept)

(* The branch only grows, and nothing is taken from the run's commits. *)
Grows ==
  /\ \A i \in 1..Len(RunLog) : i \in 1..Len(RunLog') /\ RunLog'[i] = RunLog[i]
  /\ repo.own \subseteq repo'.own

LEMMA KeptStays ==
  ASSUME Grows, Kept
  PROVE  Kept'
<1>1. PICK i \in 1..Len(RunLog) : RunLog[i] \in repo.own
  BY DEF Kept
<1>2. i \in 1..Len(RunLog') /\ RunLog'[i] \in repo'.own
  BY <1>1 DEF Grows
<1> QED
  BY <1>2 DEF Kept

(* What the steps do to the workspace. *)
LEMMA WorkspaceOfSteps ==
  ASSUME IInv, [Next]_vars
  PROVE  /\ history.uprooted => history'.uprooted
         /\ ~history'.uprooted =>
              /\ Grows
              /\ repo'.head = repo.head \/ repo'.head = "run" \/ ~InFlight(PrSteps)
              /\ repo.dirty /\ ~repo'.dirty => \E q \in Requests : Commit(q)
<1>0. /\ repo \in Repos /\ github \in Githubs /\ history \in Histories
      /\ RunLog \in Seq(Commits) /\ Len(RunLog) \in Nat
  BY Shapes DEF IInv, TypeOK
<1>1. CASE UNCHANGED <<repo, history>>
  BY <1>1 DEF Grows, RunLog
<1>2. ASSUME NEW q \in Requests, Commit(q)
      PROVE  Grows /\ repo'.head = repo.head /\ history' = history
  <2>1. /\ repo'.log = [repo.log EXCEPT ![repo.head] = Append(@, repo.made + 1)]
        /\ repo'.made = repo.made + 1 /\ repo'.head = repo.head /\ history' = history
        /\ repo.own \subseteq repo'.own /\ repo.made < MaxCommits
    BY <1>0, <1>2 DEF Commit, Repos
  <2>3. \A i \in 1..Len(RunLog) : i \in 1..Len(RunLog') /\ RunLog'[i] = RunLog[i]
    BY <2>1, BranchGrows DEF IInv
  <2> QED
    BY <2>1, <2>3 DEF Grows
<1>3. ASSUME NEW q \in Requests, Checkout(q) \/ Push(q)
      PROVE  /\ repo'.log = repo.log /\ repo'.own = repo.own /\ repo'.dirty = repo.dirty
             /\ repo'.head = "run" /\ history'.uprooted = history.uprooted
  BY <1>0, <1>3 DEF Checkout, Push, Repos, Histories, Moved
<1>4. ASSUME NEW q \in Requests, Inspect(q)
      PROVE  repo' = repo /\ history'.uprooted = history.uprooted
  BY <1>0, <1>4 DEF Inspect, Histories
<1>5. ASSUME NEW kind \in Deeds, Deed(kind)
      PROVE  /\ history.uprooted => history'.uprooted
             /\ repo.dirty => repo'.dirty
             /\ ~history'.uprooted => Grows /\ (repo'.head = repo.head \/ ~InFlight(PrSteps))
  <2>1. kind \in {"work", "commit", "push", "switch", "reset", "ready", "close"}
    BY DEF Deeds
  <2>2. CASE kind \in {"work", "push", "ready", "close"}
    <3>1. /\ repo'.log = repo.log /\ repo'.own = repo.own /\ repo'.head = repo.head
          /\ (repo.dirty => repo'.dirty) /\ history'.uprooted = history.uprooted
      BY <1>0, <1>5, <2>2 DEF Deed, Repos, Moved, Histories
    <3> QED
      BY <3>1 DEF Grows, RunLog
  <2>3. CASE kind = "commit"
    <3>1. /\ repo'.log = [repo.log EXCEPT ![repo.head] = Append(@, repo.made + 1)]
          /\ repo'.made = repo.made + 1 /\ repo'.head = repo.head /\ history' = history
          /\ repo'.own = repo.own /\ repo'.dirty = repo.dirty
      BY <1>0, <1>5, <2>3 DEF Deed, Repos
    <3>2. \A i \in 1..Len(RunLog) : i \in 1..Len(RunLog') /\ RunLog'[i] = RunLog[i]
      BY <3>1, BranchGrows DEF IInv
    <3> QED
      BY <3>1, <3>2 DEF Grows
  <2>4. CASE kind = "switch"
    <3>1. /\ repo'.log = repo.log /\ repo'.own = repo.own /\ repo'.dirty = repo.dirty
          /\ history' = IF InFlight(PrSteps) THEN Uproot ELSE history
      BY <1>0, <1>5, <2>4 DEF Deed, Repos
    <3>2. (history.uprooted => history'.uprooted) /\ (InFlight(PrSteps) => history'.uprooted)
      BY <1>0, <3>1 DEF Uproot, Histories
    <3> QED
      BY <3>1, <3>2 DEF Grows, RunLog
  <2>5. CASE kind = "reset"
    BY <1>0, <1>5, <2>5 DEF Deed, Uproot, Histories, Repos
  <2> QED
    BY <2>1, <2>2, <2>3, <2>4, <2>5
<1>6. ASSUME NEW q \in Requests, Ask(q) \/ Continue(q), ~Commit(q), ~Checkout(q), ~Push(q),
             ~Inspect(q)
      PROVE  UNCHANGED <<repo, history>>
  BY <1>6 DEF Ask, AskPr, AskMerge, Continue, ReuseCommit, ListChanges, RevParse, RecordPr,
              FailPr, OpenPr, ViewPr, Preview, ViewMerged, Refresh, FailMerge, Merge, Refuse
<1>7. ASSUME NEW s \in Reports, Reassess(s) PROVE UNCHANGED <<repo, history>>
  BY <1>7 DEF Reassess
<1>8. Crash \/ UNCHANGED vars => UNCHANGED <<repo, history>>
  BY DEF Crash, vars
<1>9. ASSUME NEW q \in Requests, Checkout(q) \/ Push(q) PROVE Grows
  BY <1>3, <1>9 DEF Grows, RunLog
<1>10. ASSUME NEW q \in Requests, Inspect(q) PROVE Grows
  BY <1>4, <1>10 DEF Grows, RunLog
<1>11. CASE \E q \in Requests : Ask(q) \/ Continue(q)
  <2>1. PICK q \in Requests : Ask(q) \/ Continue(q)
    BY <1>11
  <2>2. CASE Commit(q)
    BY <1>2, <2>2
  <2>3. CASE Checkout(q) \/ Push(q)
    BY <1>3, <1>9, <2>3
  <2>4. CASE Inspect(q)
    BY <1>4, <1>10, <2>4
  <2> QED
    BY <1>1, <1>6, <2>1, <2>2, <2>3, <2>4
<1>12. CASE \E kind \in Deeds : Deed(kind)
  BY <1>5, <1>12
<1>13. CASE (\E s \in Reports : Reassess(s)) \/ Crash \/ UNCHANGED vars
  BY <1>1, <1>7, <1>8, <1>13
<1> QED
  BY <1>11, <1>12, <1>13 DEF Next

(* Where a step leaves a request on the run's branch. *)
LEMMA OnBranchOfSteps ==
  ASSUME IInv, [Next]_vars, NEW q \in Requests,
         request'[q].pc \in {"resolve", "commit", "rev_parse"}
  PROVE  \/ request[q].pc \in {"resolve", "commit", "rev_parse"}
         \/ Checkout(q)
<1>1. request \in [Requests -> RequestStates] /\ TypeOK
  BY DEF IInv, TypeOK
<1>2. CASE request'[q] = request[q]
  BY <1>2
<1>3. ASSUME Ask(q) PROVE FALSE
  <2>1. PICK rationale \in BOOLEAN : AskPr(q, rationale) \/ AskMerge(q, rationale)
    BY <1>3 DEF Ask
  <2>2. CASE AskPr(q, rationale)
    BY <1>1, <2>2 DEF AskPr, Idle
  <2>3. CASE AskMerge(q, rationale)
    BY <1>1, <2>3 DEF AskMerge, Idle
  <2> QED
    BY <2>1, <2>2, <2>3
<1>4. ASSUME Continue(q)
      PROVE  \/ request[q].pc \in {"resolve", "commit", "rev_parse"}
             \/ Checkout(q)
  <2>1. CASE Inspect(q)
    BY <1>1, <2>1, Ending DEF Inspect, RequestStates
  <2>2. CASE ViewPr(q)
    BY <1>1, <2>2 DEF ViewPr, RequestStates
  <2>3. CASE Ends(q)
    BY <1>1, <2>3, Ending
  <2>4. CASE \E pc \in {"push", "open", "opened", "merge", "postview", "refresh"} : Goes(q, pc)
    BY <1>1, <2>4, Going
  <2>5. CASE Checkout(q) \/ ListChanges(q) \/ Commit(q)
    BY <2>5 DEF ListChanges, Commit, At
  <2> QED
    BY <1>4, <2>1, <2>2, <2>3, <2>4, <2>5
      DEF Continue, ReuseCommit, RevParse, Push, RecordPr,
          FailPr, OpenPr, Preview, ViewMerged, Refresh, FailMerge, Merge, Refuse
<1>5. ASSUME NEW r \in Requests, r # q, Ask(r) \/ Continue(r) PROVE request'[q] = request[q]
  <2>0. \A x : request' = [request EXCEPT ![r] = x] => request'[q] = request[q]
    BY <1>1, <1>5
  <2>1. CASE Ask(r)
    <3>1. PICK rationale \in BOOLEAN : AskPr(r, rationale) \/ AskMerge(r, rationale)
      BY <2>1 DEF Ask
    <3>2. \E x : request' = [request EXCEPT ![r] = x]
      BY <3>1, Zenon DEF AskPr, AskMerge
    <3> QED
      BY <2>0, <3>2
  <2>2. CASE Inspect(r)
    BY <1>1, <1>5, <2>2, Ending DEF Inspect
  <2>3. CASE ViewPr(r)
    BY <1>1, <1>5, <2>3 DEF ViewPr, RequestStates
  <2>4. CASE Ends(r) \/ \E pc \in PrSteps \cup MergeSteps : Goes(r, pc)
    BY <1>1, <1>5, <2>4, Ending, Going
  <2> QED
    BY <1>5, <2>1, <2>2, <2>3, <2>4
      DEF Continue, Checkout, ReuseCommit, ListChanges, Commit, RevParse, Push, RecordPr,
          FailPr, OpenPr, Preview, ViewMerged, Refresh, FailMerge, Merge, Refuse,
          PrSteps, MergeSteps
<1>6. CASE Crash
  BY <1>6 DEF Crash, Idle
<1>7. ASSUME UNCHANGED request PROVE request'[q] = request[q]
  BY <1>7
<1> QED
  BY <1>2, <1>3, <1>4, <1>5, <1>6, <1>7 DEF Next, Reassess, Deed, vars

(* The commit that takes the changes from the working tree. *)
LEMMA CommitIsKept ==
  ASSUME IInv, NEW q \in Requests, Commit(q), repo.head = "run"
  PROVE  Kept'
<1> DEFINE n == Len(RunLog) + 1
<1>0. repo \in Repos /\ RunLog \in Seq(Commits)
  BY Shapes DEF IInv, TypeOK
<1>1. /\ RunLog' = Append(RunLog, repo.made + 1) /\ repo.made + 1 \in repo'.own
  BY <1>0 DEF Commit, Repos, RunLog, Branches
<1>2. n \in 1..Len(RunLog') /\ RunLog'[n] = repo.made + 1
  BY <1>0, <1>1
<1> QED
  BY <1>1, <1>2 DEF Kept

LEMMA SavedStays ==
  ASSUME IInv, Saved, [Next]_vars
  PROVE  Saved'
<1> SUFFICES ASSUME ~history'.uprooted PROVE OnBranch' /\ (repo'.dirty \/ Kept')
  BY DEF Saved
<1>1. /\ ~history.uprooted /\ Grows
      /\ repo'.head = repo.head \/ repo'.head = "run" \/ ~InFlight(PrSteps)
      /\ repo.dirty /\ ~repo'.dirty => \E q \in Requests : Commit(q)
  BY WorkspaceOfSteps
<1>2. OnBranch /\ (repo.dirty \/ Kept)
  BY <1>1 DEF Saved
<1>3. OnBranch'
  <2> SUFFICES ASSUME NEW q \in Requests,
                      request'[q].pc \in {"resolve", "commit", "rev_parse"}
               PROVE  repo'.head = "run"
    BY DEF OnBranch
  <2>1. CASE Checkout(q)
    BY <2>1 DEF Checkout, IInv, TypeOK, Repos
  <2>2. CASE request[q].pc \in {"resolve", "commit", "rev_parse"}
    <3>1. InFlight(PrSteps)
      BY <2>2 DEF InFlight, PrSteps
    <3> QED
      BY <1>1, <1>2, <2>2, <3>1 DEF OnBranch
  <2> QED
    BY <2>1, <2>2, OnBranchOfSteps
<1>4. CASE Kept
  BY <1>1, <1>3, <1>4, KeptStays
<1>5. CASE repo.dirty /\ ~repo'.dirty
  <2>1. PICK q \in Requests : Commit(q)
    BY <1>1, <1>5
  <2>2. repo.head = "run"
    BY <1>2, <2>1 DEF OnBranch, Commit, At
  <2> QED
    BY <1>3, <2>1, <2>2, CommitIsKept
<1> QED
  BY <1>2, <1>3, <1>4, <1>5

(* The newest of the run's own commits is found when there is one. *)
LEMMA NewestOwnIs ==
  ASSUME TypeOK, Numbered
  PROVE  /\ Kept => NewestOwn(RunLog) \in repo.own /\ NewestOwn(RunLog) # 0
         /\ ~Kept => NewestOwn(RunLog) = 0
<1> DEFINE places == {i \in 1..Len(RunLog) : RunLog[i] \in repo.own}
<1>1. RunLog \in Seq(Commits) /\ Len(RunLog) \in Nat
  BY Shapes
<1>2. CASE Kept
  <2>1. places # {} /\ places \in SUBSET (1..Len(RunLog))
    BY <1>2 DEF Kept
  <2>2. PICK last \in places : \A j \in places : j <= last
    BY <1>1, <2>1, Greatest
  <2> DEFINE k == CHOOSE i \in places : \A j \in places : j <= i
  <2>3. k \in places
    BY <2>2
  <2>4. NewestOwn(RunLog) = RunLog[k]
    BY <2>1 DEF NewestOwn
  <2>5. RunLog[k] \in repo.own /\ RunLog[k] # 0
    BY <1>1, <2>3 DEF Numbered
  <2> QED
    BY <1>2, <2>4, <2>5
<1>3. CASE ~Kept
  BY <1>3 DEF Kept, NewestOwn
<1> QED
  BY <1>2, <1>3

LEMMA ReusableIs ==
  ASSUME TypeOK, Numbered, NEW c
  PROVE  /\ Kept => Reusable(c) # 0
         /\ Reusable(c) # 0 => Kept \/ (Reusable(c) = c /\ In(c, RunLog))
<1>1. In(c, RunLog) => c # 0
  BY Shapes, Bounds DEF In, Numbered
<1> QED
  BY <1>1, NewestOwnIs DEF Reusable

(* After a death or a command that fails, the approved changes are in the  *)
(* working tree or a later request finds their commit (detectReusable-     *)
(* Commit, resolveCommitForPrRequest).                                     *)
THEOREM WorkStays == Spec => []WorkNeverStranded
<1>1. Spec => []IInv
  BY InitHolds, StepKeeps, PTL DEF Spec
<1>2. Init => Saved
  BY DEF Init, Saved, OnBranch
<1>3. IInv /\ Saved /\ [Next]_vars => Saved'
  BY SavedStays
<1>4. IInv /\ Saved => WorkNeverStranded
  BY ReusableIs DEF IInv, Saved, WorkNeverStranded
<1> QED
  BY <1>1, <1>2, <1>3, <1>4, PTL DEF Spec

-----------------------------------------------------------------------------
(* One commit of the run's own *)

(* No retry makes a second commit, and none is lost. *)
OneCommit ==
  /\ \A c, d \in repo.own : c = d
  /\ \A c \in repo.own : In(c, RunLog)

RowTrue ==
  /\ pr.commit # 0 => repo.own # {}
  /\ pr.url => pr.status = "pr_created"

(* What a request has read stays so until it commits. *)
ReadTrue(q) ==
  /\ request[q].commit # 0 \/ request[q].reusable # 0 \/ request[q].pc = "rev_parse"
       => repo.own # {}
  /\ request[q].pc \in {"checkout", "resolve", "commit"} /\ request[q].reusable = 0
       => repo.own = {}
  /\ request[q].pc = "commit" => request[q].reusable = 0

Sole == Calm => OneCommit /\ RowTrue /\ \A q \in Requests : ReadTrue(q)

(* The steps that leave the run's commits as they are. *)
LEMMA SoleKept ==
  ASSUME Sole, Calm, Grows, repo'.own = repo.own, RowTrue',
         NEW q \in Requests, \A r \in Requests \ {q} : request'[r] = request[r],
         ReadTrue(q)'
  PROVE  Sole'
<1>1. ASSUME NEW r \in Requests \ {q} PROVE ReadTrue(r)'
  <2>1. ReadTrue(r) /\ request'[r] = request[r]
    BY DEF Sole
  <2> QED
    BY <2>1 DEF ReadTrue
<1>2. OneCommit'
  BY DEF Sole, OneCommit, Grows, In
<1> QED
  BY <1>1, <1>2 DEF Sole

LEMMA SoleAllKept ==
  ASSUME Sole, Calm, Grows, repo'.own = repo.own, pr' = pr,
         \A q \in Requests : request'[q] = request[q] \/ request'[q] = Idle
  PROVE  Sole'
<1>1. ASSUME NEW r \in Requests PROVE ReadTrue(r)'
  <2>1. ReadTrue(r) /\ (request'[r] = request[r] \/ request'[r] = Idle)
    BY DEF Sole
  <2> QED
    BY <2>1 DEF ReadTrue, Idle
<1>2. OneCommit'
  BY DEF Sole, OneCommit, Grows, In
<1>3. RowTrue'
  BY DEF Sole, RowTrue
<1> QED
  BY <1>1, <1>2, <1>3 DEF Sole

LEMMA CalmBefore ==
  ASSUME IInv, [Next]_vars, Calm'
  PROVE  Calm /\ Grows
<1>1. history.overlapped => history'.overlapped
  <2>1. history \in Histories
    BY DEF IInv, TypeOK
  <2>2. ASSUME NEW q \in Requests, Inspect(q) PROVE history.overlapped => history'.overlapped
    BY <2>1, <2>2 DEF Inspect, Histories
  <2>3. ASSUME NEW q \in Requests, Push(q) PROVE history.overlapped => history'.overlapped
    BY <2>1, <2>3 DEF Push, Moved, Histories
  <2>4. ASSUME NEW q \in Requests, Ask(q) \/ Continue(q), ~Inspect(q), ~Push(q)
        PROVE  history' = history
    BY <2>4 DEF Ask, AskPr, AskMerge, Continue, Checkout, ReuseCommit, ListChanges, Commit,
                RevParse, RecordPr, FailPr, OpenPr, ViewPr, Preview, ViewMerged, Refresh,
                FailMerge, Merge, Refuse
  <2>5. ASSUME NEW kind \in Deeds, Deed(kind) PROVE history.overlapped => history'.overlapped
    <3>1. history' \in {history, Uproot, Moved}
      BY <2>5 DEF Deed, Deeds
    <3> QED
      BY <2>1, <3>1 DEF Uproot, Moved, Histories
  <2> QED
    BY <2>2, <2>3, <2>4, <2>5 DEF Next, Reassess, Crash, vars
<1> QED
  BY <1>1, WorkspaceOfSteps DEF Calm

(* The row of a request that is at work has no pull request yet. *)
LEMMA WorkerRow ==
  ASSUME IInv, Sole, Calm, NEW q \in Requests, Working(q)
  PROVE  ~pr.url /\ pr \in PrRows /\ request[q] \in RequestStates
<1>1. pr.status # "pr_created"
  BY DEF IInv, Achieved
<1> QED
  BY <1>1, Shapes DEF Sole, RowTrue, IInv, PrRows

LEMMA SoleOfAsk ==
  ASSUME IInv, Sole, Calm, Grows, NEW q \in Requests, Ask(q)
  PROVE  Sole'
<1>1. PICK rationale \in BOOLEAN : AskPr(q, rationale) \/ AskMerge(q, rationale)
  BY DEF Ask
<1>2. request \in [Requests -> RequestStates]
  BY DEF IInv, TypeOK
<1>3. /\ request'[q].commit = pr.commit /\ request'[q].reusable = 0
      /\ request'[q].pc \in {"inspect", "view"}
      /\ \A r \in Requests \ {q} : request'[r] = request[r]
      /\ pr' = pr /\ repo' = repo
  <2>1. CASE AskPr(q, rationale)
    BY <1>2, <2>1 DEF AskPr, Idle
  <2>2. CASE AskMerge(q, rationale)
    BY <1>2, <2>2 DEF AskMerge, Idle
  <2> QED
    BY <1>1, <2>1, <2>2
<1>4. ReadTrue(q)' /\ RowTrue'
  BY <1>3 DEF ReadTrue, RowTrue, Sole
<1> QED
  BY <1>3, <1>4, SoleKept

LEMMA SoleOfInspect ==
  ASSUME IInv, Sole, Calm, Calm', Grows, NEW q \in Requests, Inspect(q)
  PROVE  Sole'
<1>1. repo' = repo
  BY DEF Inspect
<1>2. request[q] \in RequestStates /\ request \in [Requests -> RequestStates] /\ pr \in PrRows
  BY Shapes DEF IInv, TypeOK
<1>3. CASE OnRecord
  <2>1. Ends(q) /\ pr' = pr
    BY <1>3 DEF Inspect
  <2>2. ReadTrue(q)' /\ RowTrue'
    BY <1>1, <2>1, Ending DEF ReadTrue, RowTrue, Sole, IInv
  <2> QED
    BY <1>1, <2>1, <2>2, Ending, SoleKept DEF IInv
<1>4. CASE ~OnRecord
  <2> DEFINE found == Reusable(request[q].commit)
  <2>1. /\ pr' = Begun
        /\ request'[q].pc = "checkout" /\ request'[q].commit = pr.commit
        /\ request'[q].reusable = found
        /\ \A r \in Requests \ {q} : request'[r] = request[r]
    BY <1>2, <1>4 DEF Inspect, RequestStates
  <2>2. RowTrue
    BY DEF Sole
  <2>3. RowTrue'
    BY <1>1, <1>2, <1>4, <2>1, <2>2 DEF RowTrue, Begun, OnRecord, PrRows
  <2>4. found # 0 => repo.own # {}
    BY ReusableIs DEF IInv, Sole, ReadTrue, Kept
  <2>5. found = 0 => repo.own = {}
    <3>1. Kept => found # 0
      BY ReusableIs DEF IInv
    <3>2. repo.own # {} => Kept
      BY DEF Sole, OneCommit, In, Kept
    <3> QED
      BY <3>1, <3>2
  <2>6. pr.commit # 0 => repo.own # {}
    BY <2>2 DEF RowTrue
  <2> HIDE DEF found
  <2>7. ReadTrue(q)'
    BY <1>1, <2>1, <2>4, <2>5, <2>6 DEF ReadTrue
  <2> QED
    BY <1>1, <2>1, <2>3, <2>7, SoleKept
<1> QED
  BY <1>3, <1>4

(* The commit, made by the only request that works on the row. *)
LEMMA SoleOfCommit ==
  ASSUME IInv, Sole, Calm, Grows, NEW q \in Requests, Commit(q)
  PROVE  Sole'
<1>0. repo \in Repos /\ pr' = pr /\ At(q, "commit")
  BY DEF IInv, TypeOK, Commit
<1>1. repo.head = "run" /\ Working(q)
  BY <1>0 DEF IInv, Achieved, At, Working, PrSteps
<1>2. repo.own = {}
  BY <1>0 DEF Sole, ReadTrue, At
<1>3. repo'.own = {repo.made + 1} /\ RunLog' = Append(RunLog, repo.made + 1)
  BY <1>0, <1>1, <1>2 DEF Commit, Repos, RunLog, Branches
<1>4. In(repo.made + 1, RunLog')
  <2>1. RunLog \in Seq(Commits)
    BY Shapes DEF IInv
  <2>2. Len(RunLog) + 1 \in 1..Len(RunLog') /\ RunLog'[Len(RunLog) + 1] = repo.made + 1
    BY <1>3, <2>1
  <2> QED
    BY <2>2 DEF In
<1>5. OneCommit' /\ RowTrue'
  BY <1>0, <1>3, <1>4 DEF OneCommit, RowTrue, Sole
<1>6. Goes(q, "rev_parse")
  BY DEF Commit
<1>7. ReadTrue(q)'
  BY <1>3, <1>6, Going DEF ReadTrue, IInv
<1>8. ASSUME NEW r \in Requests \ {q} PROVE ReadTrue(r)'
  <2>1. request'[r] = request[r] /\ ReadTrue(r)
    BY <1>6, Going DEF IInv, Sole
  <2>2. ~Working(r)
    BY <1>1 DEF IInv, Alone, Calm
  <2> QED
    BY <1>3, <2>1, <2>2 DEF ReadTrue, Working, PrSteps
<1> QED
  BY <1>5, <1>7, <1>8 DEF Sole

LEMMA SoleOfRow ==
  ASSUME IInv, Sole, Calm, Grows, NEW q \in Requests,
         \/ Checkout(q) \/ ReuseCommit(q) \/ RevParse(q) \/ RecordPr(q) \/ FailPr(q)
  PROVE  Sole'
<1>1. repo'.own = repo.own
  BY DEF Checkout, ReuseCommit, RevParse, RecordPr, FailPr, IInv, TypeOK, Repos
<1>2. Working(q)
  BY DEF Checkout, ReuseCommit, RevParse, RecordPr, FailPr, Working, At, PrSteps
<1>3. ~pr.url /\ pr \in PrRows /\ request[q] \in RequestStates /\ TypeOK
  BY <1>2, WorkerRow DEF IInv
<1>4. ReadTrue(q) /\ RowTrue
  BY DEF Sole
<1>5. CASE Checkout(q)
  <2>1. RowTrue'
    BY <1>1, <1>3, <1>4, <1>5 DEF RowTrue, Checkout, Note, PrRows
  <2>2. Goes(q, "resolve") /\ request[q].pc = "checkout"
    BY <1>5 DEF Checkout, At
  <2>3. ReadTrue(q)'
    BY <1>1, <1>3, <1>4, <2>2, Going DEF ReadTrue
  <2> QED
    BY <1>1, <1>3, <2>1, <2>2, <2>3, Going, SoleKept
<1>6. CASE ReuseCommit(q)
  <2> DEFINE known == Known(q)
  <2>1. In(known, RunLog) /\ pr' = Recorded(known) /\ Goes(q, "push")
    BY <1>6 DEF ReuseCommit
  <2>2. known # 0
    BY <2>1, Shapes, Bounds DEF In, IInv, Numbered
  <2>3. repo.own # {}
    BY <1>4, <2>2 DEF ReadTrue, RowTrue, Known
  <2> HIDE DEF known
  <2>4. RowTrue'
    BY <1>1, <1>3, <2>1, <2>3 DEF RowTrue, Recorded, PrRows
  <2>5. ReadTrue(q)'
    BY <1>1, <1>3, <1>4, <2>1, Going DEF ReadTrue
  <2> QED
    BY <1>1, <1>3, <2>1, <2>4, <2>5, Going, SoleKept
<1>7. CASE RevParse(q)
  <2>1. repo.own # {} /\ Goes(q, "push")
    BY <1>4, <1>7 DEF ReadTrue, RevParse, At
  <2>2. RowTrue'
    BY <1>1, <1>3, <1>7, <2>1 DEF RowTrue, RevParse, Recorded, PrRows
  <2>3. ReadTrue(q)'
    BY <1>1, <1>3, <1>4, <2>1, Going DEF ReadTrue
  <2> QED
    BY <1>1, <1>3, <2>1, <2>2, <2>3, Going, SoleKept
<1>8. CASE RecordPr(q) \/ FailPr(q)
  <2>1. Ends(q)
    BY <1>8 DEF RecordPr, FailPr
  <2>2. RowTrue'
    BY <1>1, <1>3, <1>4, <1>8 DEF RowTrue, RecordPr, FailPr, Note, PrRows
  <2>3. ReadTrue(q)'
    BY <1>1, <1>3, <1>4, <2>1, Ending DEF ReadTrue
  <2> QED
    BY <1>1, <1>3, <2>1, <2>2, <2>3, Ending, SoleKept
<1> QED
  BY <1>5, <1>6, <1>7, <1>8

LEMMA SoleOfOthers ==
  ASSUME IInv, Sole, Calm, Grows, NEW q \in Requests,
         \/ ListChanges(q) \/ Push(q) \/ (\E state \in {"draft", "open"} : OpenPr(q, state))
         \/ ViewPr(q) \/ Preview(q) \/ ViewMerged(q) \/ Refresh(q) \/ FailMerge(q)
         \/ (\E answer \in {"answered", "lost"} : Merge(q, answer)) \/ Refuse(q)
  PROVE  Sole'
<1>1. repo'.own = repo.own /\ pr' = pr
  BY DEF ListChanges, Push, OpenPr, ViewPr, Preview, ViewMerged, Refresh, FailMerge, Merge,
         Refuse, IInv, TypeOK, Repos
<1>2. ReadTrue(q) /\ RowTrue /\ TypeOK
  BY DEF Sole, IInv
<1>3. RowTrue'
  BY <1>1, <1>2 DEF RowTrue
<1>4. \A r \in Requests \ {q} : request'[r] = request[r]
      /\ (Ends(q) \/ (\E pc \in {"open", "opened", "merge", "postview", "refresh"} : Goes(q, pc))
            \/ ListChanges(q) \/ ViewPr(q))
  <2>1. CASE ViewPr(q)
    <3>1. request \in [Requests -> RequestStates]
      BY <1>2 DEF TypeOK
    <3> QED
      BY <2>1, <3>1 DEF ViewPr, RequestStates
  <2>2. CASE \/ Ends(q) \/ ListChanges(q)
             \/ \E pc \in {"open", "opened", "merge", "postview", "refresh"} : Goes(q, pc)
    BY <1>2, <2>2, Going, Ending DEF ListChanges
  <2> QED
    BY <2>1, <2>2 DEF Push, OpenPr, Preview, ViewMerged, Refresh, FailMerge, Merge, Refuse
<1>5. ReadTrue(q)'
  <2>1. CASE ViewPr(q)
    <3>1. request[q] \in RequestStates /\ request \in [Requests -> RequestStates]
      BY <1>2 DEF TypeOK
    <3>2. request'[q].pc = "preview" /\ request'[q].commit = request[q].commit
          /\ request'[q].reusable = request[q].reusable
      BY <2>1, <3>1 DEF ViewPr, RequestStates
    <3> QED
      BY <1>1, <1>2, <3>2 DEF ReadTrue
  <2>2. CASE Ends(q)
    BY <1>1, <1>2, <2>2, Ending DEF ReadTrue
  <2>3. CASE \E pc \in {"open", "opened", "merge", "postview", "refresh"} : Goes(q, pc)
    BY <1>1, <1>2, <2>3, Going DEF ReadTrue
  <2>4. CASE ListChanges(q)
    <3>1. request[q].pc = "resolve" /\ request[q].reusable = 0 /\ Goes(q, "commit")
      BY <2>4 DEF ListChanges, At, Known
    <3> QED
      BY <1>1, <1>2, <3>1, Going DEF ReadTrue
  <2>5. \/ ViewPr(q) \/ Ends(q) \/ ListChanges(q)
        \/ \E pc \in {"open", "opened", "merge", "postview", "refresh"} : Goes(q, pc)
    BY DEF Push, OpenPr, Preview, ViewMerged, Refresh, FailMerge, Merge, Refuse
  <2> QED
    BY <2>1, <2>2, <2>3, <2>4, <2>5
<1> QED
  BY <1>1, <1>3, <1>4, <1>5, SoleKept

LEMMA SoleStays ==
  ASSUME IInv, Sole, [Next]_vars
  PROVE  Sole'
<1> SUFFICES ASSUME Calm' PROVE Sole'
  BY DEF Sole
<1>1. Calm /\ Grows
  BY CalmBefore
<1>2. ASSUME NEW q \in Requests, Continue(q) PROVE Sole'
  BY <1>1, <1>2, SoleOfInspect, SoleOfCommit, SoleOfRow, SoleOfOthers DEF Continue
<1>3. CASE \E kind \in Deeds : Deed(kind)
  <2>1. repo'.own = repo.own /\ pr' = pr /\ request' = request
    BY <1>3 DEF Deed, Deeds, IInv, TypeOK, Repos
  <2> QED
    BY <1>1, <2>1, SoleAllKept
<1>4. CASE (\E s \in Reports : Reassess(s)) \/ Crash \/ UNCHANGED vars
  <2>1. repo' = repo /\ pr' = pr
        /\ \A q \in Requests : request'[q] = request[q] \/ request'[q] = Idle
    BY <1>4 DEF Reassess, Crash, vars
  <2> QED
    BY <1>1, <2>1, SoleAllKept
<1> QED
  BY <1>1, <1>2, <1>3, <1>4, SoleOfAsk DEF Next

-----------------------------------------------------------------------------
(* What is told as merged *)

(* A status noted in the row of a merge request. *)
LEMMA Noting ==
  ASSUME TypeOK, NEW q, NEW status, NoteMerge(q, status), In("merged", merges')
  PROVE  status = "merged" \/ In("merged", merges)
<1>1. PICK a : merges' = [merges EXCEPT ![a] = status]
  BY DEF NoteMerge
<1>2. merges \in Seq(MergeStatus)
  BY DEF TypeOK
<1>3. PICK i \in 1..Len(merges') : merges'[i] = "merged"
  BY DEF In
<1>4. Len(merges') = Len(merges) /\ (i = a \/ merges'[i] = merges[i])
  BY <1>1, <1>2, <1>3
<1>5. i = a => merges'[i] = status
  BY <1>1, <1>2, <1>3, <1>4
<1> QED
  BY <1>3, <1>4, <1>5 DEF In

(* Nothing takes a merge back. *)
LEMMA MergedStays ==
  ASSUME TypeOK, [Next]_vars, github.pr = "merged"
  PROVE  github'.pr = "merged"
<1>1. github \in Githubs
  BY DEF TypeOK
<1>2. CASE UNCHANGED github
  BY <1>2
<1>3. ASSUME NEW q \in Requests, Continue(q) PROVE github'.pr = "merged"
  <2>1. CASE Push(q)
    BY <1>1, <2>1 DEF Push, Githubs
  <2>2. CASE \E state \in {"draft", "open"} : OpenPr(q, state)
    BY <1>1, <2>2 DEF OpenPr
  <2>3. CASE \E answer \in {"answered", "lost"} : Merge(q, answer)
    BY <1>1, <2>3 DEF Merge, Githubs
  <2> QED
    BY <1>2, <1>3, <2>1, <2>2, <2>3
      DEF Continue, Inspect, Checkout, ReuseCommit, ListChanges, Commit, RevParse, RecordPr,
          FailPr, ViewPr, Preview, ViewMerged, Refresh, FailMerge, Refuse
<1>4. ASSUME NEW kind \in Deeds, Deed(kind) PROVE github'.pr = "merged"
  BY <1>1, <1>4 DEF Deed, Deeds, Githubs
<1> QED
  BY <1>2, <1>3, <1>4 DEF Next, Ask, AskPr, AskMerge, Reassess, Crash, vars

LEMMA ToldByOne ==
  ASSUME Told, github.pr = "merged" => github'.pr = "merged",
         NEW q \in Requests, \A r \in Requests \ {q} : request'[r] = request[r],
         request'[q].pc \in {"postview", "refresh"} => github'.pr = "merged",
         In("merged", merges') => In("merged", merges) \/ github'.pr = "merged"
  PROVE  Told'
<1>1. ASSUME NEW r \in Requests, request'[r].pc \in {"postview", "refresh"}
      PROVE  github'.pr = "merged"
  BY <1>1 DEF Told
<1> QED
  BY <1>1 DEF Told

LEMMA ToldStays ==
  ASSUME TypeOK, Told, [Next]_vars
  PROVE  Told'
<1>1. github.pr = "merged" => github'.pr = "merged"
  BY MergedStays
<1>2. request \in [Requests -> RequestStates] /\ \A q \in Requests : request[q] \in RequestStates
  BY DEF TypeOK
<1>3. ASSUME merges' = merges,
             \A q \in Requests : request'[q] = request[q] \/ request'[q] = Idle
      PROVE  Told'
  BY <1>1, <1>3 DEF Told, Idle
<1>4. ASSUME NEW q \in Requests, Ask(q) PROVE Told'
  <2>1. PICK rationale \in BOOLEAN : AskPr(q, rationale) \/ AskMerge(q, rationale)
    BY <1>4 DEF Ask
  <2>2. /\ request'[q].pc \in {"inspect", "view"} /\ merges' = merges
        /\ \A r \in Requests \ {q} : request'[r] = request[r]
    <3>1. CASE AskPr(q, rationale)
      BY <1>2, <3>1 DEF AskPr, Idle
    <3>2. CASE AskMerge(q, rationale)
      BY <1>2, <3>2 DEF AskMerge, Idle
    <3> QED
      BY <2>1, <3>1, <3>2
  <2> QED
    BY <1>1, <2>2, ToldByOne
<1>5. ASSUME NEW q \in Requests, Continue(q) PROVE Told'
  <2>1. CASE Inspect(q)
    <3>1. /\ request'[q].pc \in {"idle", "checkout"} /\ merges' = merges
          /\ \A r \in Requests \ {q} : request'[r] = request[r]
      BY <1>2, <2>1, Ending DEF Inspect, RequestStates
    <3> QED
      BY <1>1, <3>1, ToldByOne
  <2>2. CASE ViewPr(q)
    <3>1. /\ request'[q].pc = "preview" /\ merges' = Append(merges, "ready")
          /\ \A r \in Requests \ {q} : request'[r] = request[r]
      BY <1>2, <2>2 DEF ViewPr, RequestStates
    <3>2. In("merged", merges') => In("merged", merges)
      BY <3>1 DEF TypeOK, In
    <3> QED
      BY <1>1, <3>1, <3>2, ToldByOne
  <2>3. CASE ViewMerged(q)
    <3>1. github.pr = "merged" /\ Goes(q, "refresh")
      BY <2>3 DEF ViewMerged, Told, At
    <3> QED
      BY <1>1, <3>1, Going, ToldByOne
  <2>4. CASE Refresh(q) \/ Refuse(q)
    <3>1. Ends(q) /\ merges' = merges
      BY <2>4 DEF Refresh, Refuse
    <3> QED
      BY <1>1, <3>1, Ending, ToldByOne
  <2>5. CASE FailMerge(q)
    <3>1. Ends(q) /\ NoteMerge(q, "failed")
      BY <2>5 DEF FailMerge
    <3> QED
      BY <1>1, <3>1, Ending, Noting, ToldByOne
  <2>6. CASE Preview(q)
    <3>1. Goes(q, "merge") /\ NoteMerge(q, "merging")
      BY <2>6 DEF Preview
    <3> QED
      BY <1>1, <3>1, Going, Noting, ToldByOne
  <2>7. ASSUME NEW answer \in {"answered", "lost"}, Merge(q, answer) PROVE Told'
    <3>1. github'.pr = "merged"
      BY <2>7 DEF Merge, TypeOK, Githubs
    <3> QED
      BY <3>1 DEF Told
  <2>8. CASE \/ merges' = merges /\ Ends(q)
             \/ merges' = merges /\ \E pc \in PrSteps : Goes(q, pc)
    <3>1. request'[q].pc \notin {"postview", "refresh"}
          /\ \A r \in Requests \ {q} : request'[r] = request[r]
      BY <2>8, Going, Ending DEF PrSteps
    <3> QED
      BY <1>1, <2>8, <3>1, ToldByOne
  <2> QED
    BY <1>5, <2>1, <2>2, <2>3, <2>4, <2>5, <2>6, <2>7, <2>8
      DEF Continue, Checkout, ReuseCommit, ListChanges, Commit, RevParse, Push, RecordPr,
          FailPr, OpenPr, PrSteps
<1> QED
  BY <1>3, <1>4, <1>5 DEF Next, Reassess, Deed, Crash, vars

-----------------------------------------------------------------------------
(* The panels *)

LEMMA CardIsTrue ==
  ASSUME IInv, Sole, Calm
  PROVE  LET s == Readiness IN
         /\ CommitState(s) = "reused" => Cardinality(repo.own) = 1
         /\ CommitState(s) = "will_be_created" => repo.own = {}
         /\ BranchState(s) = "already_pushed" => In(Prefix(s), github.log)
<1> DEFINE s == Readiness
           found == Reusable(pr.commit)
<1>1. s.reusable = found /\ (s.matches => repo.tracking # 0 /\ repo.tracking = found)
  BY DEF Readiness
<1>2. found # 0 \/ pr.commit # 0 => repo.own # {}
  BY ReusableIs DEF IInv, Sole, RowTrue, Kept, In
<1>3. repo.own # {} => found # 0
  <2>1. repo.own # {} => Kept
    BY DEF Sole, OneCommit, In, Kept
  <2> QED
    BY <2>1, ReusableIs DEF IInv
<1>4. CommitState(s) = "reused" => repo.own # {}
  BY <1>1, <1>2 DEF CommitState, Prefix
<1>5. repo.own # {} => Cardinality(repo.own) = 1
  <2>1. ASSUME NEW c \in repo.own PROVE Cardinality(repo.own) = 1
    <3>1. repo.own = {c}
      BY DEF Sole, OneCommit
    <3> QED
      BY <3>1, FS_Singleton
  <2> QED
    BY <2>1
<1>6. CommitState(s) = "will_be_created" => repo.own = {}
  BY <1>1, <1>3 DEF CommitState, Prefix
<1>7. BranchState(s) = "already_pushed" => In(Prefix(s), github.log)
  <2> SUFFICES ASSUME BranchState(s) = "already_pushed" PROVE In(Prefix(s), github.log)
    OBVIOUS
  <2>1. s.matches
    BY DEF BranchState
  <2>2. Prefix(s) = repo.tracking /\ repo.tracking # 0
    BY <1>1, <2>1 DEF Prefix
  <2>3. PICK k \in 1..Len(RunLog) : PushedUpTo(k)
    BY <2>2 DEF IInv, Tracked, Calm
  <2>4. k \in 1..Len(github.log) /\ github.log[k] = repo.tracking
    BY <2>3, Shapes DEF PushedUpTo, IInv
  <2> QED
    BY <2>2, <2>4 DEF In
<1> QED
  BY <1>4, <1>5, <1>6, <1>7

LEMMA ButtonsAreTrue ==
  ASSUME IInv, Sole, Calm
  PROVE  LET s == Readiness IN
         /\ PrState(s) = "existing" \/ "pull_request" \in Succeeded(s) => github.pr # "none"
         /\ ReadinessState(s) = "created" <=> OnRecord
         /\ Enabled(s) <=> ~PrBlocked(standing) /\ ~Stuck(pr.commit) /\ ~OnRecord
         /\ MergeEnabled => /\ standing.evidence /\ ~HardBlocked(standing)
                            /\ github.pr \in {"draft", "open"}
<1> DEFINE s == Readiness
<1>1. /\ s.url = pr.url /\ s.status = ReadinessStatus
      /\ (s.manual <=> Stuck(pr.commit))
  BY DEF Readiness
<1>2. pr.url <=> OnRecord
  BY DEF Sole, RowTrue, OnRecord
<1>3. ReadinessStatus \in {"blocked", "requires_review", "passed"}
      /\ (ReadinessStatus = "blocked" <=> PrBlocked(standing) \/ Stuck(pr.commit))
  BY DEF ReadinessStatus
<1>4. pr.status = "pr_created" => github.pr # "none"
  BY DEF IInv, PublishedAsRecorded, Calm
<1> HIDE DEF s
<1>5. PrState(s) = "existing" => OnRecord
  BY <1>1, <1>2 DEF PrState
<1>6. "pull_request" \in Succeeded(s) => OnRecord
  BY <1>1, <1>2 DEF Succeeded
<1>7. ReadinessState(s) = "created" <=> OnRecord
  BY <1>1, <1>2, <1>3 DEF ReadinessState
<1>8. Enabled(s) <=> ~PrBlocked(standing) /\ ~Stuck(pr.commit) /\ ~OnRecord
  BY <1>1, <1>2, <1>3 DEF Enabled, CardAllows, NextAction
<1>9. MergeEnabled => /\ standing.evidence /\ ~HardBlocked(standing)
                      /\ github.pr \in {"draft", "open"}
  <2> SUFFICES ASSUME MergeEnabled
               PROVE  /\ standing.evidence /\ ~HardBlocked(standing)
                      /\ github.pr \in {"draft", "open"}
    OBVIOUS
  <2>1. Mergeable /\ ~MergeBlocked(standing)
        /\ MergeJudged(pr.commit, MergeWarned(standing), github.pr # "none") # "blocked"
    BY DEF MergeEnabled, MergeReadiness
  <2>2. github.pr # "none" /\ github.pr \in {"none", "draft", "open", "closed", "merged"}
    BY <1>4, <2>1 DEF Mergeable, IInv, TypeOK, Githubs
  <2>3. github.pr \notin {"closed", "merged"}
    BY <2>1, <2>2 DEF MergeJudged
  <2>4. standing.evidence /\ ~HardBlocked(standing)
    BY <2>1 DEF MergeBlocked, Unfit, HardBlocked
  <2> QED
    BY <2>2, <2>3, <2>4
<1> QED
  BY <1>2, <1>4, <1>5, <1>6, <1>7, <1>8, <1>9 DEF OnRecord, s

(* The panels of the pull request keep their word: no retry makes a second *)
(* commit, a branch told as pushed and a pull request told as existing are *)
(* there, and a button is enabled when the handler would go on             *)
(* (derivePrStateCardState, evaluatePrReadiness, evaluateMergeReadiness).  *)
THEOREM PanelIsTrue == Spec => []PanelKeepsItsWord
<1>1. Spec => []IInv
  BY InitHolds, StepKeeps, PTL DEF Spec
<1>2. Init => Sole /\ Told
  BY DEF Init, Sole, Told, OneCommit, RowTrue, ReadTrue, Idle, In
<1>3. IInv /\ Sole /\ [Next]_vars => Sole'
  BY SoleStays
<1>4. IInv /\ Told /\ [Next]_vars => Told'
  BY ToldStays DEF IInv
<1>5. IInv /\ Sole /\ Told => PanelKeepsItsWord
  <2>1. ASSUME IInv, Sole, Told PROVE PanelKeepsItsWord
    BY <2>1, CardIsTrue, ButtonsAreTrue DEF PanelKeepsItsWord, Calm, Told
  <2> QED
    BY <2>1
<1> QED
  BY <1>1, <1>2, <1>3, <1>4, <1>5, PTL DEF Spec

=============================================================================
