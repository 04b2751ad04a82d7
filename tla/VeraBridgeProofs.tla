--------------------------- MODULE VeraBridgeProofs ---------------------------
(***************************************************************************)
(* Proofs about VeraBridge, for any files, git requests, commits, deeds of *)
(* others and deaths: every variable keeps its shape, the commit on record *)
(* is made of the approved content, a run that was approved as a whole     *)
(* starts no further step, documents and decisions come in their order,    *)
(* an application ends where it is said to, the ledger tells what the      *)
(* notes say or shows what was interrupted, and the page leads on.         *)
(***************************************************************************)
EXTENDS VeraPage, FiniteSetTheorems, SequenceTheorems, TLAPS

(* Branches point to commits that exist, and so does HEAD. *)
HeadExists ==
  /\ \A b \in Branches : git.tip[b] \in 0..Len(git.log)
  /\ git.tip[git.head] # 0

(* A request between the readiness of the commit and its record. *)
Committing(q) == request[q].wait \in {"add", "check", "commit", "rev_parse"}

(* What a commit rests on is settled before it. *)
Settled ==
  /\ Approved("draft") => Noted("draft")
  /\ Approved("report") => Approved("draft") /\ docs["application"] # "none"
  /\ docs["commit_proposal"] # "none" => Approved("report") /\ target \in 1..Len(git.log)
  /\ docs["commit"] # "none" => docs["commit_proposal"] # "none"
  /\ \A q \in Requests : Committing(q) => docs["commit_proposal"] # "none"

(* The commit that changes the drafted files to what the draft says. *)
AsApproved(c) ==
  /\ c \in 1..Len(git.log)
  /\ git.log[c].parent = target
  /\ git.log[c].tree = [p \in Paths |-> IF p \in Targets THEN "draft" ELSE git.log[target].tree[p]]

(* It is made, and nothing is staged on top of it. *)
CommitMade == AsApproved(git.tip["run"]) /\ Staged = {}

Drafted(some) == \A p \in some : git.index[p] = "draft"

(* What a request of an undisturbed checkout may rely on. *)
Undisturbed(q) ==
  /\ Committing(q) => OnRunBranch /\ FilesAsApplied /\ (git.tip["run"] = target \/ CommitMade)
  /\ At(q, "add") => Drafted(Targets \ request[q].todo) /\ request[q].todo \subseteq Targets
  /\ At(q, "check") => Drafted(Targets)
  /\ At(q, "commit") =>
       CommitMade \/ (git.tip["run"] = target /\ Staged = Targets /\ Drafted(Targets))
  /\ At(q, "rev_parse") => CommitMade

(* A run that was approved as a whole is past its start. *)
PastStart == completed => status \notin {"none", "pending"}

IInv ==
  /\ TypeOK /\ HeadExists /\ Settled /\ PastStart
  /\ ~touched => \A q \in Requests : Undisturbed(q)
  /\ ~touched /\ Recorded("commit") => AsApproved(sha)

-----------------------------------------------------------------------------
(* Types *)

Pipelines == {"idle", "verify", "branch", "artifact_ready", "artifact_blocked", "refresh"}
Waiting == [wait : Waits, todo : SUBSET Paths]

LEMMA Bounds ==
  MaxCommits \in Nat /\ MaxCommits >= 1 /\ MaxDeeds \in Nat /\ MaxCrashes \in Nat
  BY BoundsAssumption

LEMMA Shapes ==
  ASSUME TypeOK
  PROVE  /\ docs \in [Documents -> Files] /\ verdicts \in [Reviewed -> Decisions \cup {"none"}]
         /\ git.tree \in Trees /\ git.index \in Trees /\ git.head \in Branches
         /\ git.log \in Seq([tree : Trees, parent : Commits])
         /\ git.tip \in [Branches -> Commits]
         /\ Len(git.log) \in Nat /\ Len(git.log) >= 1 /\ Len(git.log) <= MaxCommits
         /\ request \in [Requests -> Waiting] /\ \A q \in Requests : request[q] \in Waiting
  BY Bounds DEF TypeOK, Checkouts, Waiting

(* Somebody dies, or nobody does. *)
LEMMA ActorTypes ==
  ASSUME TypeOK, Dies \/ Lives
  PROVE  pipeline' \in Pipelines /\ request' \in [Requests -> Waiting] /\ crashes' \in 0..MaxCrashes
<1>1. Idle \in Waiting
  BY DEF Idle, Waiting, Waits
<1>2. CASE Dies
  BY <1>1, <1>2, Bounds DEF Dies, TypeOK, Pipelines
<1>3. CASE Lives
  BY <1>3 DEF Lives, actors, TypeOK, Pipelines, Waiting
<1> QED
  BY <1>2, <1>3

(* A handler that writes its document. *)
LEMMA RecordTypes ==
  ASSUME TypeOK, NEW d \in Documents, NEW next \in Steps, NEW end, Record(d, next, end)
  PROVE  docs' \in [Documents -> Files] /\ status' \in Statuses /\ step' \in Steps
<1>1. Unrecorded(d) \in [Documents -> Files]
  BY DEF Unrecorded, TypeOK, Files
<1>2. [docs EXCEPT ![d] = "recorded"] \in [Documents -> Files]
  BY DEF TypeOK, Files
<1> QED
  BY <1>1, <1>2 DEF Record, run, TypeOK, Statuses

LEMMA WritesTypes ==
  ASSUME TypeOK, NEW d \in Documents, NEW next \in Steps, NEW end, Writes(d, next, end)
  PROVE  /\ docs' \in [Documents -> Files] /\ status' \in Statuses /\ step' \in Steps
         /\ pipeline' \in Pipelines /\ request' \in [Requests -> Waiting] /\ crashes' \in 0..MaxCrashes
  BY RecordTypes, ActorTypes DEF Writes

LEMMA DecidesTypes ==
  ASSUME TypeOK, NEW d \in Reviewed, NEW verdict \in Decisions, NEW steps, NEW end,
         steps[verdict] \in Steps, Decides(d, verdict, steps, end)
  PROVE  TypeOK'
<1>1. verdicts' \in [Reviewed -> Decisions \cup {"none"}]
  BY DEF Decides, TypeOK
<1>2. status' \in Statuses /\ step' \in Steps
  BY DEF Decides, Statuses
<1>3. pipeline' \in Pipelines /\ request' \in [Requests -> Waiting] /\ crashes' \in 0..MaxCrashes
  BY ActorTypes DEF Decides, Answers
<1> QED
  BY <1>1, <1>2, <1>3 DEF TypeOK, Decides, work, Pipelines, Waiting

LEMMA StartTypes ==
  ASSUME TypeOK, Start
  PROVE  TypeOK'
<1>1. PICK end \in Ends : PrepareRun(end) \/ RequestApproval(end) \/ StartExecution(end)
  BY DEF Start
<1>2. CASE PrepareRun(end) \/ RequestApproval(end)
  <2>1. pipeline' \in Pipelines /\ request' \in [Requests -> Waiting] /\ crashes' \in 0..MaxCrashes
    BY <1>2, ActorTypes DEF PrepareRun, RequestApproval, Answers
  <2>2. status' \in Statuses /\ step' \in Steps
    BY <1>2 DEF PrepareRun, RequestApproval, Statuses, Steps, TypeOK
  <2> QED
    BY <1>2, <2>1, <2>2 DEF PrepareRun, RequestApproval, TypeOK, notes, work, Pipelines, Waiting
<1>3. CASE StartExecution(end)
  <2>1. pipeline' \in Pipelines /\ request' \in [Requests -> Waiting] /\ crashes' \in 0..MaxCrashes
    <3>1. CASE Dies
      BY <3>1, ActorTypes
    <3>2. CASE ~Dies
      BY <1>3, <3>2 DEF StartExecution, TypeOK, Pipelines, Waiting
    <3> QED
      BY <3>1, <3>2
  <2>2. status' \in Statuses /\ step' \in Steps /\ started' \in BOOLEAN
    BY <1>3 DEF StartExecution, Statuses, Steps, TypeOK, run
  <2> QED
    BY <1>3, <2>1, <2>2 DEF StartExecution, TypeOK, work, Pipelines, Waiting
<1> QED
  BY <1>1, <1>2, <1>3

LEMMA MakeBranchTypes ==
  ASSUME TypeOK, NEW made \in BOOLEAN, MakeBranch(made)
  PROVE  git' \in Checkouts /\ git'.log = git.log
<1>1. git \in Checkouts
  BY DEF TypeOK
<1>2. git.tip[git.head] \in Commits
  BY Shapes
<1>3. CASE made
  <2>1. git' = [git EXCEPT !.tip["run"] = git.tip[git.head], !.head = "run"]
    BY <1>3 DEF MakeBranch
  <2> QED
    BY <1>1, <1>2, <2>1 DEF Checkouts, Branches
<1>4. CASE ~made
  BY <1>1, <1>4 DEF MakeBranch
<1> QED
  BY <1>3, <1>4

LEMMA PipelineTypes ==
  ASSUME TypeOK, Pipeline
  PROVE  TypeOK'
<1>1. CASE VerifyRepo \/ AwaitReview \/ RefreshEvidence \/ FailPipeline
  <2>1. pipeline' \in Pipelines /\ status' \in Statuses /\ step' \in Steps
    BY <1>1 DEF VerifyRepo, AwaitReview, RefreshEvidence, FailPipeline, Pipelines, Statuses, Steps,
                run, TypeOK
  <2> QED
    BY <1>1, <2>1 DEF VerifyRepo, AwaitReview, RefreshEvidence, FailPipeline, TypeOK, notes, work,
                      faults, Pipelines, Waiting
<1>2. ASSUME NEW outcome \in {"failed", "artifact_ready", "artifact_blocked"}, NEW made \in BOOLEAN,
             ImplementArtifact(outcome, made)
      PROVE  TypeOK'
  <2>1. git' \in Checkouts /\ git'.log = git.log
    BY <1>2, MakeBranchTypes DEF ImplementArtifact
  <2>2. pipeline' \in Pipelines /\ status' \in Statuses /\ step' \in Steps
    BY <1>2 DEF ImplementArtifact, Pipelines, Statuses, Steps
  <2>3. docs' \in [Documents -> Files]
    BY <1>2 DEF ImplementArtifact, TypeOK, Files
  <2> QED
    BY <1>2, <2>1, <2>2, <2>3 DEF ImplementArtifact, TypeOK, work, faults, Pipelines
<1>3. ASSUME NEW made \in BOOLEAN, WorkerDies(made) PROVE TypeOK'
  <2>1. git' \in Checkouts /\ git'.log = git.log
    BY <1>3, MakeBranchTypes DEF WorkerDies
  <2>2. pipeline' \in Pipelines /\ request' \in [Requests -> Waiting] /\ crashes' \in 0..MaxCrashes
    BY <1>3, ActorTypes DEF WorkerDies
  <2>3. docs' \in [Documents -> Files] /\ status' \in Statuses /\ step' \in Steps
    BY <1>3 DEF WorkerDies, TypeOK, Files, Statuses, Steps
  <2> QED
    BY <1>3, <2>1, <2>2, <2>3 DEF WorkerDies, TypeOK, work, Pipelines, Waiting
<1> QED
  BY <1>1, <1>2, <1>3 DEF Pipeline

LEMMA ReviewTypes ==
  ASSUME TypeOK, Review
  PROVE  TypeOK'
<1> USE DEF Reviewed, Steps, Decisions
<1>1. PICK verdict \in Decisions, end \in Ends :
        ReviewArtifact(verdict, end) \/ ReviewProposal(verdict, end)
          \/ ReviewDraft(verdict, end) \/ ReviewReport(verdict, end)
  BY DEF Review
<1>2. CASE ReviewArtifact(verdict, end)
  BY <1>2, DecidesTypes DEF ReviewArtifact
<1>3. CASE ReviewProposal(verdict, end)
  BY <1>3, DecidesTypes DEF ReviewProposal
<1>4. CASE ReviewDraft(verdict, end)
  BY <1>4, DecidesTypes DEF ReviewDraft
<1>5. CASE ReviewReport(verdict, end)
  BY <1>5, DecidesTypes DEF ReviewReport
<1> QED
  BY <1>1, <1>2, <1>3, <1>4, <1>5

LEMMA WrittenType ==
  ASSUME TypeOK, NEW some
  PROVE  /\ Written(some) \in Checkouts
         /\ Written(some).log = git.log /\ Written(some).tip = git.tip
         /\ Written(some).head = git.head
<1>1. [p \in Paths |-> IF p \in some THEN "draft" ELSE git.tree[p]] \in Trees
  BY Shapes DEF Trees, Contents
<1> QED
  BY <1>1 DEF Written, TypeOK, Checkouts

LEMMA DocumentTypes ==
  ASSUME TypeOK, Document
  PROVE  TypeOK'
<1> USE DEF Documents, Steps
<1>1. PICK end \in Ends :
        \/ CreateProposal(end)
        \/ \E new \in [Paths -> {"none", "create", "modify"}] : CreateDraft(new, end)
        \/ ApplyDraft(end) \/ RunGates(end) \/ ProposeCommit(end)
  BY DEF Document
<1>2. /\ docs' \in [Documents -> Files] /\ status' \in Statuses /\ step' \in Steps
      /\ pipeline' \in Pipelines /\ request' \in [Requests -> Waiting] /\ crashes' \in 0..MaxCrashes
  BY <1>1, WritesTypes DEF CreateProposal, CreateDraft, ApplyDraft, RunGates, ProposeCommit
<1> HIDE DEF Documents, Steps
<1>3. CASE CreateProposal(end)
  BY <1>2, <1>3 DEF CreateProposal, TypeOK, work, Pipelines, Waiting
<1>4. ASSUME NEW new \in [Paths -> {"none", "create", "modify"}], CreateDraft(new, end)
      PROVE  TypeOK'
  BY <1>2, <1>4 DEF CreateDraft, TypeOK, Pipelines, Waiting
<1>5. CASE ApplyDraft(end)
  <2>1. git' \in Checkouts /\ git'.log = git.log
    BY <1>5, WrittenType DEF ApplyDraft
  <2> QED
    BY <1>2, <1>5, <2>1 DEF ApplyDraft, TypeOK, work, Pipelines, Waiting
<1>6. CASE RunGates(end)
  <2>1. passed' \in BOOLEAN
    BY <1>6 DEF RunGates, OnRunBranch, FilesAsApplied
  <2> QED
    BY <1>2, <1>6, <2>1 DEF RunGates, TypeOK, Pipelines, Waiting
<1>7. CASE ProposeCommit(end)
  <2>1. target' \in Commits
    BY <1>7, Shapes DEF ProposeCommit, Branches
  <2> QED
    BY <1>2, <1>7, <2>1 DEF ProposeCommit, TypeOK, Pipelines, Waiting
<1> QED
  BY <1>1, <1>3, <1>4, <1>5, <1>6, <1>7

LEMMA ApplyTypes ==
  ASSUME TypeOK, Apply
  PROVE  TypeOK'
<1>1. ASSUME NEW answer \in {"content", "phrase", "death"}, ApplyProposal(answer) PROVE TypeOK'
  <2>1. pipeline' \in Pipelines /\ request' \in [Requests -> Waiting] /\ crashes' \in 0..MaxCrashes
    BY <1>1, ActorTypes DEF ApplyProposal
  <2>2. panel' \in {"untouched", "refused", "blocked", "open"}
    BY <1>1 DEF ApplyProposal, TypeOK
  <2> QED
    BY <1>1, <2>1, <2>2 DEF ApplyProposal, TypeOK, run, notes, work, Pipelines, Waiting
<1>2. ASSUME NEW some, NEW survives \in BOOLEAN, ApplyBreaksOff(some, survives) PROVE TypeOK'
  <2>1. pipeline' \in Pipelines /\ request' \in [Requests -> Waiting] /\ crashes' \in 0..MaxCrashes
    BY <1>2, ActorTypes DEF ApplyBreaksOff
  <2>2. git' \in Checkouts /\ git'.log = git.log
    BY <1>2, WrittenType DEF ApplyBreaksOff
  <2> QED
    BY <1>2, <2>1, <2>2 DEF ApplyBreaksOff, TypeOK, run, notes, work, Pipelines, Waiting
<1> QED
  BY <1>1, <1>2 DEF Apply

(* A request waits for something else, or leaves. *)
LEMMA WaitTypes ==
  ASSUME TypeOK, NEW q \in Requests
  PROVE  /\ \A wait \in Waits : Goes(q, wait) => request' \in [Requests -> Waiting]
         /\ Leaves(q) => request' \in [Requests -> Waiting]
<1>1. request \in [Requests -> Waiting] /\ request[q] \in Waiting
  BY Shapes
<1>2. ASSUME NEW wait \in Waits PROVE [request[q] EXCEPT !.wait = wait] \in Waiting
  BY <1>1 DEF Waiting
<1>3. Idle \in Waiting
  BY DEF Idle, Waiting, Waits
<1> QED
  BY <1>1, <1>2, <1>3 DEF Goes, Leaves

LEMMA CommittedType ==
  ASSUME TypeOK, Len(git.log) < MaxCommits
  PROVE  /\ Committed \in Checkouts /\ Len(Committed.log) = Len(git.log) + 1
         /\ Len(Committed.log) \in 1..MaxCommits
<1> DEFINE c == [tree |-> git.index, parent |-> git.tip[git.head]]
           n == Len(git.log) + 1
<1>1. c \in [tree : Trees, parent : Commits]
  BY Shapes
<1>2. n \in Commits /\ n \in 1..MaxCommits
  BY Shapes, Bounds DEF Commits
<1>3. Committed = [git EXCEPT !.log = Append(git.log, c), !.tip[git.head] = n]
  BY DEF Committed
<1> HIDE DEF c, n
<1>4. Append(git.log, c) \in Seq([tree : Trees, parent : Commits]) /\ Len(Append(git.log, c)) = Len(git.log) + 1
  BY <1>1, Shapes
<1>5. [git.tip EXCEPT ![git.head] = n] \in [Branches -> Commits]
  BY <1>2, Shapes
<1>6. Committed \in Checkouts /\ Committed.log = Append(git.log, c)
  BY <1>3, <1>4, <1>5 DEF TypeOK, Checkouts
<1> QED
  BY <1>2, <1>4, <1>6 DEF n

LEMMA GitTypes ==
  ASSUME TypeOK, NEW q \in Requests, Git(q)
  PROVE  TypeOK'
<1> DEFINE Same == UNCHANGED <<run, notes, completed, panel, work, pipeline, faults>>
<1>1. ASSUME Same, request' \in [Requests -> Waiting], git' \in Checkouts,
             Len(git'.log) \in 1..MaxCommits
      PROVE  TypeOK'
  BY <1>1 DEF TypeOK, run, notes, work, faults, Waiting
<1>2. CASE AskCommit(q)
  <2>1. [wait |-> "add", todo |-> Targets] \in Waiting
    BY DEF Waiting, Waits, Targets
  <2>2. request' \in [Requests -> Waiting]
    BY <1>2, <2>1, Shapes DEF AskCommit
  <2> QED
    BY <1>1, <1>2, <2>2 DEF AskCommit, TypeOK
<1>3. CASE CheckStaged(q) \/ AskPreparation(q) \/ FailRequest(q)
  <2>1. request' \in [Requests -> Waiting]
    BY <1>3, WaitTypes DEF CheckStaged, AskPreparation, FailRequest, Waits
  <2> QED
    BY <1>1, <1>3, <2>1 DEF CheckStaged, AskPreparation, FailRequest, TypeOK
<1>4. CASE GitCommit(q)
  <2>1. request' \in [Requests -> Waiting]
    BY <1>4, WaitTypes DEF GitCommit, Waits
  <2> QED
    BY <1>1, <1>4, <2>1, CommittedType DEF GitCommit
<1>5. ASSUME NEW p \in Paths, AddFile(q, p) PROVE TypeOK'
  <2>1. request[q] \in Waiting /\ request \in [Requests -> Waiting]
    BY Shapes
  <2>2. [wait |-> IF request[q].todo = {p} THEN "check" ELSE "add", todo |-> request[q].todo \ {p}]
          \in Waiting
    BY <2>1 DEF Waiting, Waits
  <2>3. request' \in [Requests -> Waiting]
    BY <1>5, <2>1, <2>2 DEF AddFile
  <2>4. git' \in Checkouts /\ git'.log = git.log
    BY <1>5 DEF AddFile, TypeOK, Checkouts, Trees
  <2> QED
    BY <1>1, <1>5, <2>3, <2>4 DEF AddFile, TypeOK
<1>6. ASSUME NEW end \in Ends, RecordCommit(q, end) PROVE TypeOK'
  <2>1. docs' \in [Documents -> Files] /\ status' \in Statuses /\ step' \in Steps
    <3>1. CASE end = "file"
      BY <1>6, <3>1 DEF RecordCommit, Unrecorded, TypeOK, Files, run
    <3>2. CASE end # "file"
      BY <1>6, <3>2 DEF RecordCommit, TypeOK, Files, Statuses, Steps
    <3> QED
      BY <3>1, <3>2
  <2>2. sha' \in Commits
    BY <1>6, Shapes DEF RecordCommit
  <2>3. pipeline' \in Pipelines /\ request' \in [Requests -> Waiting] /\ crashes' \in 0..MaxCrashes
    <3>1. CASE Dies
      BY <3>1, ActorTypes
    <3>2. CASE ~Dies
      BY <1>6, <3>2, WaitTypes DEF RecordCommit, TypeOK, Pipelines
    <3> QED
      BY <3>1, <3>2
  <2> QED
    BY <1>6, <2>1, <2>2, <2>3 DEF RecordCommit, TypeOK, Pipelines, Waiting
<1>7. ASSUME NEW end \in Ends, PreparePullRequest(q, end) PROVE TypeOK'
  <2>1. docs' \in [Documents -> Files] /\ status' \in Statuses /\ step' \in Steps
    BY <1>7, RecordTypes DEF PreparePullRequest, Documents, Steps
  <2>2. pipeline' \in Pipelines /\ request' \in [Requests -> Waiting] /\ crashes' \in 0..MaxCrashes
    <3>1. CASE Dies
      BY <3>1, ActorTypes
    <3>2. CASE ~Dies
      BY <1>7, <3>2, WaitTypes DEF PreparePullRequest, TypeOK, Pipelines
    <3> QED
      BY <3>1, <3>2
  <2> QED
    BY <1>7, <2>1, <2>2 DEF PreparePullRequest, TypeOK, work, Pipelines, Waiting
<1> QED
  BY <1>2, <1>3, <1>4, <1>5, <1>6, <1>7 DEF Git

LEMMA Element ==
  ASSUME NEW S, NEW s \in Seq(S), NEW n \in 1..Len(s)
  PROVE  s[n] \in S
  OBVIOUS

(* A commit has a tree. *)
LEMMA Logged ==
  ASSUME TypeOK, NEW c \in 1..Len(git.log)
  PROVE  git.log[c].tree \in Trees
<1> DEFINE All == [tree : Trees, parent : Commits]
<1>1. git.log \in Seq(All)
  BY Shapes
<1> HIDE DEF All
<1>2. git.log[c] \in All
  BY <1>1, Element
<1> QED
  BY <1>2 DEF All

LEMMA OutsideTypes ==
  ASSUME TypeOK, HeadExists, Outside
  PROVE  TypeOK'
<1>1. ASSUME Deed, git' \in Checkouts, Len(git'.log) \in 1..MaxCommits PROVE TypeOK'
  <2>1. deeds' \in 0..MaxDeeds /\ touched' \in BOOLEAN
    BY <1>1, Bounds DEF Deed, TypeOK
  <2> QED
    BY <1>1, <2>1 DEF Deed, TypeOK, run, notes, work, actors
<1>2. ASSUME NEW p \in Paths, NEW content \in {"base", "other"}, Edit(p, content) PROVE TypeOK'
  <2>1. git' \in Checkouts /\ git'.log = git.log
    BY <1>2 DEF Edit, TypeOK, Checkouts, Trees, Contents
  <2> QED
    BY <1>1, <1>2, <2>1 DEF Edit, TypeOK
<1>3. ASSUME NEW p \in Paths, Stage(p) PROVE TypeOK'
  <2>1. git' \in Checkouts /\ git'.log = git.log
    BY <1>3 DEF Stage, TypeOK, Checkouts, Trees
  <2> QED
    BY <1>1, <1>3, <2>1 DEF Stage, TypeOK
<1>4. CASE CommitElse
  BY <1>1, <1>4, CommittedType DEF CommitElse
<1>5. ASSUME NEW branch \in Branches, Switch(branch) PROVE TypeOK'
  <2> DEFINE there == git.log[git.tip[branch]].tree
             Changed(p) == git.tree[p] # HeadTree[p] \/ git.index[p] # HeadTree[p]
  <2>1. Deed
    BY <1>5 DEF Switch
  <2>2. git' = [git EXCEPT !.head = branch,
                  !.tree = [p \in Paths |-> IF Changed(p) THEN git.tree[p] ELSE there[p]],
                  !.index = [p \in Paths |-> IF Changed(p) THEN git.index[p] ELSE there[p]]]
    BY <1>5 DEF Switch
  <2>3. git.tip[branch] \in 1..Len(git.log)
    BY <1>5, Shapes DEF Switch, HeadExists
  <2>4. there \in Trees
    BY <2>3, Logged
  <2> HIDE DEF there, Changed
  <2>5. git' \in Checkouts /\ git'.log = git.log
    BY <2>2, <2>4 DEF TypeOK, Checkouts, Trees
  <2> QED
    BY <1>1, <2>1, <2>5 DEF TypeOK
<1> QED
  BY <1>2, <1>3, <1>4, <1>5 DEF Outside

LEMMA InitTypes == Init => TypeOK
<1> SUFFICES ASSUME Init PROVE TypeOK
  OBVIOUS
<1> USE DEF Init
<1>1. PICK tree \in [Paths -> {"absent", "base"}] :
        git = [tree |-> tree, index |-> tree, log |-> <<[tree |-> tree, parent |-> 0]>>,
               tip |-> [b \in Branches |-> IF b = "other" THEN 1 ELSE 0], head |-> "other"]
  OBVIOUS
<1>2. tree \in Trees /\ 0 \in Commits /\ 1 \in Commits
  BY Bounds DEF Trees, Contents, Commits
<1>3. [tree |-> tree, parent |-> 0] \in [tree : Trees, parent : Commits]
  BY <1>2
<1>4. git.log \in Seq([tree : Trees, parent : Commits]) /\ Len(git.log) = 1
  BY <1>1, <1>3
<1>5. git \in Checkouts
  BY <1>1, <1>2, <1>4 DEF Checkouts, Branches
<1>6. Len(git.log) \in 1..MaxCommits
  BY <1>4, Bounds
<1>7. /\ status \in Statuses /\ step \in Steps /\ docs \in [Documents -> Files]
      /\ verdicts \in [Reviewed -> Decisions \cup {"none"}]
      /\ request \in [Requests -> [wait : Waits, todo : SUBSET Paths]]
  BY DEF Statuses, Steps, Files, Waits, Idle
<1>8. entries \in [Paths -> {"none", "create", "modify"}] /\ deeds \in 0..MaxDeeds
      /\ crashes \in 0..MaxCrashes
  BY Bounds
<1> QED
  BY <1>2, <1>5, <1>6, <1>7, <1>8 DEF TypeOK

LEMMA StepTypes ==
  ASSUME TypeOK, HeadExists, [Next]_vars
  PROVE  TypeOK'
<1>1. ASSUME NEW action \in {"approve", "request_fix", "stop"}, Close(action) PROVE TypeOK'
  <2>1. status' \in Statuses /\ step' \in Steps /\ completed' \in BOOLEAN
    BY <1>1 DEF Close, Statuses, Steps, TypeOK
  <2> QED
    BY <1>1, <2>1 DEF Close, TypeOK, notes, work, actors, faults
<1>2. CASE Crash
  <2>1. pipeline' \in Pipelines /\ request' \in [Requests -> Waiting] /\ crashes' \in 0..MaxCrashes
    BY <1>2, ActorTypes DEF Crash
  <2> QED
    BY <1>2, <2>1 DEF Crash, TypeOK, run, notes, work, Pipelines, Waiting
<1>3. CASE UNCHANGED vars
  BY <1>3 DEF vars, TypeOK
<1> QED
  BY <1>1, <1>2, <1>3, StartTypes, PipelineTypes, ReviewTypes, DocumentTypes, ApplyTypes, GitTypes,
     OutsideTypes DEF Next

(* The checkout, step by step: files change, HEAD moves to a branch that   *)
(* exists, the branch of the run is made, or a commit is.                  *)
LEMMA HeadStep ==
  ASSUME TypeOK, HeadExists, [Next]_vars
  PROVE  HeadExists'
<1>1. Len(git.log) \in Nat /\ git.head \in Branches /\ git.tip \in [Branches -> Commits]
      /\ "run" \in Branches /\ git \in Checkouts
  <2>1. "run" \in Branches
    BY DEF Branches
  <2> QED
    BY <2>1, Shapes DEF TypeOK
<1>2. CASE git'.tip = git.tip /\ git'.log = git.log /\ git'.head \in Branches /\ git.tip[git'.head] # 0
  BY <1>2 DEF HeadExists
<1>3. CASE git' = [git EXCEPT !.tip["run"] = git.tip[git.head], !.head = "run"]
  <2>1. git'.tip = [git.tip EXCEPT !["run"] = git.tip[git.head]] /\ git'.head = "run"
        /\ git'.log = git.log
    BY <1>1, <1>3 DEF Checkouts
  <2> QED
    BY <1>1, <2>1 DEF HeadExists
<1>4. CASE git' = Committed /\ Len(git.log) < MaxCommits
  <2>1. git'.tip = [git.tip EXCEPT ![git.head] = Len(git.log) + 1] /\ git'.head = git.head
        /\ Len(git'.log) = Len(git.log) + 1
    BY <1>1, <1>4, CommittedType DEF Committed, Checkouts
  <2> QED
    BY <1>1, <2>1 DEF HeadExists
<1>5. CASE git' = git
  BY <1>5 DEF HeadExists
<1>6. ASSUME Pipeline PROVE HeadExists'
  BY <1>3, <1>5, <1>6 DEF Pipeline, VerifyRepo, AwaitReview, RefreshEvidence, FailPipeline,
                          ImplementArtifact, WorkerDies, MakeBranch
<1>7. ASSUME NEW some, git' = Written(some) PROVE HeadExists'
  BY <1>1, <1>2, <1>7, WrittenType DEF HeadExists
<1>8. ASSUME Document PROVE HeadExists'
  BY <1>5, <1>7, <1>8 DEF Document, CreateProposal, CreateDraft, ApplyDraft, RunGates, ProposeCommit
<1>9. ASSUME Apply PROVE HeadExists'
  BY <1>5, <1>7, <1>9 DEF Apply, ApplyProposal, ApplyBreaksOff
<1>10. ASSUME NEW p \in Paths, NEW q \in Requests, AddFile(q, p) PROVE HeadExists'
  BY <1>1, <1>2, <1>10 DEF AddFile, Checkouts, HeadExists
<1>11. ASSUME NEW q \in Requests, Git(q) PROVE HeadExists'
  BY <1>4, <1>5, <1>10, <1>11 DEF Git, AskCommit, CheckStaged, GitCommit, AskPreparation,
                                  FailRequest, RecordCommit, PreparePullRequest
<1>12. ASSUME Outside PROVE HeadExists'
  <2>1. ASSUME NEW p \in Paths, NEW content, Edit(p, content) \/ Stage(p) PROVE HeadExists'
    BY <1>1, <1>2, <2>1 DEF Edit, Stage, Checkouts, HeadExists
  <2>2. ASSUME NEW branch \in Branches, Switch(branch) PROVE HeadExists'
    <3>1. git.tip[branch] # 0 /\ git'.head = branch /\ git'.tip = git.tip /\ git'.log = git.log
      BY <1>1, <2>2 DEF Switch, Checkouts
    <3> QED
      BY <1>2, <3>1
  <2> QED
    BY <1>4, <1>12, <2>1, <2>2 DEF Outside, CommitElse
<1>13. ASSUME Start \/ Review \/ Crash \/ (\E action \in {"approve", "request_fix", "stop"} : Close(action))
       PROVE  HeadExists'
  BY <1>5, <1>13 DEF Start, PrepareRun, RequestApproval, StartExecution, Review, ReviewArtifact,
     ReviewProposal, ReviewDraft, ReviewReport, Decides, Crash, Close
<1>14. CASE UNCHANGED vars
  BY <1>5, <1>14 DEF vars
<1> QED
  BY <1>6, <1>8, <1>9, <1>11, <1>12, <1>13, <1>14 DEF Next

LEMMA InitHead == Init => HeadExists
<1> SUFFICES ASSUME Init PROVE HeadExists
  OBVIOUS
<1>1. PICK tree : git = [tree |-> tree, index |-> tree, log |-> <<[tree |-> tree, parent |-> 0]>>,
             tip |-> [b \in Branches |-> IF b = "other" THEN 1 ELSE 0], head |-> "other"]
  BY DEF Init
<1>2. Len(git.log) = 1
  BY <1>1
<1> QED
  BY <1>1, <1>2 DEF HeadExists, Branches

(* Every variable keeps its shape, whatever is prepared, reviewed and      *)
(* committed, and whoever dies or uses the checkout meanwhile.             *)
THEOREM VeraTypes == Spec => []TypeOK
<1>1. Init => TypeOK /\ HeadExists
  BY InitTypes, InitHead
<1>2. TypeOK /\ HeadExists /\ [Next]_vars => TypeOK' /\ HeadExists'
  BY StepTypes, HeadStep
<1> QED
  BY <1>1, <1>2, PTL DEF Spec

-----------------------------------------------------------------------------
(* A run that was approved as a whole *)

LEMMA PastStartStep ==
  ASSUME PastStart, [Next]_vars
  PROVE  PastStart'
<1>1. ASSUME Start PROVE PastStart'
  BY <1>1 DEF Start, PrepareRun, RequestApproval, StartExecution, PastStart, run
<1>2. ASSUME Pipeline PROVE PastStart'
  BY <1>2 DEF Pipeline, VerifyRepo, AwaitReview, RefreshEvidence, FailPipeline, ImplementArtifact,
              WorkerDies, PastStart, run
<1>3. ASSUME Review PROVE PastStart'
  BY <1>3 DEF Review, ReviewArtifact, ReviewProposal, ReviewDraft, ReviewReport, Decides, PastStart
<1>4. ASSUME Document PROVE PastStart'
  BY <1>4 DEF Document, CreateProposal, CreateDraft, ApplyDraft, RunGates, ProposeCommit, Writes,
              Record, PastStart, run
<1>5. ASSUME Apply PROVE PastStart'
  BY <1>5 DEF Apply, ApplyProposal, ApplyBreaksOff, PastStart, run
<1>6. ASSUME NEW q \in Requests, Git(q) PROVE PastStart'
  BY <1>6 DEF Git, AskCommit, AddFile, CheckStaged, GitCommit, RecordCommit, AskPreparation,
              PreparePullRequest, FailRequest, Record, PastStart, run
<1>7. ASSUME NEW action, Close(action) PROVE PastStart'
  BY <1>7 DEF Close, PastStart
<1>8. ASSUME Outside \/ Crash \/ UNCHANGED vars PROVE PastStart'
  BY <1>8 DEF Outside, Edit, Stage, CommitElse, Switch, Deed, Crash, vars, PastStart, run
<1> QED
  BY <1>1, <1>2, <1>3, <1>4, <1>5, <1>6, <1>7, <1>8 DEF Next

StartsNothing ==
  /\ verdicts' = verdicts /\ started' = started
  /\ \A q \in Requests : At(q, "idle") => request'[q].wait = "idle"
  /\ docs' # docs => pipeline # "idle" \/ \E q \in Requests : ~At(q, "idle")

LEMMA StartsNothingStep ==
  ASSUME TypeOK, PastStart, completed, [Next]_vars
  PROVE  StartsNothing
<1>1. ASSUME Dies \/ Lives, NEW q \in Requests, At(q, "idle") PROVE request'[q].wait = "idle"
  BY <1>1 DEF Dies, Lives, actors, Idle, At
<1>2. ASSUME Start PROVE StartsNothing
  BY <1>1, <1>2 DEF Start, PrepareRun, RequestApproval, StartExecution, Answers, PastStart,
                    StartsNothing, notes
<1>3. ASSUME Pipeline PROVE StartsNothing
  BY <1>1, <1>3 DEF Pipeline, VerifyRepo, AwaitReview, RefreshEvidence, FailPipeline,
                    ImplementArtifact, WorkerDies, StartsNothing, notes, At
<1>4. ASSUME Review PROVE FALSE
  BY <1>4 DEF Review, ReviewArtifact, ArtifactReviewReady, ReviewProposal, ProposalReviewReady,
     ProposalReviewStands, ReviewDraft, DraftReviewReady, DraftReviewStands, ReviewReport,
     ReportReviewReady, ReportReviewStands, WaitsAt
<1>5. ASSUME Document PROVE FALSE
  BY <1>5 DEF Document, CreateProposal, ProposalReady, ProposalStands, CreateDraft, DraftReady,
     DraftStands, ApplyDraft, ApplicationReady, ApplicationStands, RunGates, GatesReady, GatesStand,
     ProposeCommit, ProposalOfCommitReady, CommitProposalStands, WaitsAt
<1>6. ASSUME Apply PROVE StartsNothing
  BY <1>1, <1>6 DEF Apply, ApplyProposal, ApplyBreaksOff, StartsNothing, notes
<1>7. ASSUME NEW q \in Requests, Git(q) PROVE StartsNothing
  <2>1. request \in [Requests -> Waiting]
    BY Shapes
  <2>2. CASE AskCommit(q) \/ AskPreparation(q)
    BY <2>2 DEF AskCommit, CommitReady, CommitStands, AskPreparation, PreparationStands, WaitsAt
  <2>3. ~AskCommit(q) /\ ~AskPreparation(q) => ~At(q, "idle") /\ verdicts' = verdicts /\ started' = started
    BY <1>7 DEF Git, AddFile, CheckStaged, GitCommit, RecordCommit, PreparePullRequest, FailRequest,
                At, notes
  <2>4. ASSUME NEW r \in Requests, At(r, "idle"), ~AskCommit(q), ~AskPreparation(q)
        PROVE  request'[r].wait = "idle"
    <3>1. r # q
      BY <2>3, <2>4
    <3>2. CASE Dies
      BY <1>1, <2>4, <3>2
    <3>3. CASE ~Dies
      BY <1>7, <2>1, <2>4, <3>1, <3>3 DEF Git, AddFile, CheckStaged, GitCommit, RecordCommit,
         PreparePullRequest, FailRequest, Goes, Leaves, At
    <3> QED
      BY <3>2, <3>3
  <2> QED
    BY <2>2, <2>3, <2>4 DEF StartsNothing
<1>8. ASSUME NEW action, Close(action) PROVE StartsNothing
  BY <1>8 DEF Close, StartsNothing, notes, actors, At
<1>9. ASSUME Outside \/ Crash \/ UNCHANGED vars PROVE StartsNothing
  BY <1>1, <1>9 DEF Outside, Edit, Stage, CommitElse, Switch, Deed, Crash, vars, StartsNothing, notes,
                    actors, At
<1> QED
  BY <1>2, <1>3, <1>4, <1>5, <1>6, <1>7, <1>8, <1>9 DEF Next

(* A run that was approved as a whole starts no further step of the        *)
(* bridge: the completion is an event that nothing takes back, and no run  *)
(* is approved before its start.                                           *)
THEOREM ApprovedStartsNothing == Spec => ApprovedRunStartsNothing
<1>1. Init => PastStart
  BY DEF Init, PastStart
<1>2. PastStart /\ [Next]_vars => PastStart'
  BY PastStartStep
<1>3. TypeOK /\ PastStart /\ [Next]_vars => [completed => StartsNothing]_vars
  BY StartsNothingStep
<1> QED
  BY <1>1, <1>2, <1>3, VeraTypes, PTL DEF Spec, ApprovedRunStartsNothing, StartsNothing

-----------------------------------------------------------------------------
(* What a commit rests on *)

(* Commits are appended to the log. *)
Grows == git'.log = git.log \/ \E c : git'.log = Append(git.log, c)

LEMMA GrowsKeeps ==
  ASSUME TypeOK, Grows
  PROVE  /\ Len(git.log) <= Len(git'.log) /\ Len(git'.log) \in Nat
         /\ \A c \in 1..Len(git.log) : git'.log[c] = git.log[c]
  BY Shapes DEF Grows

LEMMA LogStep ==
  ASSUME TypeOK, [Next]_vars
  PROVE  Grows
<1>1. git \in Checkouts
  BY DEF TypeOK
<1>2. CASE git'.log = git.log
  BY <1>2 DEF Grows
<1>3. CASE git' = git
  BY <1>3 DEF Grows
<1>4. CASE git' = Committed
  <2>1. git'.log = Append(git.log, [tree |-> git.index, parent |-> git.tip[git.head]])
    BY <1>1, <1>4 DEF Committed, Checkouts
  <2> QED
    BY <2>1 DEF Grows
<1>5. ASSUME NEW made \in BOOLEAN, MakeBranch(made) PROVE git'.log = git.log
  BY <1>5, MakeBranchTypes
<1>6. ASSUME NEW some, git' = Written(some) PROVE git'.log = git.log
  BY <1>6, WrittenType
<1>7. ASSUME Pipeline PROVE Grows
  BY <1>2, <1>3, <1>5, <1>7 DEF Pipeline, VerifyRepo, AwaitReview, RefreshEvidence, FailPipeline,
                                ImplementArtifact, WorkerDies
<1>8. ASSUME Document \/ Apply PROVE Grows
  BY <1>2, <1>3, <1>6, <1>8 DEF Document, CreateProposal, CreateDraft, ApplyDraft, RunGates,
                                ProposeCommit, Apply, ApplyProposal, ApplyBreaksOff
<1>9. ASSUME NEW q \in Requests, Git(q) PROVE Grows
  <2>1. ASSUME NEW p, AddFile(q, p) PROVE git'.log = git.log
    BY <1>1, <2>1 DEF AddFile, Checkouts
  <2> QED
    BY <1>2, <1>3, <1>4, <1>9, <2>1 DEF Git, AskCommit, CheckStaged, GitCommit, AskPreparation,
                                    FailRequest, RecordCommit, PreparePullRequest
<1>10. ASSUME Outside PROVE Grows
  <2>1. ASSUME NEW p, NEW content, Edit(p, content) \/ Stage(p) PROVE git'.log = git.log
    BY <1>1, <2>1 DEF Edit, Stage, Checkouts
  <2>2. ASSUME NEW branch, Switch(branch) PROVE git'.log = git.log
    BY <1>1, <2>2 DEF Switch, Checkouts
  <2> QED
    BY <1>2, <1>4, <1>10, <2>1, <2>2 DEF Outside, CommitElse
<1>11. ASSUME Start \/ Review \/ Crash \/ (\E action \in {"approve", "request_fix", "stop"} : Close(action))
       PROVE  Grows
  BY <1>3, <1>11 DEF Start, PrepareRun, RequestApproval, StartExecution, Review, ReviewArtifact,
     ReviewProposal, ReviewDraft, ReviewReport, Decides, Crash, Close
<1>12. CASE UNCHANGED vars
  BY <1>3, <1>12 DEF vars
<1> QED
  BY <1>7, <1>8, <1>9, <1>10, <1>11, <1>12 DEF Next

(* A request that was not committing does not begin to. *)
NobodyBegins == \A q \in Requests : request'[q] = request[q] \/ ~Committing(q)'

LEMMA DeadOrAlive ==
  ASSUME Dies \/ Lives
  PROVE  NobodyBegins
  BY DEF Dies, Lives, actors, NobodyBegins, Committing, Idle

(* A step that settles nothing new. *)
LEMMA SettledKept ==
  ASSUME TypeOK, Settled, Grows, NobodyBegins, target' = target,
         docs'["commit"] # "none" => docs["commit"] # "none",
         docs["commit_proposal"] # "none" <=> docs'["commit_proposal"] # "none",
         docs["application"] # "none" => docs'["application"] # "none",
         Noted("draft") => Noted("draft")',
         verdicts' = verdicts
  PROVE  Settled'
<1>1. docs["commit_proposal"] # "none" => target' \in 1..Len(git'.log)
  BY GrowsKeeps, Shapes DEF Settled
<1>2. \A q \in Requests : Committing(q)' => Committing(q)
  BY DEF NobodyBegins, Committing
<1> QED
  BY <1>1, <1>2 DEF Settled, Approved

(* A step that no commit under way notices. *)
Calm ==
  /\ NobodyBegins
  /\ (\E q \in Requests : Committing(q)) => git' = git
  /\ docs["commit_proposal"] # "none" => entries' = entries /\ target' = target
  /\ docs'["commit"] = docs["commit"]
  /\ sha' = sha /\ touched' = touched

LEMMA StartCalm ==
  ASSUME TypeOK, Settled, Start, Grows
  PROVE  Calm /\ Settled'
<1>1. PICK end \in Ends : PrepareRun(end) \/ RequestApproval(end) \/ StartExecution(end)
  BY DEF Start
<1>2. UNCHANGED <<docs, verdicts, work, git, touched>>
  BY <1>1 DEF PrepareRun, RequestApproval, StartExecution, notes
<1>3. NobodyBegins
  BY <1>1, DeadOrAlive DEF PrepareRun, RequestApproval, StartExecution, Answers, NobodyBegins
<1> QED
  BY <1>2, <1>3, SettledKept DEF Calm, work, Noted

LEMMA PipelineSettled ==
  ASSUME TypeOK, Settled, Pipeline, Grows
  PROVE  /\ UNCHANGED <<verdicts, work, touched>> /\ docs'["commit"] = docs["commit"]
         /\ NobodyBegins /\ Settled'
<1>1. UNCHANGED <<verdicts, work, touched>>
  BY DEF Pipeline, VerifyRepo, AwaitReview, RefreshEvidence, FailPipeline, ImplementArtifact,
         WorkerDies, notes, faults
<1>2. docs' = docs \/ docs' = [docs EXCEPT !["artifact"] = "recorded"]
                   \/ docs' = [docs EXCEPT !["artifact"] = "written"]
  BY DEF Pipeline, VerifyRepo, AwaitReview, RefreshEvidence, FailPipeline, ImplementArtifact,
         WorkerDies, notes
<1>3. docs'["commit"] = docs["commit"] /\ docs'["commit_proposal"] = docs["commit_proposal"]
      /\ docs'["application"] = docs["application"] /\ docs'["draft"] = docs["draft"]
  BY <1>2, Shapes DEF Documents
<1>4. NobodyBegins
  BY DeadOrAlive DEF Pipeline, VerifyRepo, AwaitReview, RefreshEvidence, FailPipeline,
     ImplementArtifact, WorkerDies, NobodyBegins
<1> QED
  BY <1>1, <1>3, <1>4, SettledKept DEF work, Noted

(* The branch of the run is made once, and a commit is made on it.         *)
LEMMA PipelineCalm ==
  ASSUME TypeOK, HeadExists, Settled, Pipeline, Grows,
         \A q \in Requests : Committing(q) => OnRunBranch
  PROVE  Calm /\ Settled'
<1>1. ASSUME NEW q \in Requests, Committing(q) PROVE git' = git
  <2>1. git.tip["run"] # 0
    BY <1>1 DEF HeadExists, OnRunBranch
  <2>2. ASSUME NEW made \in BOOLEAN, MakeBranch(made) PROVE git' = git
    BY <2>1, <2>2 DEF MakeBranch
  <2> QED
    BY <2>2 DEF Pipeline, VerifyRepo, AwaitReview, RefreshEvidence, FailPipeline,
       ImplementArtifact, WorkerDies
<1> QED
  BY <1>1, PipelineSettled DEF Calm, work

LEMMA ReviewCalm ==
  ASSUME TypeOK, Settled, Review, Grows
  PROVE  Calm /\ Settled'
<1>1. PICK verdict \in Decisions, end \in Ends :
        ReviewArtifact(verdict, end) \/ ReviewProposal(verdict, end)
          \/ ReviewDraft(verdict, end) \/ ReviewReport(verdict, end)
  BY DEF Review
<1>2. UNCHANGED <<docs, work, git, touched>> /\ (Dies \/ Lives)
  BY <1>1 DEF ReviewArtifact, ReviewProposal, ReviewDraft, ReviewReport, Decides, Answers
<1>3. NobodyBegins
  BY <1>2, DeadOrAlive
<1>4. Calm
  BY <1>2, <1>3 DEF Calm, work
<1>5. ASSUME NEW d \in Reviewed, NEW steps, Decides(d, verdict, steps, end)
      PROVE  verdicts' = [verdicts EXCEPT ![d] = verdict] /\ verdicts[d] = "none"
  BY <1>5 DEF Decides
<1>6. /\ Approved("draft")' => Noted("draft")'
      /\ Approved("report")' => Approved("draft")' /\ docs'["application"] # "none"
      /\ Approved("report") => Approved("report")'
  <2> USE Shapes DEF Approved, Noted, Recorded, Reviewed, Settled
  <2>1. CASE ReviewArtifact(verdict, end)
    BY <1>2, <1>5, <2>1 DEF ReviewArtifact
  <2>2. CASE ReviewProposal(verdict, end)
    BY <1>2, <1>5, <2>2 DEF ReviewProposal
  <2>3. CASE ReviewDraft(verdict, end)
    BY <1>2, <1>5, <2>3 DEF ReviewDraft, DraftReviewReady
  <2>4. CASE ReviewReport(verdict, end)
    BY <1>2, <1>5, <2>4 DEF ReviewReport, ReportReviewReady, ReportReviewStands, ReviewsApproved
  <2> QED
    BY <1>1, <2>1, <2>2, <2>3, <2>4
<1>7. \A q \in Requests : Committing(q)' => Committing(q)
  BY <1>3 DEF NobodyBegins, Committing
<1> QED
  BY <1>2, <1>4, <1>6, <1>7 DEF Settled, work

(* What a handler that writes its document leaves of the others. *)
LEMMA RecordKeeps ==
  ASSUME TypeOK, NEW d \in Documents, NEW next, NEW end, Record(d, next, end)
  PROVE  /\ docs'[d] # "none" /\ (Noted(d) => Noted(d)')
         /\ \A e \in Documents \ {d} : docs'[e] = docs[e]
  BY Shapes DEF Record, Unrecorded, Noted

(* Nothing is committed before the patch was applied. *)
LEMMA BeforeApplication ==
  ASSUME Settled, docs["application"] = "none" \/ ~Noted("draft")
  PROVE  /\ docs["commit_proposal"] = "none" /\ docs["commit"] = "none"
         /\ \A q \in Requests : ~Committing(q)
  BY DEF Settled

LEMMA DocumentCalm ==
  ASSUME TypeOK, HeadExists, Settled, Document, Grows
  PROVE  Calm /\ Settled'
<1> USE DEF Documents
<1>1. PICK end \in Ends :
        \/ CreateProposal(end)
        \/ \E new \in [Paths -> {"none", "create", "modify"}] : CreateDraft(new, end)
        \/ ApplyDraft(end) \/ RunGates(end) \/ ProposeCommit(end)
  BY DEF Document
<1>2. UNCHANGED <<verdicts, sha, touched>>
  BY <1>1 DEF CreateProposal, CreateDraft, ApplyDraft, RunGates, ProposeCommit, work
<1>3. NobodyBegins
  BY <1>1, DeadOrAlive DEF CreateProposal, CreateDraft, ApplyDraft, RunGates, ProposeCommit, Writes
<1>4. CASE CreateProposal(end) \/ RunGates(end)
  <2>1. UNCHANGED <<git, entries, target>>
    BY <1>4 DEF CreateProposal, RunGates, work
  <2>2. /\ docs'["draft"] = docs["draft"] /\ docs'["application"] = docs["application"]
        /\ docs'["commit_proposal"] = docs["commit_proposal"] /\ docs'["commit"] = docs["commit"]
    BY <1>4, RecordKeeps DEF CreateProposal, RunGates, Writes
  <2> QED
    BY <1>2, <1>3, <2>1, <2>2, SettledKept DEF Calm, Noted
<1>5. CASE \E new \in [Paths -> {"none", "create", "modify"}] : CreateDraft(new, end)
  <2>1. UNCHANGED <<git, target>> /\ ~Noted("draft") /\ Record("draft", "draft_ready", end)
    BY <1>5 DEF CreateDraft, DraftReady, DraftStands, Writes
  <2>2. /\ docs'["application"] = docs["application"]
        /\ docs'["commit_proposal"] = docs["commit_proposal"] /\ docs'["commit"] = docs["commit"]
    BY <2>1, RecordKeeps
  <2> QED
    BY <1>2, <1>3, <2>1, <2>2, SettledKept, BeforeApplication DEF Calm
<1>6. CASE ApplyDraft(end)
  <2>1. UNCHANGED <<entries, target>> /\ docs["application"] = "none"
        /\ Record("application", "patch_applied", end)
    BY <1>6 DEF ApplyDraft, ApplicationReady, ApplicationUntried, Writes, work
  <2>2. /\ docs'["draft"] = docs["draft"]
        /\ docs'["commit_proposal"] = docs["commit_proposal"] /\ docs'["commit"] = docs["commit"]
    BY <2>1, RecordKeeps
  <2> QED
    BY <1>2, <1>3, <2>1, <2>2, SettledKept, BeforeApplication DEF Calm, Noted
<1>7. CASE ProposeCommit(end)
  <2>1. UNCHANGED <<git, entries>> /\ docs["commit_proposal"] = "none" /\ Approved("report")
        /\ OnRunBranch /\ target' = git.tip["run"]
        /\ Record("commit_proposal", "commit_proposed", end)
    BY <1>7 DEF ProposeCommit, ProposalOfCommitReady, CommitProposalStands, Writes
  <2>2. /\ docs'["draft"] = docs["draft"] /\ docs'["application"] = docs["application"]
        /\ docs'["commit"] = docs["commit"]
    BY <2>1, RecordKeeps
  <2>3. Calm
    BY <1>2, <1>3, <2>1, <2>2 DEF Calm
  <2>4. target' \in 1..Len(git'.log)
    <3>1. git.tip["run"] \in 0..Len(git.log) /\ git.tip["run"] # 0
      BY <2>1 DEF HeadExists, OnRunBranch, Branches
    <3> QED
      BY <2>1, <3>1, Shapes
  <2>5. docs["commit"] = "none" /\ \A q \in Requests : ~Committing(q)
    BY <2>1 DEF Settled
  <2>6. \A q \in Requests : ~Committing(q)'
    BY <1>3, <2>5 DEF NobodyBegins, Committing
  <2>7. Approved("report")' /\ (Approved("draft")' => Noted("draft")')
        /\ Approved("draft")' /\ docs'["application"] # "none"
    BY <1>2, <2>1, <2>2 DEF Settled, Approved, Noted
  <2> QED
    BY <2>2, <2>3, <2>4, <2>5, <2>6, <2>7 DEF Settled
<1> QED
  BY <1>1, <1>4, <1>5, <1>6, <1>7

LEMMA ApplyCalm ==
  ASSUME TypeOK, Settled, Apply, Grows
  PROVE  Calm /\ Settled'
<1>1. UNCHANGED <<docs, verdicts, work, touched>> /\ (Dies \/ Lives)
  BY DEF Apply, ApplyProposal, ApplyBreaksOff, notes
<1>2. git' = git \/ docs["application"] = "none"
  BY DEF Apply, ApplyProposal, ApplyBreaksOff, ApplicationReady, ApplicationUntried
<1>3. NobodyBegins
  BY <1>1, DeadOrAlive
<1> QED
  BY <1>1, <1>2, <1>3, SettledKept, BeforeApplication DEF Calm, work, Noted

LEMMA CloseCalm ==
  ASSUME TypeOK, Settled, Grows, Crash \/ \E action : Close(action)
  PROVE  Calm /\ Settled'
<1>1. UNCHANGED <<docs, verdicts, work, touched, git>>
  BY DEF Crash, Close, notes, faults
<1>2. NobodyBegins
  BY DeadOrAlive DEF Crash, Close, actors, NobodyBegins
<1> QED
  BY <1>1, <1>2, SettledKept DEF Calm, work, Noted

(* A request that waits for nothing of a commit. *)
LEMMA AsideCalm ==
  ASSUME TypeOK, Settled, Grows, NEW q \in Requests,
         AskPreparation(q) \/ FailRequest(q) \/ (\E end \in Ends : PreparePullRequest(q, end))
  PROVE  Calm /\ Settled'
<1>1. UNCHANGED <<verdicts, work, git, touched>>
  BY DEF AskPreparation, FailRequest, PreparePullRequest, notes, faults
<1>2. NobodyBegins
  <2>1. Goes(q, "inspect") \/ Leaves(q) => NobodyBegins
    BY Shapes DEF Goes, Leaves, Idle, NobodyBegins, Committing, Waiting
  <2> QED
    BY <2>1, DeadOrAlive DEF AskPreparation, FailRequest, PreparePullRequest
<1>3. /\ docs'["draft"] = docs["draft"] /\ docs'["application"] = docs["application"]
      /\ docs'["commit_proposal"] = docs["commit_proposal"] /\ docs'["commit"] = docs["commit"]
  BY RecordKeeps DEF AskPreparation, FailRequest, PreparePullRequest, notes, Documents
<1> QED
  BY <1>1, <1>2, <1>3, SettledKept DEF Calm, work, Noted

(* The commits of the log stay what they are. *)
LEMMA AsApprovedKept ==
  ASSUME TypeOK, Settled, Grows, NEW c, AsApproved(c), docs["commit_proposal"] # "none",
         entries' = entries, target' = target
  PROVE  c \in 1..Len(git'.log) /\ git'.log[c].parent = target'
         /\ git'.log[c].tree =
              [p \in Paths |-> IF p \in Targets' THEN "draft" ELSE git'.log[target'].tree[p]]
<1>1. target \in 1..Len(git.log) /\ c \in 1..Len(git.log)
  BY DEF Settled, AsApproved
<1>2. git'.log[c] = git.log[c] /\ git'.log[target] = git.log[target]
  BY <1>1, GrowsKeeps
<1>3. c \in 1..Len(git'.log)
  BY <1>1, GrowsKeeps, Shapes
<1>4. Targets' = Targets
  BY DEF Targets
<1> QED
  BY <1>2, <1>3, <1>4 DEF AsApproved

LEMMA CalmKeeps ==
  ASSUME IInv, Calm, Grows
  PROVE  /\ ~touched' => \A q \in Requests : Undisturbed(q)'
         /\ ~touched' /\ Recorded("commit")' => AsApproved(sha)'
<1>1. ASSUME NEW q \in Requests, ~touched' PROVE Undisturbed(q)'
  <2>1. CASE ~Committing(q)'
    BY <2>1 DEF Undisturbed, Committing, At
  <2>2. CASE Committing(q)'
    <3>1. request'[q] = request[q] /\ Committing(q)
      BY <2>2 DEF Calm, NobodyBegins, Committing
    <3>2. git' = git /\ entries' = entries /\ target' = target
      BY <3>1 DEF Calm, IInv, Settled
    <3>3. Undisturbed(q)
      BY <1>1 DEF IInv, Calm
    <3> QED
      BY <3>1, <3>2, <3>3 DEF Undisturbed, Committing, At, OnRunBranch, FilesAsApplied, CommitMade,
         AsApproved, Staged, HeadTree, Targets, Drafted
  <2> QED
    BY <2>1, <2>2
<1>2. ASSUME ~touched', Recorded("commit")' PROVE AsApproved(sha)'
  <2>1. AsApproved(sha) /\ docs["commit_proposal"] # "none" /\ sha' = sha
    BY <1>2 DEF IInv, Calm, Recorded, Settled
  <2>2. entries' = entries /\ target' = target
    BY <2>1 DEF Calm
  <2> QED
    BY <2>1, <2>2, AsApprovedKept DEF AsApproved, IInv
<1> QED
  BY <1>1, <1>2

-----------------------------------------------------------------------------
(* The commit, command by command *)

(* The commands touch neither the notes nor what they rest on. *)
Command ==
  UNCHANGED <<docs, verdicts, entries, target, sha, touched>>

(* What a commit was approved for does not change under a command. *)
LEMMA CommandKeeps ==
  ASSUME IInv, Command, Grows
  PROVE  ~touched' /\ Recorded("commit")' => AsApproved(sha)'
<1> SUFFICES ASSUME ~touched', Recorded("commit")' PROVE AsApproved(sha)'
  OBVIOUS
<1>1. AsApproved(sha) /\ docs["commit_proposal"] # "none" /\ sha' = sha
  BY DEF IInv, Command, Recorded, Settled
<1> QED
  BY <1>1, AsApprovedKept DEF AsApproved, IInv, Command

LEMMA CommandSettled ==
  ASSUME IInv, Command, Grows, docs["commit_proposal"] # "none"
  PROVE  Settled'
<1>1. target' \in 1..Len(git'.log)
  BY GrowsKeeps, Shapes DEF IInv, Settled, Command
<1> QED
  BY <1>1 DEF IInv, Settled, Command, Approved, Noted

LEMMA AskCommitKeeps ==
  ASSUME IInv, NEW q \in Requests, AskCommit(q), Grows
  PROVE  Settled' /\ (~touched' => \A r \in Requests : Undisturbed(r)') /\ Command
<1>1. Command /\ git' = git
  BY DEF AskCommit, Command, notes, work, faults
<1>2. docs["commit_proposal"] # "none" /\ OnRunBranch /\ FilesAsApplied /\ git.tip["run"] = target
  BY DEF AskCommit, CommitReady, HeadAsProposed, Recorded
<1>3. request \in [Requests -> Waiting]
  BY Shapes DEF IInv
<1>4. request'[q] = [wait |-> "add", todo |-> Targets]
      /\ \A r \in Requests \ {q} : request'[r] = request[r]
  BY <1>3 DEF AskCommit
<1>5. ASSUME NEW r \in Requests, ~touched' PROVE Undisturbed(r)'
  <2> USE DEF Undisturbed, Committing, At, OnRunBranch, FilesAsApplied, CommitMade,
              AsApproved, Staged, HeadTree, Targets, Drafted, Command
  <2>1. CASE r = q
    BY <1>1, <1>2, <1>4, <2>1
  <2>2. CASE r # q
    <3>1. Undisturbed(r)
      BY <1>1, <1>5 DEF IInv
    <3> QED
      BY <1>1, <1>4, <2>2, <3>1
  <2> QED
    BY <2>1, <2>2
<1> QED
  BY <1>1, <1>2, <1>5, CommandSettled

(* An approved file is staged already, or is staged as approved. *)
LEMMA AddFileKeeps ==
  ASSUME IInv, NEW q \in Requests, NEW p \in Paths, AddFile(q, p), Grows
  PROVE  Settled' /\ (~touched' => \A r \in Requests : Undisturbed(r)') /\ Command
<1>1. Command /\ At(q, "add") /\ p \in request[q].todo
  BY DEF AddFile, Command, notes, work, faults
<1>2. TypeOK /\ docs["commit_proposal"] # "none" /\ target \in 1..Len(git.log)
  BY <1>1 DEF IInv, Settled, Committing, At
<1>3. request \in [Requests -> Waiting] /\ git \in Checkouts /\ git.index \in Trees
  BY <1>2, Shapes DEF TypeOK
<1>4. /\ git'.tree = git.tree /\ git'.log = git.log /\ git'.tip = git.tip /\ git'.head = git.head
      /\ git'.index = [git.index EXCEPT ![p] = git.tree[p]]
  BY <1>3 DEF AddFile, Checkouts
<1>5. /\ request'[q] = [wait |-> IF request[q].todo = {p} THEN "check" ELSE "add",
                        todo |-> request[q].todo \ {p}]
      /\ \A r \in Requests \ {q} : request'[r] = request[r]
  BY <1>3 DEF AddFile
<1>6. ASSUME ~touched' PROVE p \in Targets /\ git.tree[p] = "draft"
  BY <1>1, <1>6 DEF IInv, Undisturbed, Committing, At, FilesAsApplied, Command
<1>7. ASSUME ~touched' PROVE git'.index = [git.index EXCEPT ![p] = "draft"]
  BY <1>4, <1>6, <1>7
<1>8. ASSUME CommitMade, OnRunBranch, ~touched' PROVE CommitMade'
  <2>1. git.index[p] = "draft"
    BY <1>3, <1>6, <1>8 DEF CommitMade, AsApproved, Staged, HeadTree, OnRunBranch
  <2>2. git'.index = git.index
    BY <1>3, <1>7, <1>8, <2>1 DEF Trees
  <2> QED
    BY <1>1, <1>4, <1>8, <2>2 DEF CommitMade, AsApproved, Staged, HeadTree, Targets, Command
<1>9. ASSUME NEW some, Drafted(some), some \subseteq Paths, ~touched'
      PROVE  \A x \in some : git'.index[x] = "draft"
  BY <1>3, <1>7, <1>9 DEF Drafted, Trees
<1>10. ASSUME NEW r \in Requests, ~touched' PROVE Undisturbed(r)'
  <2>1. Undisturbed(r) /\ Targets' = Targets /\ Targets \subseteq Paths
        /\ (CommitMade /\ OnRunBranch => CommitMade')
    BY <1>1, <1>8, <1>10 DEF IInv, Targets, Command
  <2>2. Committing(r) => (OnRunBranch /\ FilesAsApplied /\ (git.tip["run"] = target \/ CommitMade))'
    <3>1. ASSUME Committing(r) PROVE OnRunBranch' /\ FilesAsApplied'
      BY <1>1, <1>4, <2>1, <3>1 DEF Undisturbed, OnRunBranch, FilesAsApplied
    <3> QED
      BY <1>1, <1>4, <2>1, <3>1 DEF Undisturbed, Command
  <2>3. CASE r = q
    <3>1. Drafted(Targets \ request[q].todo) /\ request[q].todo \subseteq Targets
      BY <1>1, <2>1, <2>3 DEF Undisturbed
    <3>2. \A x \in Targets \ (request[q].todo \ {p}) : git'.index[x] = "draft"
      BY <1>3, <1>7, <1>10, <2>1, <3>1 DEF Drafted, Trees
    <3>3. Committing(q)
      BY <1>1 DEF Committing, At
    <3> QED
      BY <1>5, <2>1, <2>2, <2>3, <3>1, <3>2, <3>3 DEF Undisturbed, Committing, At, Drafted
  <2>4. CASE r # q
    <3>1. request'[r] = request[r]
      BY <1>5, <2>4
    <3>2. At(r, "add") => Drafted(Targets \ request[r].todo)' /\ request[r].todo \subseteq Targets
      BY <1>9, <1>10, <2>1, <3>1 DEF Undisturbed, Drafted
    <3>3. At(r, "check") => Drafted(Targets)'
      BY <1>9, <1>10, <2>1 DEF Undisturbed, Drafted
    <3>4. ASSUME At(r, "commit"), ~CommitMade
          PROVE  (git.tip["run"] = target /\ Staged = Targets /\ Drafted(Targets))'
      <4>1. git.tip["run"] = target /\ Staged = Targets /\ Drafted(Targets)
        BY <2>1, <3>4 DEF Undisturbed
      <4>2. git'.index = git.index
        BY <1>3, <1>6, <1>7, <1>10, <4>1 DEF Drafted, Trees
      <4> QED
        BY <1>1, <1>4, <2>1, <4>1, <4>2 DEF Staged, HeadTree, Drafted, Command
    <3>5. At(r, "commit") \/ At(r, "rev_parse") => OnRunBranch
      BY <2>1 DEF Undisturbed, Committing, At
    <3> QED
      BY <2>1, <2>2, <3>1, <3>2, <3>3, <3>4, <3>5 DEF Undisturbed, Committing, At
  <2> QED
    BY <2>3, <2>4
<1> QED
  BY <1>1, <1>2, <1>10, CommandSettled

LEMMA CheckStagedKeeps ==
  ASSUME IInv, NEW q \in Requests, CheckStaged(q), Grows
  PROVE  Settled' /\ (~touched' => \A r \in Requests : Undisturbed(r)') /\ Command
<1>1. Command /\ git' = git /\ At(q, "check")
  BY DEF CheckStaged, Command, notes, work, faults
<1>2. docs["commit_proposal"] # "none"
  BY <1>1 DEF IInv, Settled, Committing, At
<1>3. request \in [Requests -> Waiting] /\ request[q] \in Waiting
  BY Shapes DEF IInv
<1>4. \A r \in Requests \ {q} : request'[r] = request[r]
  BY <1>3 DEF CheckStaged, Goes, Leaves
<1>5. ASSUME NEW r \in Requests, ~touched' PROVE Undisturbed(r)'
  <2> USE DEF Undisturbed, Committing, At, OnRunBranch, FilesAsApplied, CommitMade,
              AsApproved, Staged, HeadTree, Targets, Drafted, Command
  <2>1. Undisturbed(r)
    BY <1>1, <1>5 DEF IInv
  <2>2. CASE r # q
    BY <1>1, <1>4, <2>1, <2>2
  <2>3. CASE r = q /\ Staged = Targets
    <3>1. request'[q].wait = "commit"
      BY <1>3, <2>3 DEF CheckStaged, Goes, Waiting
    <3> QED
      BY <1>1, <2>1, <2>3, <3>1
  <2>4. CASE r = q /\ Staged # Targets
    <3>1. request'[q].wait = "idle"
      BY <1>3, <2>4 DEF CheckStaged, Leaves, Idle
    <3> QED
      BY <2>4, <3>1
  <2> QED
    BY <2>2, <2>3, <2>4
<1> QED
  BY <1>1, <1>2, <1>5, CommandSettled

(* What is staged is committed, and nothing is staged on top of it.        *)
LEMMA CommitIsMade ==
  ASSUME IInv, git' = Committed, UNCHANGED <<entries, target>>, OnRunBranch,
         git.tip["run"] = target, target \in 1..Len(git.log), Staged = Targets, Drafted(Targets),
         Len(git.log) < MaxCommits
  PROVE  CommitMade' /\ OnRunBranch' /\ git'.tree = git.tree /\ git'.index = git.index
<1> DEFINE n == Len(git.log) + 1
           c == [tree |-> git.index, parent |-> target]
<1>1. TypeOK /\ git \in Checkouts /\ Len(git.log) \in Nat /\ git.index \in Trees
      /\ git.tip \in [Branches -> Commits] /\ "run" \in Branches
  BY Shapes DEF IInv, TypeOK, Branches
<1>2. /\ git'.log = Append(git.log, c) /\ git'.tip = [git.tip EXCEPT !["run"] = n]
      /\ git'.head = "run" /\ git'.tree = git.tree /\ git'.index = git.index
  BY <1>1 DEF Committed, OnRunBranch, Checkouts
<1>3. git'.tip["run"] = n
  BY <1>1, <1>2
<1>4. git'.log[n] = c /\ git'.log[target] = git.log[target] /\ n \in 1..Len(git'.log)
  BY <1>1, <1>2
<1> HIDE DEF n
<1>5. git'.log[n].tree = git.index /\ git'.log[n].parent = target
  BY <1>4
<1>6. git.index = [p \in Paths |-> IF p \in Targets THEN "draft" ELSE git.log[target].tree[p]]
  <2>1. git.index = [p \in Paths |-> git.index[p]]
    BY <1>1 DEF Trees
  <2>2. ASSUME NEW p \in Paths
        PROVE  git.index[p] = IF p \in Targets THEN "draft" ELSE git.log[target].tree[p]
    BY DEF Drafted, Staged, HeadTree, OnRunBranch
  <2> QED
    BY <2>1, <2>2
<1>7. Targets' = Targets
  BY DEF Targets
<1>8. AsApproved(git.tip["run"])'
  BY <1>3, <1>4, <1>5, <1>6, <1>7 DEF AsApproved
<1>9. Staged' = {}
  BY <1>2, <1>3, <1>5 DEF Staged, HeadTree
<1> QED
  BY <1>2, <1>8, <1>9 DEF CommitMade, OnRunBranch

LEMMA GitCommitKeeps ==
  ASSUME IInv, NEW q \in Requests, GitCommit(q), Grows
  PROVE  Settled' /\ (~touched' => \A r \in Requests : Undisturbed(r)') /\ Command
<1>1. Command /\ git' = Committed /\ At(q, "commit") /\ Staged # {} /\ Len(git.log) < MaxCommits
  BY DEF GitCommit, Command, notes, work, faults
<1>2. docs["commit_proposal"] # "none" /\ target \in 1..Len(git.log)
  BY <1>1 DEF IInv, Settled, Committing, At
<1>3. request \in [Requests -> Waiting] /\ request[q] \in Waiting
  BY Shapes DEF IInv
<1>4. request'[q].wait = "rev_parse" /\ \A r \in Requests \ {q} : request'[r] = request[r]
  BY <1>3 DEF GitCommit, Goes, Waiting
<1>5. ASSUME ~touched'
      PROVE  CommitMade' /\ OnRunBranch' /\ git'.tree = git.tree /\ git'.index = git.index
  <2>1. Undisturbed(q)
    BY <1>1, <1>5 DEF IInv, Command
  <2>2. OnRunBranch /\ git.tip["run"] = target /\ Staged = Targets /\ Drafted(Targets)
    BY <1>1, <2>1 DEF Undisturbed, Committing, At, CommitMade
  <2> QED
    BY <1>1, <1>2, <2>2, CommitIsMade DEF Command
<1>6. ASSUME NEW r \in Requests, ~touched' PROVE Undisturbed(r)'
  <2>1. Undisturbed(r) /\ Targets' = Targets
    BY <1>1, <1>6 DEF IInv, Command, Targets
  <2>2. Undisturbed(q) /\ Committing(q)
    BY <1>1, <1>6 DEF IInv, Command, Committing, At
  <2>3. FilesAsApplied'
    BY <1>5, <1>6, <2>1, <2>2 DEF Undisturbed, FilesAsApplied
  <2>4. CASE r = q
    BY <1>4, <1>5, <1>6, <2>3, <2>4 DEF Undisturbed, At
  <2>5. CASE r # q
    BY <1>4, <1>5, <1>6, <2>1, <2>3, <2>5 DEF Undisturbed, At, Committing, Drafted
  <2> QED
    BY <2>4, <2>5
<1> QED
  BY <1>1, <1>2, <1>6, CommandSettled

LEMMA RecordCommitKeeps ==
  ASSUME IInv, NEW q \in Requests, NEW end \in Ends, RecordCommit(q, end), Grows
  PROVE  /\ Settled' /\ (~touched' => \A r \in Requests : Undisturbed(r)')
         /\ (~touched' /\ Recorded("commit")' => AsApproved(sha)')
<1>1. /\ UNCHANGED <<verdicts, entries, target, git, touched>> /\ At(q, "rev_parse")
      /\ sha' = git.tip[git.head]
  BY DEF RecordCommit
<1>2. docs["commit_proposal"] # "none" /\ target \in 1..Len(git.log) /\ Committing(q)
  BY <1>1 DEF IInv, Settled, Committing, At
<1>3. request \in [Requests -> Waiting] /\ docs \in [Documents -> Files]
  BY Shapes DEF IInv
<1>4. /\ docs'["draft"] = docs["draft"] /\ docs'["application"] = docs["application"]
      /\ docs'["commit_proposal"] = docs["commit_proposal"]
  BY <1>3 DEF RecordCommit, Unrecorded, Documents
<1>5. NobodyBegins
  <2>1. Leaves(q) => NobodyBegins
    BY <1>3 DEF Leaves, Idle, NobodyBegins, Committing
  <2> QED
    BY <2>1, DeadOrAlive DEF RecordCommit
<1>6. Settled'
  BY <1>1, <1>2, <1>4 DEF IInv, Settled, Approved, Noted
<1>7. ASSUME NEW r \in Requests, ~touched' PROVE Undisturbed(r)'
  <2>1. CASE ~Committing(r)'
    BY <2>1 DEF Undisturbed, Committing, At
  <2>2. CASE Committing(r)'
    <3>1. request'[r] = request[r]
      BY <1>5, <2>2 DEF NobodyBegins
    <3>2. Undisturbed(r)
      BY <1>1, <1>7 DEF IInv
    <3> QED
      BY <1>1, <3>1, <3>2 DEF Undisturbed, Committing, At, OnRunBranch, FilesAsApplied, CommitMade,
         AsApproved, Staged, HeadTree, Targets, Drafted
  <2> QED
    BY <2>1, <2>2
<1>8. ASSUME ~touched' PROVE AsApproved(sha)'
  <2>1. Undisturbed(q)
    BY <1>1, <1>8 DEF IInv
  <2>2. AsApproved(git.tip["run"]) /\ sha' = git.tip["run"]
    BY <1>1, <1>2, <2>1 DEF Undisturbed, CommitMade, OnRunBranch
  <2> QED
    BY <1>1, <2>2 DEF AsApproved, Targets
<1> QED
  BY <1>6, <1>7, <1>8

(* What others do is under a git request, or there is none.                *)
LEMMA OutsideKeeps ==
  ASSUME IInv, Outside, Grows
  PROVE  /\ Settled' /\ (~touched' => \A r \in Requests : Undisturbed(r)')
         /\ (~touched' /\ Recorded("commit")' => AsApproved(sha)')
<1>1. Deed
  BY DEF Outside, Edit, Stage, CommitElse, Switch
<1>2. UNCHANGED <<docs, verdicts, entries, target, sha, request>>
  BY <1>1 DEF Deed, notes, work, actors
<1>3. Settled'
  BY <1>2, SettledKept DEF IInv, NobodyBegins, Noted
<1>4. ASSUME ~touched' PROVE ~touched /\ \A q \in Requests : At(q, "idle")
  BY <1>1, <1>4 DEF Deed
<1>5. ASSUME NEW r \in Requests, ~touched' PROVE Undisturbed(r)'
  BY <1>2, <1>4, <1>5 DEF Undisturbed, Committing, At
<1>6. ASSUME ~touched', Recorded("commit")' PROVE AsApproved(sha)'
  <2>1. AsApproved(sha) /\ docs["commit_proposal"] # "none" /\ sha' = sha
    BY <1>2, <1>4, <1>6 DEF IInv, Recorded, Settled
  <2> QED
    BY <1>2, <2>1, AsApprovedKept DEF AsApproved, IInv
<1> QED
  BY <1>3, <1>5, <1>6

LEMMA IInvStep == IInv /\ [Next]_vars => IInv'
<1> SUFFICES ASSUME IInv, [Next]_vars PROVE IInv'
  OBVIOUS
<1> DEFINE Goal == /\ Settled' /\ (~touched' => \A r \in Requests : Undisturbed(r)')
                   /\ (~touched' /\ Recorded("commit")' => AsApproved(sha)')
<1>1. TypeOK /\ HeadExists /\ Settled /\ PastStart
  BY DEF IInv
<1>2. TypeOK' /\ HeadExists' /\ PastStart' /\ Grows
  BY <1>1, StepTypes, HeadStep, PastStartStep, LogStep
<1>3. Calm /\ Settled' => Goal
  BY <1>2, CalmKeeps
<1>4. CASE Start \/ Review \/ Document \/ Apply \/ Crash
           \/ (\E action \in {"approve", "request_fix", "stop"} : Close(action))
  <2>1. Calm /\ Settled'
    BY <1>1, <1>2, <1>4, StartCalm, ReviewCalm, DocumentCalm, ApplyCalm, CloseCalm
  <2> QED
    BY <1>2, <1>3, <2>1 DEF IInv
<1>5. CASE Pipeline
  <2>1. CASE touched
    <3>1. Settled' /\ touched'
      BY <1>1, <1>2, <1>5, <2>1, PipelineSettled
    <3> QED
      BY <1>2, <3>1 DEF IInv
  <2>2. CASE ~touched
    <3>1. \A q \in Requests : Committing(q) => OnRunBranch
      BY <2>2 DEF IInv, Undisturbed
    <3>2. Calm /\ Settled'
      BY <1>1, <1>2, <1>5, <3>1, PipelineCalm
    <3> QED
      BY <1>2, <1>3, <3>2 DEF IInv
  <2> QED
    BY <2>1, <2>2
<1>6. ASSUME NEW q \in Requests, Git(q) PROVE Goal
  <2>1. CASE AskPreparation(q) \/ FailRequest(q) \/ \E end \in Ends : PreparePullRequest(q, end)
    BY <1>1, <1>2, <1>3, <2>1, AsideCalm
  <2>2. CASE AskCommit(q) \/ CheckStaged(q) \/ GitCommit(q) \/ \E p \in Paths : AddFile(q, p)
    BY <1>2, <2>2, AskCommitKeeps, CheckStagedKeeps, GitCommitKeeps, AddFileKeeps, CommandKeeps
  <2>3. CASE \E end \in Ends : RecordCommit(q, end)
    BY <1>2, <2>3, RecordCommitKeeps
  <2> QED
    BY <1>6, <2>1, <2>2, <2>3 DEF Git
<1>7. CASE Outside
  BY <1>2, <1>7, OutsideKeeps DEF IInv
<1>8. CASE UNCHANGED vars
  <2>1. Calm /\ Settled'
    BY <1>1, <1>2, <1>8, SettledKept DEF vars, Calm, NobodyBegins, Noted
  <2> QED
    BY <1>2, <1>3, <2>1 DEF IInv
<1> QED
  BY <1>2, <1>4, <1>5, <1>6, <1>7, <1>8 DEF Next, IInv

LEMMA IInvInit == Init => IInv
<1> SUFFICES ASSUME Init PROVE IInv
  OBVIOUS
<1>1. TypeOK /\ HeadExists
  BY InitTypes, InitHead
<1>2. PastStart
  BY DEF Init, PastStart
<1>3. \A q \in Requests : ~Committing(q) /\ Undisturbed(q)
  BY DEF Init, Idle, Committing, Undisturbed, At
<1>4. Settled /\ ~Recorded("commit")
  BY <1>3 DEF Init, Settled, Approved, Recorded, Reviewed, Documents
<1> QED
  BY <1>1, <1>2, <1>3, <1>4 DEF IInv

(* The commit on record is made of the approved content, for any number of *)
(* overlapping requests and deaths: what readiness has seen of the files   *)
(* and the branch holds until the commit, because only the commands of     *)
(* other requests come in between, and these stage and commit the same.    *)
THEOREM CommitIsAsApproved == Spec => []CommitIsApproved
<1>1. IInv => CommitIsApproved
  BY DEF IInv, CommitIsApproved, AsApproved
<1> QED
  BY <1>1, IInvInit, IInvStep, PTL DEF Spec

-----------------------------------------------------------------------------
(* How far a run has come *)

(* A stage is reached on top of all the earlier ones. *)
Chain == \A i, j \in 1..12 : i < j /\ Stages[j] => Stages[i]

(* A step reaches stage k, on top of the one before it, or finds it there. *)
Advances(k) ==
  /\ \A j \in (1..12) \ {k} : Stages'[j] <=> Stages[j]
  /\ Stages[k] => Stages'[k]
  /\ k > 1 => Stages[k - 1]

StageOf == [artifact |-> 1, proposal |-> 3, draft |-> 5, application |-> 7, report |-> 8,
            commit_proposal |-> 10, commit |-> 11, preparation |-> 12]

DecisionOf == [artifact |-> 2, proposal |-> 4, draft |-> 6, report |-> 9]

LEMMA StagesAre ==
  /\ Stages[1] <=> Noted("artifact")
  /\ Stages[2] <=> Approved("artifact")
  /\ Stages[3] <=> Noted("proposal")
  /\ Stages[4] <=> Approved("proposal")
  /\ Stages[5] <=> Noted("draft")
  /\ Stages[6] <=> Approved("draft")
  /\ Stages[7] <=> Noted("application")
  /\ Stages[8] <=> Noted("report")
  /\ Stages[9] <=> Approved("report")
  /\ Stages[10] <=> Noted("commit_proposal")
  /\ Stages[11] <=> Noted("commit")
  /\ Stages[12] <=> Noted("preparation")
  BY DEF Stages

LEMMA StagesBecome ==
  /\ Stages'[1] <=> Noted("artifact")'
  /\ Stages'[2] <=> Approved("artifact")'
  /\ Stages'[3] <=> Noted("proposal")'
  /\ Stages'[4] <=> Approved("proposal")'
  /\ Stages'[5] <=> Noted("draft")'
  /\ Stages'[6] <=> Approved("draft")'
  /\ Stages'[7] <=> Noted("application")'
  /\ Stages'[8] <=> Noted("report")'
  /\ Stages'[9] <=> Approved("report")'
  /\ Stages'[10] <=> Noted("commit_proposal")'
  /\ Stages'[11] <=> Noted("commit")'
  /\ Stages'[12] <=> Noted("preparation")'
  BY DEF Stages

LEMMA Finite ==
  ASSUME NEW n \in Nat
  PROVE  IsFiniteSet(1..n)
  BY FS_Interval

(* A document advances the run by its stage, *)
LEMMA DocumentAdvances ==
  ASSUME NEW d \in Documents, \A e \in Documents \ {d} : docs'[e] = docs[e],
         verdicts' = verdicts, Noted(d) => Noted(d)', d # "artifact" => Stages[StageOf[d] - 1]
  PROVE  Advances(StageOf[d])
<1>1. \A e \in Documents \ {d} : Noted(e)' <=> Noted(e)
  BY DEF Noted
<1>2. \A e \in Reviewed : Approved(e)' <=> Approved(e)
  BY DEF Approved
<1>3. \A j \in (1..12) \ {StageOf[d]} : Stages'[j] <=> Stages[j]
  BY <1>1, <1>2, StagesAre, StagesBecome DEF StageOf, Documents, Reviewed
<1>4. Stages[StageOf[d]] => Stages'[StageOf[d]]
  BY StagesAre, StagesBecome DEF StageOf, Documents
<1> QED
  BY <1>3, <1>4 DEF Advances, StageOf

(* and a decision by the one after it. *)
LEMMA DecisionAdvances ==
  ASSUME TypeOK, NEW d \in Reviewed, NEW verdict, verdicts' = [verdicts EXCEPT ![d] = verdict],
         docs' = docs, verdicts[d] = "none", Noted(d)
  PROVE  Advances(DecisionOf[d])
<1>1. \A e \in Documents : Noted(e)' <=> Noted(e)
  BY DEF Noted
<1>2. \A e \in Reviewed \ {d} : Approved(e)' <=> Approved(e)
  BY Shapes DEF Approved
<1>3. ~Approved(d)
  BY DEF Approved
<1>4. \A j \in (1..12) \ {DecisionOf[d]} : Stages'[j] <=> Stages[j]
  BY <1>1, <1>2, StagesAre, StagesBecome DEF DecisionOf, Documents, Reviewed
<1>5. ~Stages[DecisionOf[d]] /\ Stages[DecisionOf[d] - 1]
  BY <1>3, StagesAre DEF DecisionOf, Reviewed
<1> QED
  BY <1>4, <1>5 DEF Advances, DecisionOf

LEMMA SameStages ==
  ASSUME \A d \in Documents : Noted(d)' <=> Noted(d), verdicts' = verdicts
  PROVE  \A j \in 1..12 : Stages'[j] <=> Stages[j]
<1>1. \A e \in Reviewed : Approved(e)' <=> Approved(e)
  BY DEF Approved
<1> QED
  BY <1>1, StagesAre, StagesBecome DEF Documents, Reviewed

LEMMA ChainKept ==
  ASSUME Chain, (\E k \in 1..12 : Advances(k)) \/ (\A j \in 1..12 : Stages'[j] <=> Stages[j])
  PROVE  Chain' /\ Reached' \in {Reached, Reached + 1}
<1> DEFINE P == {i \in 1..12 : \A j \in 1..i : Stages[j]}
           Q == {i \in 1..12 : \A j \in 1..i : Stages'[j]}
<1>1. P = {i \in 1..12 : Stages[i]}
  BY DEF Chain
<1>2. Reached = Cardinality(P) /\ Reached' = Cardinality(Q)
  BY DEF Reached
<1>3. IsFiniteSet(P)
  <2>1. IsFiniteSet(1..12)
    BY Finite
  <2> QED
    BY <2>1, FS_Subset
<1>4. CASE \A j \in 1..12 : Stages'[j] <=> Stages[j]
  <2>1. Chain'
    BY <1>4 DEF Chain
  <2>2. P = Q
    BY <1>4
  <2> QED
    BY <1>2, <2>1, <2>2
<1>5. ASSUME NEW k \in 1..12, Advances(k), Stages'[k], ~Stages[k]
      PROVE  Chain' /\ Reached' \in {Reached, Reached + 1}
  <2>1. \A j \in 1..12 : j < k => Stages[j]
    BY <1>5 DEF Advances, Chain
  <2>2. \A j \in 1..12 : j > k => ~Stages[j]
    BY <1>5 DEF Chain
  <2>3. \A j \in 1..12 : Stages'[j] <=> j <= k
    BY <1>5, <2>1, <2>2 DEF Advances
  <2>4. Chain'
    BY <2>3 DEF Chain
  <2>5. Q = {i \in 1..12 : i <= k} /\ P = {i \in 1..12 : i < k}
    BY <1>1, <1>5, <2>1, <2>2, <2>3
  <2>6. Q = P \cup {k} /\ k \notin P
    BY <2>5
  <2>7. Cardinality(Q) = Cardinality(P) + 1
    BY <1>3, <2>6, FS_AddElement
  <2> QED
    BY <1>2, <2>4, <2>7
<1>6. ASSUME NEW k \in 1..12, Advances(k), ~(Stages'[k] /\ ~Stages[k])
      PROVE  \A j \in 1..12 : Stages'[j] <=> Stages[j]
  BY <1>6 DEF Advances
<1> QED
  BY <1>4, <1>5, <1>6

-----------------------------------------------------------------------------
(* Where the run is, and what is done by then *)

Early == {"verify", "branch", "artifact_ready", "artifact_blocked"}

(* The artifact is made once, by the one pipeline of the run, before it is *)
(* reviewed.                                                               *)
Begun ==
  /\ started => status # "none"
  /\ ~started => pipeline = "idle" /\ docs["artifact"] = "none"
  /\ pipeline \in {"verify", "branch"} => docs["artifact"] = "none"
  /\ pipeline \in {"artifact_ready", "artifact_blocked"} => Noted("artifact")
  /\ pipeline \in Early => verdicts["artifact"] = "none" /\ step \in {"working", "decided"}
  /\ \A d \in Reviewed : verdicts[d] # "none" => Noted(d)

(* The stage that a step of the row stands for. *)
Level == [artifact_blocked |-> 1, artifact_ready |-> 1, artifact_rejected |-> 1,
          artifact_approved |-> 2, proposal_ready |-> 3, proposal_rejected |-> 3,
          proposal_approved |-> 4, draft_ready |-> 5, draft_rejected |-> 5,
          draft_approved |-> 6, patch_applied |-> 7, gates_completed |-> 8,
          report_rejected |-> 8, report_approved |-> 9, commit_proposed |-> 10,
          commit_created |-> 11, pull_request_prepared |-> 12]

Awaited == [artifact_blocked |-> "artifact", artifact_ready |-> "artifact",
            proposal_ready |-> "proposal", draft_ready |-> "draft", gates_completed |-> "report"]

(* The step and the notes are one row. *)
Placed ==
  /\ step \in DOMAIN Level =>
       Stages[Level[step]] /\ (Level[step] < 12 => ~Stages[Level[step] + 1])
  /\ step \in DOMAIN Awaited => verdicts[Awaited[step]] = "none"

(* What the git requests of a run rest on. *)
Late ==
  /\ docs["commit"] # "none" => Noted("commit_proposal")
  /\ docs["preparation"] # "none" => Noted("commit")
  /\ \A q \in Requests : /\ Committing(q) => Noted("commit_proposal")
                         /\ At(q, "inspect") => Noted("commit")

Lined == Chain /\ Begun /\ Placed /\ Late

Moves == (\E k \in 1..12 : Advances(k)) \/ (\A j \in 1..12 : Stages'[j] <=> Stages[j])

OnlyEnds == \A q \in Requests : request'[q] = request[q] \/ request'[q].wait = "idle"

LEMMA Ending ==
  ASSUME Dies \/ Lives
  PROVE  OnlyEnds /\ pipeline' \in {pipeline, "idle"}
  BY DEF Dies, Lives, actors, Idle, OnlyEnds

LEMMA LateKept ==
  ASSUME Late, OnlyEnds, docs'["commit"] # "none" => docs["commit"] # "none",
         docs'["preparation"] # "none" => docs["preparation"] # "none",
         Noted("commit_proposal") => Noted("commit_proposal")', Noted("commit") => Noted("commit")'
  PROVE  Late'
  BY DEF Late, OnlyEnds, Committing, At

LEMMA BegunKept ==
  ASSUME Begun, started' = started, status' = status \/ status' # "none",
         docs'["artifact"] = docs["artifact"], pipeline' \in {pipeline, "idle"},
         pipeline \in Early => verdicts'["artifact"] = verdicts["artifact"]
                               /\ (step' = step \/ step' = "decided"),
         \A d \in Reviewed : verdicts'[d] # "none" => Noted(d)'
  PROVE  Begun'
  BY DEF Begun, Early, Noted

LEMMA NotEarly ==
  ASSUME Begun, Chain, step \in DOMAIN Level \/ \E k \in 2..12 : Stages[k]
  PROVE  pipeline \notin Early
<1>1. CASE step \in DOMAIN Level
  BY <1>1 DEF Begun, Level
<1>2. ASSUME NEW k \in 2..12, Stages[k] PROVE Stages[2]
  BY <1>2 DEF Chain
<1> QED
  BY <1>1, <1>2, StagesAre DEF Begun, Approved

(* Steps that leave the notes alone. *)
LEMMA NotesKept ==
  ASSUME Lined, docs' = docs, verdicts' = verdicts, OnlyEnds, started' = started,
         status' = status \/ status' # "none", pipeline' \in {pipeline, "idle"},
         \/ step' = step
         \/ step' \notin DOMAIN Level \cup DOMAIN Awaited
              /\ (pipeline \in Early => step' = "decided")
  PROVE  Lined' /\ Moves
<1>1. \A j \in 1..12 : Stages'[j] <=> Stages[j]
  BY SameStages DEF Noted
<1>2. Chain'
  BY <1>1, ChainKept DEF Lined
<1>3. Begun'
  BY BegunKept DEF Lined, Begun, Noted
<1>4. Late'
  BY LateKept DEF Lined, Noted
<1>5. Placed'
  <2>1. CASE step' = step
    <3>1. step \in DOMAIN Level => Level[step] \in 1..12 /\ (Level[step] < 12 => Level[step] + 1 \in 1..12)
      BY DEF Level
    <3> QED
      BY <1>1, <2>1, <3>1 DEF Lined, Placed
  <2>2. CASE step' \notin DOMAIN Level \cup DOMAIN Awaited
    BY <2>2 DEF Placed
  <2> QED
    BY <2>1, <2>2
<1> QED
  BY <1>1, <1>2, <1>3, <1>4, <1>5 DEF Lined, Moves

LEMMA StartLined ==
  ASSUME TypeOK, Lined, Start
  PROVE  Lined' /\ Moves
<1>1. PICK end \in Ends : PrepareRun(end) \/ RequestApproval(end) \/ StartExecution(end)
  BY DEF Start
<1>2. UNCHANGED <<docs, verdicts>>
  BY <1>1 DEF PrepareRun, RequestApproval, StartExecution, notes
<1>3. ASSUME NEW s \in {"prepared", "approval_requested", "working"}
      PROVE  s \notin DOMAIN Level \cup DOMAIN Awaited
  BY DEF Level, Awaited
<1>4. CASE PrepareRun(end) \/ RequestApproval(end)
  <2>1. (Dies \/ Lives) /\ started' = started /\ step' \in {"prepared", "approval_requested"}
        /\ (status' = status \/ status' # "none") /\ (status = "none" \/ step = "prepared")
    BY <1>4 DEF PrepareRun, RequestApproval, Answers, notes
  <2>2. pipeline \notin Early
    BY <2>1 DEF Lined, Begun, Early
  <2> QED
    BY <1>2, <1>3, <2>1, <2>2, Ending, NotesKept
<1>5. CASE StartExecution(end) /\ end # "answer"
  <2>1. Dies /\ UNCHANGED run /\ started' = TRUE /\ status = "pending"
    BY <1>5 DEF StartExecution
  <2>2. OnlyEnds /\ pipeline' = "idle" /\ step' = step /\ status' = status
    BY <2>1, Ending DEF Dies, run
  <2>3. \A j \in 1..12 : Stages'[j] <=> Stages[j]
    BY <1>2, SameStages DEF Noted
  <2>4. Chain' /\ Late'
    BY <1>2, <2>2, <2>3, ChainKept, LateKept DEF Lined, Noted
  <2>5. Begun'
    BY <1>2, <2>1, <2>2 DEF Lined, Begun, Early, Noted
  <2>6. Placed'
    <3>1. step \in DOMAIN Level => Level[step] \in 1..12 /\ (Level[step] < 12 => Level[step] + 1 \in 1..12)
      BY DEF Level
    <3> QED
      BY <1>2, <2>2, <2>3, <3>1 DEF Lined, Placed
  <2> QED
    BY <2>3, <2>4, <2>5, <2>6 DEF Lined, Moves
<1>6. CASE StartExecution(end) /\ end = "answer"
  <2>1. /\ started' = TRUE /\ status' = "preparing_workspace" /\ step' = "working"
        /\ pipeline' = "verify" /\ request' = request /\ ~started
    BY <1>6 DEF StartExecution
  <2>2. OnlyEnds
    BY <2>1 DEF OnlyEnds
  <2>3. \A j \in 1..12 : Stages'[j] <=> Stages[j]
    BY <1>2, SameStages DEF Noted
  <2>4. Chain' /\ Late'
    BY <1>2, <2>2, <2>3, ChainKept, LateKept DEF Lined, Noted
  <2>5. verdicts["artifact"] = "none" /\ docs["artifact"] = "none"
    BY <2>1 DEF Lined, Begun, Noted, Reviewed
  <2>6. Begun'
    BY <1>2, <2>1, <2>5 DEF Lined, Begun, Early, Noted
  <2>7. Placed'
    BY <1>3, <2>1 DEF Placed
  <2> QED
    BY <2>3, <2>4, <2>6, <2>7 DEF Lined, Moves
<1> QED
  BY <1>1, <1>4, <1>5, <1>6

LEMMA ArtifactLined ==
  ASSUME TypeOK, Lined, NEW outcome \in {"failed", "artifact_ready", "artifact_blocked"},
         NEW made \in BOOLEAN, ImplementArtifact(outcome, made)
  PROVE  Lined' /\ Moves
<1>1. UNCHANGED <<verdicts, started, request>> /\ pipeline = "branch"
  BY DEF ImplementArtifact
<1>2. OnlyEnds
  BY <1>1 DEF OnlyEnds
<1>3. CASE outcome = "failed"
  <2>1. docs' = docs /\ status' = "failed" /\ step' = "failed" /\ pipeline' = "idle"
    BY <1>3 DEF ImplementArtifact
  <2>2. \A j \in 1..12 : Stages'[j] <=> Stages[j]
    BY <1>1, <2>1, SameStages DEF Noted
  <2>3. Chain' /\ Late'
    BY <1>1, <1>2, <2>1, <2>2, ChainKept, LateKept DEF Lined, Noted
  <2>4. Begun'
    BY <1>1, <2>1 DEF Lined, Begun, Early, Noted
  <2>5. Placed'
    BY <2>1 DEF Placed, Level, Awaited
  <2> QED
    BY <2>2, <2>3, <2>4, <2>5 DEF Lined, Moves
<1>4. CASE outcome # "failed"
  <2>1. /\ docs' = [docs EXCEPT !["artifact"] = "recorded"] /\ status' = "running_quality_gates"
        /\ step' = "working" /\ pipeline' = outcome
    BY <1>4 DEF ImplementArtifact
  <2>2. docs'["artifact"] = "recorded" /\ \A e \in Documents \ {"artifact"} : docs'[e] = docs[e]
    BY <2>1, Shapes DEF Documents
  <2>3. Advances(StageOf["artifact"]) /\ StageOf["artifact"] \in 1..12
    BY <1>1, <2>2, DocumentAdvances DEF Documents, Noted, StageOf
  <2>4. Chain' /\ Moves
    BY <2>3, ChainKept DEF Lined, Moves
  <2>5. Late'
    BY <1>2, <2>2, LateKept DEF Lined, Noted, Documents
  <2>6. Begun'
    BY <1>1, <2>1, <2>2 DEF Lined, Begun, Early, Noted, Reviewed, Documents
  <2>7. Placed'
    BY <2>1 DEF Placed, Level, Awaited
  <2> QED
    BY <2>4, <2>5, <2>6, <2>7 DEF Lined
<1> QED
  BY <1>3, <1>4

LEMMA PipelineLined ==
  ASSUME TypeOK, Lined, Pipeline
  PROVE  Lined' /\ Moves
<1>1. CASE RefreshEvidence
  <2>1. UNCHANGED <<docs, verdicts, started, status, step, request>> /\ pipeline' = "idle"
    BY <1>1 DEF RefreshEvidence, run, notes
  <2> QED
    BY <2>1, NotesKept DEF OnlyEnds
<1>2. CASE VerifyRepo \/ FailPipeline
  <2>1. /\ UNCHANGED <<docs, verdicts, started, request>> /\ status' # "none"
        /\ \/ pipeline = "verify" /\ pipeline' = "branch" /\ step' = "working"
           \/ pipeline' = "idle" /\ step' = "failed"
    BY <1>2 DEF VerifyRepo, FailPipeline, notes
  <2>2. \A j \in 1..12 : Stages'[j] <=> Stages[j]
    BY <2>1, SameStages DEF Noted
  <2>3. Chain' /\ Late'
    BY <2>1, <2>2, ChainKept, LateKept DEF Lined, Noted, OnlyEnds
  <2>4. Begun'
    BY <2>1 DEF Lined, Begun, Early, Noted
  <2>5. Placed'
    BY <2>1 DEF Placed, Level, Awaited
  <2> QED
    BY <2>2, <2>3, <2>4, <2>5 DEF Lined, Moves
<1>3. CASE AwaitReview
  <2>1. /\ UNCHANGED <<docs, verdicts, started, request>> /\ status' = "waiting_for_approval"
        /\ pipeline \in {"artifact_ready", "artifact_blocked"} /\ step' = pipeline /\ pipeline' = "refresh"
    BY <1>3 DEF AwaitReview, notes
  <2>2. \A j \in 1..12 : Stages'[j] <=> Stages[j]
    BY <2>1, SameStages DEF Noted
  <2>3. Chain' /\ Late'
    BY <2>1, <2>2, ChainKept, LateKept DEF Lined, Noted, OnlyEnds
  <2>4. Begun'
    BY <2>1 DEF Lined, Begun, Early, Noted
  <2>5. Stages[1] /\ ~Stages[2] /\ verdicts["artifact"] = "none"
    BY <2>1, StagesAre DEF Lined, Begun, Early, Approved
  <2>6. Placed'
    BY <2>1, <2>2, <2>5 DEF Placed, Level, Awaited
  <2> QED
    BY <2>2, <2>3, <2>4, <2>6 DEF Lined, Moves
<1>4. ASSUME NEW made \in BOOLEAN, WorkerDies(made) PROVE Lined' /\ Moves
  <2>1. /\ UNCHANGED <<verdicts, started>> /\ docs' = [docs EXCEPT !["artifact"] = "written"]
        /\ status' = "generating_patch" /\ step' = "working" /\ Dies /\ pipeline = "branch"
    BY <1>4 DEF WorkerDies
  <2>2. OnlyEnds /\ pipeline' = "idle"
    BY <2>1, Ending DEF Dies
  <2>3. docs'["artifact"] = "written" /\ \A e \in Documents \ {"artifact"} : docs'[e] = docs[e]
    BY <2>1, Shapes DEF Documents
  <2>4. docs["artifact"] = "none" /\ started
    BY <2>1 DEF Lined, Begun
  <2>5. \A d \in Documents : Noted(d)' <=> Noted(d)
    BY <2>3, <2>4 DEF Noted
  <2>6. \A j \in 1..12 : Stages'[j] <=> Stages[j]
    BY <2>1, <2>5, SameStages
  <2>7. Chain' /\ Late'
    BY <2>2, <2>3, <2>5, <2>6, ChainKept, LateKept DEF Lined, Documents
  <2>8. Begun'
    BY <2>1, <2>2, <2>4, <2>5 DEF Lined, Begun, Early, Reviewed, Documents
  <2>9. Placed'
    BY <2>1 DEF Placed, Level, Awaited
  <2> QED
    BY <2>6, <2>7, <2>8, <2>9 DEF Lined, Moves
<1> QED
  BY <1>1, <1>2, <1>3, <1>4, ArtifactLined DEF Pipeline

(* A decision takes the run to the stage it approves, or leaves it there.  *)
LEMMA DecidesLined ==
  ASSUME TypeOK, Lined, NEW d \in Reviewed, NEW verdict \in Decisions, NEW steps, NEW end,
         Decides(d, verdict, steps, end), Noted(d), step \in DOMAIN Level,
         Level[step] = DecisionOf[d] - 1,
         DOMAIN steps = Decisions, steps["approved"] \in DOMAIN Level \ DOMAIN Awaited,
         Level[steps["approved"]] = DecisionOf[d],
         steps["rejected"] \in DOMAIN Level \ DOMAIN Awaited, Level[steps["rejected"]] = DecisionOf[d] - 1
  PROVE  Lined' /\ Moves
<1>1. /\ verdicts[d] = "none" /\ verdicts' = [verdicts EXCEPT ![d] = verdict]
      /\ status' = "waiting_for_approval" /\ step' = steps[verdict]
      /\ docs' = docs /\ started' = started /\ (Dies \/ Lives)
  BY DEF Decides, Answers
<1>2. DecisionOf[d] \in 2..9
  BY DEF DecisionOf, Reviewed
<1>3. Advances(DecisionOf[d])
  BY <1>1, DecisionAdvances
<1>4. Chain' /\ Moves
  BY <1>2, <1>3, ChainKept DEF Lined, Moves
<1>5. OnlyEnds /\ pipeline' \in {pipeline, "idle"}
  BY <1>1, Ending
<1>6. Late'
  BY <1>1, <1>5, LateKept DEF Lined, Noted
<1>7. pipeline \notin Early
  BY NotEarly DEF Lined
<1>8. Begun'
  <2>1. \A e \in Reviewed : verdicts'[e] # "none" => Noted(e)'
    BY <1>1, Shapes DEF Lined, Begun, Noted
  <2> QED
    BY <1>1, <1>5, <1>7, <2>1, BegunKept DEF Lined
<1>9. /\ Stages[DecisionOf[d] - 1] /\ ~Stages[DecisionOf[d]] /\ ~Stages[DecisionOf[d] + 1]
  BY <1>2, ChainKept DEF Lined, Placed, Chain
<1>10. /\ Stages'[DecisionOf[d] - 1] /\ ~Stages'[DecisionOf[d] + 1]
  BY <1>2, <1>3, <1>9 DEF Advances
<1>11. Stages'[DecisionOf[d]] <=> verdict = "approved"
  <2>1. verdicts'[d] = verdict
    BY <1>1, Shapes
  <2> QED
    BY <2>1, StagesBecome DEF DecisionOf, Reviewed, Approved
<1>12. Placed'
  <2>1. CASE verdict = "approved"
    BY <1>1, <1>2, <1>10, <1>11, <2>1 DEF Placed
  <2>2. CASE verdict = "rejected"
    BY <1>1, <1>2, <1>10, <1>11, <2>2 DEF Placed
  <2> QED
    BY <2>1, <2>2 DEF Decisions
<1> QED
  BY <1>4, <1>6, <1>8, <1>12 DEF Lined

LEMMA ReviewLined ==
  ASSUME TypeOK, Lined, Review
  PROVE  Lined' /\ Moves
<1>1. PICK verdict \in Decisions, end \in Ends :
        ReviewArtifact(verdict, end) \/ ReviewProposal(verdict, end)
          \/ ReviewDraft(verdict, end) \/ ReviewReport(verdict, end)
  BY DEF Review
<1> USE DEF Level, Awaited, DecisionOf, Reviewed, Decisions, WaitsAt, Recorded, Noted
<1>2. CASE ReviewArtifact(verdict, end)
  <2> DEFINE steps == [approved |-> "artifact_approved", rejected |-> "artifact_rejected"]
  <2>1. step = "artifact_ready" /\ Noted("artifact") /\ Decides("artifact", verdict, steps, end)
    BY <1>2 DEF ReviewArtifact, ArtifactReviewReady
  <2> QED
    BY <2>1, DecidesLined
<1>3. CASE ReviewProposal(verdict, end)
  <2> DEFINE steps == [approved |-> "proposal_approved", rejected |-> "proposal_rejected"]
  <2>1. step = "proposal_ready" /\ Noted("proposal") /\ Decides("proposal", verdict, steps, end)
    BY <1>3 DEF ReviewProposal, ProposalReviewReady, ProposalReviewStands
  <2> QED
    BY <2>1, DecidesLined
<1>4. CASE ReviewDraft(verdict, end)
  <2> DEFINE steps == [approved |-> "draft_approved", rejected |-> "draft_rejected"]
  <2>1. step = "draft_ready" /\ Noted("draft") /\ Decides("draft", verdict, steps, end)
    BY <1>4 DEF ReviewDraft, DraftReviewReady, DraftReviewStands
  <2> QED
    BY <2>1, DecidesLined
<1>5. CASE ReviewReport(verdict, end)
  <2> DEFINE steps == [approved |-> "report_approved", rejected |-> "report_rejected"]
  <2>1. step = "gates_completed" /\ Noted("report") /\ Decides("report", verdict, steps, end)
    BY <1>5 DEF ReviewReport, ReportReviewReady, ReportReviewStands
  <2> QED
    BY <2>1, DecidesLined
<1> QED
  BY <1>1, <1>2, <1>3, <1>4, <1>5

(* A document that is written and not recorded is not in the notes yet, or *)
(* still is.                                                               *)
LEMMA UnrecordedNotes ==
  ASSUME TypeOK, NEW d \in Documents, docs' = Unrecorded(d)
  PROVE  \A e \in Documents : Noted(e)' <=> Noted(e)
  BY Shapes DEF Unrecorded, Noted

(* A document takes the run from the stage before it to its own.           *)
LEMMA RecordLined ==
  ASSUME TypeOK, Lined, NEW d \in Documents \ {"artifact"}, NEW next, NEW end,
         Record(d, next, end), UNCHANGED <<verdicts, started>>, OnlyEnds,
         pipeline' \in {pipeline, "idle"}, Stages[StageOf[d] - 1],
         d # "preparation" => ~Noted(d), d # "preparation" => d # "commit",
         d = "preparation" => Noted("commit"),
         next \in DOMAIN Level, Level[next] = StageOf[d],
         next \in DOMAIN Awaited => Awaited[next] = d /\ d \in Reviewed
  PROVE  Lined' /\ Moves
<1>1. StageOf[d] \in 2..12
  BY DEF StageOf, Documents
<1>2. pipeline \notin Early
  <2>1. StageOf[d] - 1 \in 2..12
    BY DEF StageOf, Documents
  <2> QED
    BY <2>1, NotEarly DEF Lined
<1>3. \A e \in Documents \ {d} : docs'[e] = docs[e]
  BY RecordKeeps
<1>4. Late'
  <2>1. Noted("commit")' <=> Noted("commit")
    BY <1>3 DEF Documents, Noted
  <2>2. Noted("commit_proposal") => Noted("commit_proposal")'
    BY <1>3, RecordKeeps DEF Documents, Noted
  <2> QED
    BY <1>3, <2>1, <2>2 DEF Late, Lined, OnlyEnds, Committing, At, Documents
<1>5. CASE end = "file"
  <2>1. docs' = Unrecorded(d) /\ status' = status /\ step' = step
    BY <1>5 DEF Record, run
  <2>2. \A e \in Documents : Noted(e)' <=> Noted(e)
    BY <2>1, UnrecordedNotes
  <2>3. \A j \in 1..12 : Stages'[j] <=> Stages[j]
    BY <2>2, SameStages
  <2>4. Chain'
    BY <2>3, ChainKept DEF Lined
  <2>5. Begun'
    <3>1. \A e \in Reviewed : verdicts'[e] # "none" => Noted(e)'
      BY <2>2 DEF Lined, Begun, Reviewed, Documents
    <3>2. docs'["artifact"] = docs["artifact"]
      BY <1>3 DEF Documents
    <3> QED
      BY <1>2, <2>1, <3>1, <3>2, BegunKept DEF Lined
  <2>6. Placed'
    <3>1. step \in DOMAIN Level => Level[step] \in 1..12 /\ (Level[step] < 12 => Level[step] + 1 \in 1..12)
      BY DEF Level
    <3> QED
      BY <2>1, <2>3, <3>1 DEF Lined, Placed
  <2> QED
    BY <1>4, <2>3, <2>4, <2>5, <2>6 DEF Lined, Moves
<1>6. CASE end # "file"
  <2>1. docs' = [docs EXCEPT ![d] = "recorded"] /\ status' = "waiting_for_approval" /\ step' = next
    BY <1>6 DEF Record
  <2>2. Noted(d)'
    BY <2>1, Shapes DEF Noted
  <2>3. Advances(StageOf[d])
    BY <1>3, <2>2, DocumentAdvances
  <2>4. Chain' /\ Moves
    BY <1>1, <2>3, ChainKept DEF Lined, Moves
  <2>5. Begun'
    <3>1. \A e \in Reviewed : verdicts'[e] # "none" => Noted(e)'
      BY <1>3, <2>2 DEF Lined, Begun, Reviewed, Documents, Noted
    <3>2. docs'["artifact"] = docs["artifact"]
      BY <1>3 DEF Documents
    <3> QED
      BY <1>2, <2>1, <3>1, <3>2, BegunKept DEF Lined
  <2>6. Stages'[StageOf[d]]
    BY <2>2, StagesBecome DEF StageOf, Documents
  <2>7. ASSUME d # "preparation" PROVE StageOf[d] < 12 /\ ~Stages'[StageOf[d] + 1]
    <3>1. StageOf[d] < 12 /\ ~Stages[StageOf[d]]
      BY <2>7, StagesAre DEF StageOf, Documents
    <3>2. ~Stages[StageOf[d] + 1]
      BY <1>1, <3>1 DEF Lined, Chain
    <3> QED
      BY <1>1, <2>3, <3>1, <3>2 DEF Advances
  <2>8. next \in DOMAIN Awaited => verdicts'[Awaited[next]] = "none"
    BY DEF Lined, Begun, Reviewed
  <2>9. d = "preparation" => StageOf[d] = 12
    BY DEF StageOf
  <2> QED
    BY <1>4, <2>1, <2>4, <2>5, <2>6, <2>7, <2>8, <2>9 DEF Lined, Placed
<1> QED
  BY <1>5, <1>6

LEMMA DocumentLined ==
  ASSUME TypeOK, Lined, Document
  PROVE  Lined' /\ Moves
<1>1. PICK end \in Ends :
        \/ CreateProposal(end)
        \/ \E new \in [Paths -> {"none", "create", "modify"}] : CreateDraft(new, end)
        \/ ApplyDraft(end) \/ RunGates(end) \/ ProposeCommit(end)
  BY DEF Document
<1>2. ASSUME NEW d, NEW next, Writes(d, next, end)
      PROVE  Record(d, next, end) /\ OnlyEnds /\ pipeline' \in {pipeline, "idle"}
  BY <1>2, Ending DEF Writes
<1> USE DEF Level, Awaited, StageOf, Documents, Reviewed
<1>3. CASE CreateProposal(end)
  <2>1. Writes("proposal", "proposal_ready", end) /\ UNCHANGED <<verdicts, started>>
        /\ Approved("artifact") /\ ~Noted("proposal")
    BY <1>3 DEF CreateProposal, ProposalReady, ProposalStands
  <2>2. Stages[2]
    BY <2>1, StagesAre
  <2> QED
    BY <1>2, <2>1, <2>2, RecordLined
<1>4. CASE \E new \in [Paths -> {"none", "create", "modify"}] : CreateDraft(new, end)
  <2>1. Writes("draft", "draft_ready", end) /\ UNCHANGED <<verdicts, started>>
        /\ Approved("proposal") /\ ~Noted("draft")
    BY <1>4 DEF CreateDraft, DraftReady, DraftStands
  <2>2. Stages[4]
    BY <2>1, StagesAre
  <2> QED
    BY <1>2, <2>1, <2>2, RecordLined
<1>5. CASE ApplyDraft(end)
  <2>1. Writes("application", "patch_applied", end) /\ UNCHANGED <<verdicts, started>>
        /\ Approved("draft") /\ ~Noted("application")
    BY <1>5 DEF ApplyDraft, ApplicationReady, ApplicationStands, ApplicationUntried, ReviewsApproved,
                Noted
  <2>2. Stages[6]
    BY <2>1, StagesAre
  <2> QED
    BY <1>2, <2>1, <2>2, RecordLined
<1>6. CASE RunGates(end)
  <2>1. Writes("report", "gates_completed", end) /\ UNCHANGED <<verdicts, started>>
        /\ Noted("application") /\ ~Noted("report")
    BY <1>6 DEF RunGates, GatesReady, Noted, Recorded
  <2>2. Stages[7]
    BY <2>1, StagesAre
  <2> QED
    BY <1>2, <2>1, <2>2, RecordLined
<1>7. CASE ProposeCommit(end)
  <2>1. Writes("commit_proposal", "commit_proposed", end) /\ UNCHANGED <<verdicts, started>>
        /\ Approved("report") /\ ~Noted("commit_proposal")
    BY <1>7 DEF ProposeCommit, ProposalOfCommitReady, CommitProposalStands, Noted
  <2>2. Stages[9]
    BY <2>1, StagesAre
  <2> QED
    BY <1>2, <2>1, <2>2, RecordLined
<1> QED
  BY <1>1, <1>3, <1>4, <1>5, <1>6, <1>7

(* Steps of nobody who writes notes. *)
LEMMA AsideLined ==
  ASSUME TypeOK, Lined,
         \/ Apply \/ Crash \/ Outside \/ UNCHANGED vars
         \/ \E action \in {"approve", "request_fix", "stop"} : Close(action)
  PROVE  Lined' /\ Moves
<1>1. UNCHANGED <<docs, verdicts, started>>
  BY DEF Apply, ApplyProposal, ApplyBreaksOff, Crash, Outside, Edit, Stage, CommitElse, Switch, Deed,
         vars, Close, notes
<1>2. OnlyEnds /\ pipeline' \in {pipeline, "idle"}
  <2>1. CASE Apply \/ Crash
    <3>1. Dies \/ Lives
      BY <2>1 DEF Apply, ApplyProposal, ApplyBreaksOff, Crash
    <3> QED
      BY <3>1, Ending
  <2>2. CASE ~(Apply \/ Crash)
    BY <2>2 DEF Outside, Edit, Stage, CommitElse, Switch, Deed, vars, Close, actors, OnlyEnds
  <2> QED
    BY <2>1, <2>2
<1>3. /\ status' = status \/ status' # "none"
      /\ step' = step \/ step' = "decided"
  BY DEF Apply, ApplyProposal, ApplyBreaksOff, Crash, Outside, Edit, Stage, CommitElse, Switch, Deed,
         vars, Close, run
<1> QED
  BY <1>1, <1>2, <1>3, NotesKept DEF Level, Awaited

-----------------------------------------------------------------------------
(* The git requests *)

(* One commit is made, and recorded once, if the checkout is left to it.   *)
Once ==
  ~touched =>
    /\ \A q, r \in Requests : At(q, "rev_parse") /\ At(r, "rev_parse") => q = r
    /\ docs["commit"] # "none" => \A q \in Requests : Committing(q) => CommitMade /\ ~At(q, "rev_parse")

LEMMA CommandLined ==
  ASSUME TypeOK, Lined, NEW q \in Requests,
         \/ AskCommit(q) \/ CheckStaged(q) \/ GitCommit(q) \/ AskPreparation(q) \/ FailRequest(q)
         \/ \E p \in Paths : AddFile(q, p)
  PROVE  Lined' /\ Moves
<1>1. UNCHANGED <<docs, verdicts, started, status, step, pipeline>>
  BY DEF AskCommit, CheckStaged, GitCommit, AskPreparation, FailRequest, AddFile, run, notes
<1>2. \A j \in 1..12 : Stages'[j] <=> Stages[j]
  BY <1>1, SameStages DEF Noted
<1>3. Chain'
  BY <1>2, ChainKept DEF Lined
<1>4. Begun'
  BY <1>1, BegunKept DEF Lined, Begun, Noted
<1>5. Placed'
  <2>1. step \in DOMAIN Level => Level[step] \in 1..12 /\ (Level[step] < 12 => Level[step] + 1 \in 1..12)
    BY DEF Level
  <2> QED
    BY <1>1, <1>2, <2>1 DEF Lined, Placed
<1>6. Late'
  <2>1. request \in [Requests -> Waiting] /\ request[q] \in Waiting
    BY Shapes
  <2>2. \A r \in Requests \ {q} : request'[r] = request[r]
    BY <2>1 DEF AskCommit, CheckStaged, GitCommit, AskPreparation, FailRequest, AddFile, Goes, Leaves
  <2>3. Committing(q)' => Noted("commit_proposal")
    <3>1. CASE AskCommit(q)
      BY <3>1 DEF AskCommit, CommitReady, Recorded, Noted
    <3>2. CASE AskPreparation(q)
      BY <2>1, <3>2 DEF AskPreparation, Goes, Committing, Waiting
    <3>3. CASE FailRequest(q)
      BY <2>1, <3>3 DEF FailRequest, Leaves, Idle, Committing
    <3>4. CASE CheckStaged(q) \/ GitCommit(q) \/ \E p \in Paths : AddFile(q, p)
      BY <3>4 DEF CheckStaged, GitCommit, AddFile, Lined, Late, Committing, At
    <3> QED
      BY <3>1, <3>2, <3>3, <3>4
  <2>4. At(q, "inspect")' => Noted("commit")
    <3>1. CASE AskPreparation(q)
      BY <3>1 DEF AskPreparation, Recorded, Noted
    <3>2. CASE ~AskPreparation(q)
      <4>1. request'[q].wait # "inspect"
        BY <2>1, <3>2 DEF AskCommit, CheckStaged, GitCommit, FailRequest, AddFile, Goes, Leaves, Idle,
           Waiting
      <4> QED
        BY <4>1 DEF At
    <3> QED
      BY <3>1, <3>2
  <2> QED
    BY <1>1, <2>2, <2>3, <2>4 DEF Lined, Late, Noted, Committing, At
<1> QED
  BY <1>2, <1>3, <1>4, <1>5, <1>6 DEF Lined, Moves

LEMMA PreparationLined ==
  ASSUME TypeOK, Lined, NEW q \in Requests, NEW end \in Ends, PreparePullRequest(q, end)
  PROVE  Lined' /\ Moves
<1>1. /\ At(q, "inspect") /\ Record("preparation", "pull_request_prepared", end)
      /\ UNCHANGED <<verdicts, started>>
  BY DEF PreparePullRequest
<1>2. OnlyEnds /\ pipeline' \in {pipeline, "idle"}
  <2>1. CASE Dies
    BY <2>1, Ending
  <2>2. CASE ~Dies
    BY <2>2, Shapes DEF PreparePullRequest, Leaves, Idle, OnlyEnds
  <2> QED
    BY <2>1, <2>2
<1>3. Stages[11] /\ Noted("commit")
  BY <1>1, StagesAre DEF Lined, Late
<1> QED
  BY <1>1, <1>2, <1>3, RecordLined DEF Level, Awaited, StageOf, Documents

(* The notes of an old read take a preparation back, if somebody used the  *)
(* checkout.                                                               *)
LEMMA CommitLined ==
  ASSUME IInv, Lined, Once, NEW q \in Requests, NEW end \in Ends, RecordCommit(q, end)
  PROVE  Lined' /\ (touched' \/ Moves) /\ (~touched => docs["commit"] = "none")
<1>1. /\ At(q, "rev_parse") /\ UNCHANGED <<verdicts, started, touched>>
  BY DEF RecordCommit
<1>2. TypeOK /\ docs \in [Documents -> Files]
  BY Shapes DEF IInv
<1>3. OnlyEnds /\ pipeline' \in {pipeline, "idle"}
  <2>1. CASE Dies
    BY <2>1, Ending
  <2>2. CASE ~Dies
    BY <1>2, <2>2, Shapes DEF RecordCommit, Leaves, Idle, OnlyEnds
  <2> QED
    BY <2>1, <2>2
<1>4. Noted("commit_proposal") /\ Stages[10]
  BY <1>1, StagesAre DEF Lined, Late, Committing, At
<1>5. pipeline \notin Early
  BY <1>4, NotEarly DEF Lined
<1>6. ~touched => docs["commit"] = "none" /\ docs["preparation"] = "none"
  BY <1>1 DEF Once, Committing, At, Lined, Late, Noted
<1>7. CASE end = "file"
  <2>1. docs' = Unrecorded("commit") /\ status' = status /\ step' = step
    BY <1>7 DEF RecordCommit, run
  <2>2. \A e \in Documents : Noted(e)' <=> Noted(e)
    BY <1>2, <2>1, UnrecordedNotes DEF Documents
  <2>3. \A j \in 1..12 : Stages'[j] <=> Stages[j]
    BY <1>1, <2>2, SameStages
  <2>4. Chain'
    BY <2>3, ChainKept DEF Lined
  <2>5. docs'["artifact"] = docs["artifact"] /\ docs'["preparation"] = docs["preparation"]
    BY <1>2, <2>1 DEF Unrecorded, Documents
  <2>6. Begun'
    <3>1. \A e \in Reviewed : verdicts'[e] # "none" => Noted(e)'
      BY <1>1, <2>2 DEF Lined, Begun, Reviewed, Documents
    <3> QED
      BY <1>1, <1>3, <1>5, <2>1, <2>5, <3>1, BegunKept DEF Lined
  <2>7. Placed'
    <3>1. step \in DOMAIN Level => Level[step] \in 1..12 /\ (Level[step] < 12 => Level[step] + 1 \in 1..12)
      BY DEF Level
    <3> QED
      BY <1>1, <2>1, <2>3, <3>1 DEF Lined, Placed
  <2>8. Late'
    BY <1>3, <1>4, <2>2, <2>5 DEF Lined, Late, OnlyEnds, Committing, At, Documents
  <2> QED
    BY <1>6, <2>3, <2>4, <2>6, <2>7, <2>8 DEF Lined, Moves
<1>8. CASE end # "file"
  <2>1. /\ docs' = [docs EXCEPT !["commit"] = "recorded",
                      !["preparation"] = IF @ = "none" THEN "none" ELSE "written"]
        /\ status' = "waiting_for_approval" /\ step' = "commit_created"
    BY <1>8 DEF RecordCommit
  <2>2. /\ docs'["commit"] = "recorded"
        /\ docs'["preparation"] = IF docs["preparation"] = "none" THEN "none" ELSE "written"
        /\ \A e \in Documents \ {"commit", "preparation"} : docs'[e] = docs[e]
    BY <1>2, <2>1 DEF Documents
  <2>3. \A e \in Documents \ {"commit", "preparation"} : Noted(e)' <=> Noted(e)
    BY <2>2 DEF Noted
  <2>4. Stages'[11] /\ ~Stages'[12] /\ \A j \in 1..10 : Stages'[j] <=> Stages[j]
    BY <1>1, <2>2, <2>3, StagesAre, StagesBecome DEF Approved, Noted, Documents
  <2>5. Chain'
    BY <1>4, <2>4 DEF Lined, Chain
  <2>6. Begun'
    <3>1. \A e \in Reviewed : verdicts'[e] # "none" => Noted(e)'
      BY <1>1, <2>3 DEF Lined, Begun, Reviewed, Documents
    <3> QED
      BY <1>1, <1>3, <1>5, <2>1, <2>2, <3>1, BegunKept DEF Lined, Documents
  <2>7. Placed'
    BY <2>1, <2>4 DEF Placed, Level, Awaited
  <2>8. Late'
    BY <1>3, <1>4, <2>2, <2>3 DEF Late, Lined, OnlyEnds, Committing, At, Documents, Noted
  <2>9. ASSUME ~touched PROVE Advances(11)
    BY <1>4, <1>6, <2>4, <2>9, StagesAre DEF Advances, Noted
  <2> QED
    BY <1>1, <1>6, <2>5, <2>6, <2>7, <2>8, <2>9 DEF Lined, Moves
<1> QED
  BY <1>7, <1>8

LEMMA CalmOnce ==
  ASSUME IInv, Once, Calm
  PROVE  Once'
<1> SUFFICES ASSUME ~touched' PROVE Once'
  BY DEF Once
<1>1. /\ \A q, r \in Requests : At(q, "rev_parse") /\ At(r, "rev_parse") => q = r
      /\ docs["commit"] # "none" => \A q \in Requests : Committing(q) => CommitMade /\ ~At(q, "rev_parse")
  BY DEF Calm, Once
<1>2. \A q \in Requests : Committing(q)' => request'[q] = request[q]
  BY DEF Calm, NobodyBegins
<1>3. \A q, r \in Requests : At(q, "rev_parse")' /\ At(r, "rev_parse")' => q = r
  BY <1>1, <1>2 DEF Committing, At
<1>4. ASSUME docs'["commit"] # "none", NEW q \in Requests, Committing(q)'
      PROVE  CommitMade' /\ ~At(q, "rev_parse")'
  <2>1. request'[q] = request[q] /\ Committing(q) /\ docs["commit"] # "none"
    BY <1>2, <1>4 DEF Calm, Committing
  <2>2. git' = git /\ docs["commit_proposal"] # "none" /\ CommitMade /\ ~At(q, "rev_parse")
    BY <1>1, <2>1 DEF Calm, IInv, Settled
  <2>3. entries' = entries /\ target' = target
    BY <2>2 DEF Calm
  <2> QED
    BY <2>1, <2>2, <2>3 DEF CommitMade, AsApproved, Staged, HeadTree, Targets, At
<1> QED
  BY <1>3, <1>4 DEF Once

(* A file that is added on top of the commit is the committed one.         *)
LEMMA AddOnTop ==
  ASSUME IInv, NEW q \in Requests, NEW p \in Paths, AddFile(q, p), ~touched, CommitMade
  PROVE  CommitMade'
<1>1. /\ At(q, "add") /\ p \in request[q].todo
      /\ UNCHANGED <<entries, target>>
  BY DEF AddFile, work
<1>2. TypeOK /\ git \in Checkouts /\ git.index \in Trees
  BY Shapes DEF IInv, TypeOK
<1>3. /\ git'.log = git.log /\ git'.tip = git.tip /\ git'.head = git.head
      /\ git'.index = [git.index EXCEPT ![p] = git.tree[p]]
  BY <1>2 DEF AddFile, Checkouts
<1>4. p \in Targets /\ git.tree[p] = "draft" /\ OnRunBranch
  BY <1>1 DEF IInv, Undisturbed, Committing, At, FilesAsApplied
<1>5. git.index[p] = "draft"
  BY <1>2, <1>4 DEF CommitMade, AsApproved, Staged, HeadTree, OnRunBranch
<1>6. git'.index = git.index
  BY <1>2, <1>3, <1>4, <1>5 DEF Trees
<1> QED
  BY <1>1, <1>3, <1>6 DEF CommitMade, AsApproved, Staged, HeadTree, Targets

LEMMA CommandOnce ==
  ASSUME IInv, Once, Late, NEW q \in Requests,
         \/ AskCommit(q) \/ CheckStaged(q) \/ GitCommit(q)
         \/ \E p \in Paths : AddFile(q, p)
  PROVE  Once'
<1> SUFFICES ASSUME ~touched' PROVE Once'
  BY DEF Once
<1>1. ~touched /\ docs' = docs /\ UNCHANGED <<entries, target>>
  BY DEF AskCommit, CheckStaged, GitCommit, AddFile, notes, work, faults
<1>2. request \in [Requests -> Waiting] /\ request[q] \in Waiting
  BY Shapes DEF IInv
<1>3. \A r \in Requests \ {q} : request'[r] = request[r]
  BY <1>2 DEF AskCommit, CheckStaged, GitCommit, AddFile, Goes, Leaves
<1>4. /\ \A r, s \in Requests : At(r, "rev_parse") /\ At(s, "rev_parse") => r = s
      /\ docs["commit"] # "none" => \A r \in Requests : Committing(r) => CommitMade /\ ~At(r, "rev_parse")
  BY <1>1 DEF Once
<1>5. CASE GitCommit(q)
  <2>1. At(q, "commit") /\ Staged # {} /\ ~CommitMade
    BY <1>5 DEF GitCommit, CommitMade
  <2>2. docs["commit"] = "none"
    BY <1>4, <2>1 DEF Committing, At
  <2>3. \A r \in Requests : ~At(r, "rev_parse")
    BY <1>1, <2>1 DEF IInv, Undisturbed
  <2> QED
    BY <1>1, <1>3, <2>2, <2>3 DEF Once, At
<1>6. CASE AskCommit(q)
  <2>1. docs["commit"] = "none" /\ request'[q].wait = "add"
    BY <1>2, <1>6 DEF AskCommit, CommitReady, CommitStands
  <2> QED
    BY <1>1, <1>3, <1>4, <2>1 DEF Once, At
<1>7. CASE CheckStaged(q) \/ \E p \in Paths : AddFile(q, p)
  <2>1. Committing(q) /\ request'[q].wait # "rev_parse"
    BY <1>2, <1>7 DEF CheckStaged, AddFile, Goes, Leaves, Idle, Committing, At, Waiting
  <2>2. CommitMade => CommitMade'
    <3>1. CASE CheckStaged(q)
      BY <1>1, <3>1 DEF CheckStaged, CommitMade, AsApproved, Staged, HeadTree, Targets
    <3> QED
      BY <1>1, <1>7, <3>1, AddOnTop
  <2> QED
    BY <1>1, <1>3, <1>4, <2>1, <2>2 DEF Once, At, Committing
<1> QED
  BY <1>5, <1>6, <1>7

(* Whoever still commits when the commit is recorded finds it made. *)
LEMMA RecordOnce ==
  ASSUME IInv, Once, NEW q \in Requests, NEW end \in Ends, RecordCommit(q, end)
  PROVE  Once'
<1> SUFFICES ASSUME ~touched' PROVE Once'
  BY DEF Once
<1>1. ~touched /\ At(q, "rev_parse") /\ UNCHANGED <<entries, target, git>>
  BY DEF RecordCommit
<1>2. CommitMade /\ CommitMade'
  <2>1. CommitMade
    BY <1>1 DEF IInv, Undisturbed
  <2> QED
    BY <1>1, <2>1 DEF CommitMade, AsApproved, Staged, HeadTree, Targets
<1>3. ASSUME NEW r \in Requests PROVE ~At(r, "rev_parse")'
  <2>1. CASE Dies
    BY <2>1 DEF Dies, Idle, At
  <2>2. CASE ~Dies
    <3>1. Leaves(q) /\ request \in [Requests -> Waiting]
      BY <2>2, Shapes DEF RecordCommit, IInv
    <3> QED
      BY <1>1, <3>1 DEF Leaves, Idle, Once, At
  <2> QED
    BY <2>1, <2>2
<1> QED
  BY <1>2, <1>3 DEF Once

LEMMA OnceStep ==
  ASSUME IInv, Once, Late, [Next]_vars
  PROVE  Once' /\ (touched => touched')
<1>1. TypeOK /\ HeadExists /\ Settled /\ Grows
  BY LogStep DEF IInv
<1>2. CASE Start \/ Review \/ Document \/ Apply \/ Crash
           \/ (\E action \in {"approve", "request_fix", "stop"} : Close(action))
  <2>1. Calm
    BY <1>1, <1>2, StartCalm, ReviewCalm, DocumentCalm, ApplyCalm, CloseCalm
  <2> QED
    BY <2>1, CalmOnce DEF Calm
<1>3. CASE Pipeline
  <2>1. touched' = touched
    BY <1>1, <1>3, PipelineSettled
  <2>2. CASE ~touched
    <3>1. \A q \in Requests : Committing(q) => OnRunBranch
      BY <2>2 DEF IInv, Undisturbed
    <3> QED
      BY <1>1, <1>3, <2>1, <3>1, PipelineCalm, CalmOnce
  <2> QED
    BY <2>1, <2>2 DEF Once
<1>4. ASSUME NEW q \in Requests, Git(q) PROVE Once' /\ (touched => touched')
  <2>1. CASE AskPreparation(q) \/ FailRequest(q) \/ \E end \in Ends : PreparePullRequest(q, end)
    BY <1>1, <2>1, AsideCalm, CalmOnce DEF Calm
  <2>2. CASE AskCommit(q) \/ CheckStaged(q) \/ GitCommit(q) \/ \E p \in Paths : AddFile(q, p)
    <3>1. touched' = touched
      BY <2>2 DEF AskCommit, CheckStaged, GitCommit, AddFile, faults
    <3> QED
      BY <2>2, <3>1, CommandOnce
  <2>3. CASE \E end \in Ends : RecordCommit(q, end)
    BY <2>3, RecordOnce DEF RecordCommit
  <2> QED
    BY <1>4, <2>1, <2>2, <2>3 DEF Git
<1>5. CASE Outside
  <2>1. Deed
    BY <1>5 DEF Outside, Edit, Stage, CommitElse, Switch
  <2>2. docs' = docs /\ request' = request /\ (touched => touched')
        /\ (~touched' => \A q \in Requests : At(q, "idle"))
    BY <2>1 DEF Deed, notes, actors
  <2> QED
    BY <2>2 DEF Once, Committing, At
<1>6. CASE UNCHANGED vars
  <2>1. Calm
    BY <1>6 DEF vars, Calm, NobodyBegins
  <2> QED
    BY <2>1, CalmOnce DEF Calm
<1> QED
  BY <1>2, <1>3, <1>4, <1>5, <1>6 DEF Next

LEMMA LinedStep ==
  ASSUME IInv, Lined, Once, [Next]_vars
  PROVE  Lined' /\ Once' /\ (touched' \/ Moves)
<1>1. TypeOK /\ Once' /\ (touched => touched')
  BY OnceStep DEF IInv, Lined
<1>2. ASSUME NEW q \in Requests, Git(q) PROVE Lined' /\ (touched' \/ Moves)
  <2>1. CASE \E end \in Ends : RecordCommit(q, end)
    BY <2>1, CommitLined
  <2>2. CASE \E end \in Ends : PreparePullRequest(q, end)
    BY <1>1, <2>2, PreparationLined
  <2> QED
    BY <1>1, <1>2, <2>1, <2>2, CommandLined DEF Git
<1> QED
  BY <1>1, <1>2, StartLined, PipelineLined, ReviewLined, DocumentLined, AsideLined DEF Next

LEMMA LinedInit == Init => Lined /\ Once
<1> SUFFICES ASSUME Init PROVE Lined /\ Once
  OBVIOUS
<1>1. \A d \in Documents : docs[d] = "none"
  BY DEF Init
<1>2. \A d \in Reviewed : verdicts[d] = "none"
  BY DEF Init
<1>3. Chain
  BY <1>1, <1>2, StagesAre DEF Chain, Noted, Approved, Documents, Reviewed
<1>4. Begun
  BY <1>1, <1>2 DEF Init, Begun, Early, Documents
<1>5. Placed
  BY DEF Init, Placed, Level, Awaited
<1>6. \A q \in Requests : request[q].wait = "idle"
  BY DEF Init, Idle
<1>7. Late /\ Once
  BY <1>1, <1>6 DEF Late, Once, Committing, At, Documents
<1> QED
  BY <1>3, <1>4, <1>5, <1>7 DEF Lined

LEMMA LinedAlways == Spec => [](IInv /\ Lined /\ Once)
<1>1. Init => IInv /\ Lined /\ Once
  BY IInvInit, LinedInit
<1>2. (IInv /\ Lined /\ Once) /\ [Next]_vars => (IInv /\ Lined /\ Once)'
  BY IInvStep, LinedStep
<1> QED
  BY <1>1, <1>2, PTL DEF Spec

(* The documents and decisions of a run come one by one, each on top of    *)
(* all the earlier ones, and none is ever lost, whatever overlaps or dies: *)
(* of two commits under way one is made and recorded, and what the notes   *)
(* of an old read would take back is not there yet (createVeraCommit).     *)
THEOREM StepsComeInOrder == Spec => StepsInOrder
<1>1. IInv /\ Lined /\ Once /\ [Next]_vars
        => [touched' \/ Reached' \in {Reached, Reached + 1}]_vars
  BY LinedStep, ChainKept DEF Lined, Moves
<1>2. [touched' \/ Reached' \in {Reached, Reached + 1}]_vars
        => [notes' # notes => touched' \/ Reached' \in {Reached, Reached + 1}]_vars
  OBVIOUS
<1> QED
  BY <1>1, <1>2, LinedAlways, PTL DEF Spec, StepsInOrder

-----------------------------------------------------------------------------
(* The dead ends of an approved draft *)

(* Up to the commit a document that is recorded is never written again.    *)
Fresh == \A d \in Documents \ {"commit", "preparation"} : docs[d] # "stale"

(* Nobody but the bridge wrote the files: one that is missing was never    *)
(* staged or committed.                                                    *)
Missing == deeds = 0 =>
  \A p \in Paths : git.tree[p] = "absent" => git.index[p] = "absent" /\ HeadTree[p] = "absent"

LEMMA FreshRecord ==
  ASSUME TypeOK, Fresh, NEW d \in Documents, NEW next, NEW end, Record(d, next, end),
         d \in {"commit", "preparation"} \/ ~Noted(d)
  PROVE  Fresh'
<1>1. \A e \in Documents \ {d} : docs'[e] = docs[e]
  BY RecordKeeps
<1>2. ~Noted(d) => docs'[d] # "stale"
  BY Shapes DEF Record, Unrecorded, Noted
<1> QED
  BY <1>1, <1>2 DEF Fresh

LEMMA FreshStep ==
  ASSUME TypeOK, Fresh, [Next]_vars
  PROVE  Fresh'
<1>1. CASE docs' = docs
  BY <1>1 DEF Fresh
<1>2. CASE Start \/ Review \/ Apply \/ Outside \/ Crash \/ UNCHANGED vars
           \/ \E action \in {"approve", "request_fix", "stop"} : Close(action)
  <2>1. docs' = docs
    BY <1>2 DEF Start, PrepareRun, RequestApproval, StartExecution, Review, ReviewArtifact,
       ReviewProposal, ReviewDraft, ReviewReport, Decides, Apply, ApplyProposal, ApplyBreaksOff,
       Outside, Edit, Stage, CommitElse, Switch, Deed, Crash, vars, Close, notes
  <2> QED
    BY <1>1, <2>1
<1>3. CASE Pipeline
  <2>1. \/ docs' = docs
        \/ docs' = [docs EXCEPT !["artifact"] = "recorded"]
        \/ docs' = [docs EXCEPT !["artifact"] = "written"]
    BY <1>3 DEF Pipeline, VerifyRepo, AwaitReview, RefreshEvidence, FailPipeline, ImplementArtifact,
                WorkerDies, notes
  <2> QED
    BY <2>1, Shapes DEF Fresh
<1>4. CASE Document
  <2>1. PICK end \in Ends :
          \/ CreateProposal(end)
          \/ \E new \in [Paths -> {"none", "create", "modify"}] : CreateDraft(new, end)
          \/ ApplyDraft(end) \/ RunGates(end) \/ ProposeCommit(end)
    BY <1>4 DEF Document
  <2>2. CASE CreateProposal(end)
    <3>1. Record("proposal", "proposal_ready", end) /\ ~Noted("proposal")
      BY <2>2 DEF CreateProposal, ProposalReady, ProposalStands, Writes
    <3> QED
      BY <3>1, FreshRecord DEF Documents
  <2>3. CASE \E new \in [Paths -> {"none", "create", "modify"}] : CreateDraft(new, end)
    <3>1. Record("draft", "draft_ready", end) /\ ~Noted("draft")
      BY <2>3 DEF CreateDraft, DraftReady, DraftStands, Writes
    <3> QED
      BY <3>1, FreshRecord DEF Documents
  <2>4. CASE ApplyDraft(end)
    <3>1. Record("application", "patch_applied", end) /\ ~Noted("application")
      BY <2>4 DEF ApplyDraft, ApplicationReady, ApplicationUntried, Writes, Noted
    <3> QED
      BY <3>1, FreshRecord DEF Documents
  <2>5. CASE RunGates(end)
    <3>1. Record("report", "gates_completed", end) /\ ~Noted("report")
      BY <2>5 DEF RunGates, GatesReady, Writes, Noted
    <3> QED
      BY <3>1, FreshRecord DEF Documents
  <2>6. CASE ProposeCommit(end)
    <3>1. Record("commit_proposal", "commit_proposed", end) /\ ~Noted("commit_proposal")
      BY <2>6 DEF ProposeCommit, ProposalOfCommitReady, CommitProposalStands, Writes, Noted
    <3> QED
      BY <3>1, FreshRecord DEF Documents
  <2> QED
    BY <2>1, <2>2, <2>3, <2>4, <2>5, <2>6
<1>5. ASSUME NEW q \in Requests, Git(q) PROVE Fresh'
  <2>1. CASE \E end \in Ends : RecordCommit(q, end)
    <3>1. \A d \in Documents \ {"commit", "preparation"} : docs'[d] = docs[d]
      BY <2>1, Shapes DEF RecordCommit, Unrecorded
    <3> QED
      BY <3>1 DEF Fresh
  <2>2. ASSUME NEW end \in Ends, PreparePullRequest(q, end) PROVE Fresh'
    BY <2>2, FreshRecord DEF PreparePullRequest, Documents
  <2>3. CASE AskCommit(q) \/ CheckStaged(q) \/ GitCommit(q) \/ AskPreparation(q) \/ FailRequest(q)
             \/ \E p \in Paths : AddFile(q, p)
    <3>1. docs' = docs
      BY <2>3 DEF AskCommit, CheckStaged, GitCommit, AskPreparation, FailRequest, AddFile, notes
    <3> QED
      BY <1>1, <3>1
  <2> QED
    BY <1>5, <2>1, <2>2, <2>3 DEF Git
<1> QED
  BY <1>2, <1>3, <1>4, <1>5 DEF Next

LEMMA MissingStep ==
  ASSUME TypeOK, HeadExists, Missing, [Next]_vars
  PROVE  Missing'
<1> SUFFICES ASSUME deeds' = 0 PROVE Missing'
  BY DEF Missing
<1>1. git \in Checkouts /\ git.tree \in Trees /\ git.index \in Trees /\ Len(git.log) \in Nat
      /\ git.head \in Branches /\ git.tip \in [Branches -> Commits] /\ "run" \in Branches
      /\ deeds \in Nat
  BY Shapes, Bounds DEF TypeOK, Branches
<1>2. CASE git' = git /\ deeds' = deeds
  BY <1>2 DEF Missing, HeadTree
<1>3. CASE Start \/ Review \/ Crash \/ UNCHANGED vars
           \/ \E action \in {"approve", "request_fix", "stop"} : Close(action)
  <2>1. git' = git /\ deeds' = deeds
    BY <1>3 DEF Start, PrepareRun, RequestApproval, StartExecution, Review, ReviewArtifact,
       ReviewProposal, ReviewDraft, ReviewReport, Decides, Crash, vars, Close, faults
  <2> QED
    BY <1>2, <2>1
<1>4. ASSUME NEW made \in BOOLEAN, MakeBranch(made), deeds' = deeds PROVE Missing'
  <2>1. CASE git' = git
    BY <1>2, <1>4, <2>1
  <2>2. CASE git' # git
    <3>1. git' = [git EXCEPT !.tip["run"] = git.tip[git.head], !.head = "run"]
      BY <1>4, <2>2 DEF MakeBranch
    <3>2. /\ git'.tree = git.tree /\ git'.index = git.index /\ git'.log = git.log
          /\ git'.head = "run" /\ git'.tip["run"] = git.tip[git.head]
      BY <1>1, <3>1 DEF Checkouts
    <3> QED
      BY <1>4, <3>2 DEF Missing, HeadTree
  <2> QED
    BY <2>1, <2>2
<1>5. CASE Pipeline
  <2>1. deeds' = deeds
    BY <1>5 DEF Pipeline, VerifyRepo, AwaitReview, RefreshEvidence, FailPipeline, ImplementArtifact,
                WorkerDies, faults
  <2> QED
    BY <1>2, <1>4, <1>5, <2>1 DEF Pipeline, VerifyRepo, AwaitReview, RefreshEvidence, FailPipeline,
       ImplementArtifact, WorkerDies
<1>6. ASSUME NEW some, git' = Written(some), deeds' = deeds PROVE Missing'
  <2>1. /\ git'.tree = [p \in Paths |-> IF p \in some THEN "draft" ELSE git.tree[p]]
        /\ git'.index = git.index /\ git'.log = git.log /\ git'.head = git.head /\ git'.tip = git.tip
    BY <1>1, <1>6 DEF Written, Checkouts
  <2> QED
    BY <1>6, <2>1 DEF Missing, HeadTree
<1>7. CASE Document \/ Apply
  <2>1. deeds' = deeds
    BY <1>7 DEF Document, CreateProposal, CreateDraft, ApplyDraft, RunGates, ProposeCommit, Apply,
                ApplyProposal, ApplyBreaksOff
  <2> QED
    BY <1>2, <1>6, <1>7, <2>1 DEF Document, CreateProposal, CreateDraft, ApplyDraft, RunGates,
       ProposeCommit, Apply, ApplyProposal, ApplyBreaksOff
<1>8. ASSUME NEW q \in Requests, Git(q) PROVE Missing'
  <2>1. deeds' = deeds
    BY <1>8 DEF Git, AskCommit, CheckStaged, GitCommit, AskPreparation, FailRequest, AddFile,
                RecordCommit, PreparePullRequest, faults
  <2>2. ASSUME NEW p \in Paths, AddFile(q, p) PROVE Missing'
    <3>1. /\ git'.index = [git.index EXCEPT ![p] = git.tree[p]] /\ git'.tree = git.tree
          /\ git'.log = git.log /\ git'.head = git.head /\ git'.tip = git.tip
      BY <1>1, <2>2 DEF AddFile, Checkouts
    <3>2. \A x \in Paths : git'.index[x] = git.index[x] \/ git'.index[x] = git.tree[x]
      BY <1>1, <3>1 DEF Trees
    <3> QED
      BY <2>1, <3>1, <3>2 DEF Missing, HeadTree
  <2>3. CASE GitCommit(q)
    <3>1. git' = Committed
      BY <2>3 DEF GitCommit
    <3>2. /\ git'.log = Append(git.log, [tree |-> git.index, parent |-> git.tip[git.head]])
          /\ git'.tip[git.head] = Len(git.log) + 1
          /\ git'.head = git.head /\ git'.tree = git.tree /\ git'.index = git.index
      BY <1>1, <3>1 DEF Committed, Checkouts
    <3>3. git'.log[Len(git.log) + 1] = [tree |-> git.index, parent |-> git.tip[git.head]]
      BY <1>1, <3>2
    <3>4. HeadTree' = git.index
      BY <3>2, <3>3 DEF HeadTree
    <3> QED
      BY <2>1, <3>2, <3>4 DEF Missing
  <2>4. CASE AskCommit(q) \/ CheckStaged(q) \/ AskPreparation(q) \/ FailRequest(q)
             \/ \E end \in Ends : RecordCommit(q, end) \/ PreparePullRequest(q, end)
    <3>1. git' = git
      BY <2>4 DEF AskCommit, CheckStaged, AskPreparation, FailRequest, RecordCommit, PreparePullRequest
    <3> QED
      BY <1>2, <2>1, <3>1
  <2> QED
    BY <1>8, <2>2, <2>3, <2>4 DEF Git
<1>9. CASE Outside
  <2>1. deeds' = deeds + 1
    BY <1>9 DEF Outside, Edit, Stage, CommitElse, Switch, Deed
  <2> QED
    BY <1>1, <2>1
<1> QED
  BY <1>3, <1>5, <1>7, <1>8, <1>9 DEF Next

LEMMA FreshInit == Init => Fresh /\ Missing
<1> SUFFICES ASSUME Init PROVE Fresh /\ Missing
  OBVIOUS
<1>1. Fresh
  BY DEF Init, Fresh
<1>2. PICK tree \in [Paths -> {"absent", "base"}] :
        git = [tree |-> tree, index |-> tree, log |-> <<[tree |-> tree, parent |-> 0]>>,
               tip |-> [b \in Branches |-> IF b = "other" THEN 1 ELSE 0], head |-> "other"]
  BY DEF Init
<1>3. HeadTree = tree
  BY <1>2 DEF HeadTree, Branches
<1> QED
  BY <1>1, <1>2, <1>3 DEF Missing

(* A run that waits with its draft approved has every review and the draft *)
(* on record and nothing applied.                                          *)
LEMMA DraftOnRecord ==
  ASSUME TypeOK, Lined, Fresh, step = "draft_approved"
  PROVE  ReviewsApproved /\ Recorded("draft") /\ docs["application"] \in {"none", "written"}
<1>1. Stages[6] /\ ~Stages[7]
  BY DEF Lined, Placed, Level
<1>2. Stages[2] /\ Stages[4] /\ Stages[5]
  BY <1>1 DEF Lined, Chain
<1>3. ReviewsApproved /\ Noted("draft") /\ ~Noted("application")
  BY <1>1, <1>2, StagesAre DEF ReviewsApproved
<1>4. docs["application"] \in Files /\ docs["draft"] # "stale"
  BY Shapes DEF Fresh, Documents
<1> QED
  BY <1>3, <1>4 DEF Recorded, Noted, Files

(* The dead ends of an approved draft are the four that are named: its     *)
(* reviews and its record cannot be lost, and a file to modify that is     *)
(* missing was not in the commit it starts from.                           *)
THEOREM ApplicationEndsWhereItSays == Spec => []DeadEndsOfApplication
<1>1. Init => IInv /\ Lined /\ Once /\ Fresh /\ Missing
  BY IInvInit, LinedInit, FreshInit
<1>2. (IInv /\ Lined /\ Once /\ Fresh /\ Missing) /\ [Next]_vars
        => (IInv /\ Lined /\ Once /\ Fresh /\ Missing)'
  BY IInvStep, LinedStep, FreshStep, MissingStep DEF IInv
<1>3. IInv /\ Lined /\ Fresh /\ Missing => DeadEndsOfApplication
  <2> SUFFICES ASSUME IInv, Lined, Fresh, Missing, WaitsAt("draft_approved"), deeds = 0,
                      ~ApplicationReady, docs["application"] # "written", PanelAllows
               PROVE  \/ \E p \in Targets : entries[p] = "create" /\ git.tree[p] # "absent"
                      \/ \E p \in Targets : entries[p] = "modify" /\ HeadTree[p] = "absent"
    BY DEF DeadEndsOfApplication
  <2>1. ReviewsApproved /\ Recorded("draft") /\ docs["application"] = "none"
    BY DraftOnRecord DEF IInv, WaitsAt
  <2>2. PICK p \in Paths : ~EntryFits(p)
    BY <2>1 DEF ApplicationReady, ApplicationStands, ApplicationUntried
  <2>3. entries[p] \in {"none", "create", "modify"}
    BY DEF IInv, TypeOK
  <2>4. entries[p] # "none" /\ p \in Targets
    BY <2>2 DEF EntryFits, Targets
  <2>5. CASE entries[p] = "create"
    BY <2>2, <2>4, <2>5 DEF EntryFits
  <2>6. CASE entries[p] = "modify"
    <3>1. git.tree[p] = "absent"
      BY <2>2, <2>6 DEF EntryFits
    <3> QED
      BY <2>4, <2>6, <3>1 DEF Missing
  <2> QED
    BY <2>3, <2>4, <2>5, <2>6
<1> QED
  BY <1>1, <1>2, <1>3, PTL DEF Spec

LEMMA First ==
  ASSUME NEW S, NEW a \in S, NEW b \in S
  PROVE  SubSeq(<<a, b>>, 1, 1) = <<a>>
<1>1. <<a, b>> \in Seq(S)
  OBVIOUS
<1>2. <<a>> \in Seq(S) /\ Len(<<a>>) = 1
  OBVIOUS
<1> DEFINE s == <<a, b>>
<1>3. s[1] = a /\ Len(s) = 2
  OBVIOUS
<1> HIDE DEF s
<1>4. s \in Seq(S)
  BY <1>1 DEF s
<1>5. \A i \in 1..1 : s[i] \in S
  BY <1>3
<1>6. SubSeq(s, 1, 1) \in Seq(S) /\ Len(SubSeq(s, 1, 1)) = 1
  BY <1>5, SubSeqProperties
<1>7. SubSeq(s, 1, 1)[1] = a
  BY <1>3, <1>4
<1>8. \A i \in 1..1 : SubSeq(s, 1, 1)[i] = <<a>>[i]
  BY <1>7
<1>9. SubSeq(s, 1, 1) = <<a>>
  BY <1>2, <1>6, <1>8, SeqEqual
<1> QED
  BY <1>9 DEF s

LEMMA Begin ==
  /\ SubSeq(Made, 1, Len(Made) - 1) = <<"request">>
  /\ SubSeq(Denied, 1, Len(Denied) - 1) = <<"request">>
  /\ SubSeq(<<"request", "failure">>, 1, Len(<<"request", "failure">>) - 1) = <<"request">>
  /\ SubSeq(<<"record">>, 1, Len(<<"record">>) - 1) = <<>>
<1>1. \A a, b \in Parts : SubSeq(<<a, b>>, 1, 1) = <<a>>
  BY First
<1>2. {"request", "record", "refusal", "failure"} \subseteq Parts
  BY DEF Parts
<1>3. Len(Made) - 1 = 1 /\ Len(Denied) - 1 = 1 /\ Len(<<"request", "failure">>) - 1 = 1
      /\ Len(<<"record">>) - 1 = 0
  BY DEF Made, Denied
<1>4. SubSeq(<<"record">>, 1, 0) = <<>>
  OBVIOUS
<1> QED
  BY <1>1, <1>2, <1>3, <1>4 DEF Made, Denied

LEMMA HasRecord ==
  /\ Has(Made, "record") /\ Has(<<"record">>, "record")
  /\ ~Has(<<>>, "record") /\ ~Has(<<"request">>, "record") /\ ~Has(<<"refusal">>, "record")
  /\ ~Has(Denied, "record") /\ ~Has(<<"request", "repeat">>, "record")
  /\ ~Has(<<"request", "failure">>, "record")
  BY DEF Has, Made, Denied

(* What a handler appends that made its document, by how far it gets, *)
LEMMA ToldMade ==
  ASSUME NEW x \in Subjects, NEW end \in Ends, Reaches(x, Made, end)
  PROVE  /\ end = "answer" => told' = [told EXCEPT ![x] = @ + 1]
         /\ end # "answer" => told' = told /\ x \in unanswered'
         /\ unanswered \subseteq unanswered'
<1>1. Len(<<"request">>) = 1 /\ <<"request">>[1] = "request" /\ <<"request">> # <<>>
  OBVIOUS
<1> QED
  BY <1>1, Begin, HasRecord DEF Reaches, Appends

(* and one that did not. *)
LEMMA ToldNothing ==
  ASSUME NEW x, NEW events, Appends(x, events), ~Has(events, "record")
  PROVE  told' = told /\ unanswered \subseteq unanswered'
  BY DEF Appends

LEMMA ToldDone ==
  ASSUME NEW x, Appends(x, Made)
  PROVE  told' = [told EXCEPT ![x] = @ + 1] /\ unanswered \subseteq unanswered'
  BY HasRecord DEF Appends

LEMMA ToldSilent ==
  ASSUME Silent
  PROVE  told' = told /\ unanswered \subseteq unanswered'
  BY HasRecord, ToldNothing DEF Silent

(* The bridge goes on as before. *)
LEMMA TrailIsBridge ==
  ASSUME [TrailNext]_<<vars, trail>>
  PROVE  [Next]_vars
<1>1. ASSUME NEW end \in Ends, StartTold(end) PROVE Start
  BY <1>1 DEF StartTold, Start
<1>2. ASSUME NEW end \in Ends, DocumentTold(end) PROVE Document
  BY <1>2 DEF DocumentTold, Document
<1>3. ASSUME NEW verdict \in Decisions, NEW end \in Ends, ReviewTold(verdict, end) PROVE Review
  BY <1>3 DEF ReviewTold, Review
<1>4. ASSUME NEW made \in BOOLEAN, WorkerTold(made) PROVE Pipeline
  BY <1>4 DEF WorkerTold, Pipeline
<1>5. ASSUME ApplyTold PROVE Apply
  BY <1>5 DEF ApplyTold, Apply
<1>6. ASSUME NEW q \in Requests, GitTold(q) PROVE Git(q)
  BY <1>6 DEF GitTold, Git
<1>7. ASSUME NEW subject, Denies(subject) PROVE UNCHANGED vars
  BY <1>7 DEF Denies
<1>8. CASE UNCHANGED <<vars, trail>>
  BY <1>8
<1> QED
  BY <1>1, <1>2, <1>3, <1>4, <1>5, <1>6, <1>7, <1>8 DEF TrailNext, Next, Pipeline

LEMMA TrailLined == TrailSpec => [](IInv /\ Lined /\ Once)
<1>1. TrailInit => IInv /\ Lined /\ Once
  BY IInvInit, LinedInit DEF TrailInit
<1>2. (IInv /\ Lined /\ Once) /\ [TrailNext]_<<vars, trail>> => (IInv /\ Lined /\ Once)'
  BY TrailIsBridge, IInvStep, LinedStep
<1> QED
  BY <1>1, <1>2, PTL DEF TrailSpec

-----------------------------------------------------------------------------
(* What the ledger tells of a step *)

Astray(x) == ~(Told(x) <=> OnRecord(x))

Partial(x) ==
  /\ x \in DOMAIN FileOf
  /\ docs[FileOf[x]] \in {"written", "stale"}
  /\ ~Told(x)

Tale(x) ==
  /\ x # "preparation" => told[x] <= 1
  /\ x # "worker" /\ Told(x) => OnRecord(x)
  /\ Astray(x) \/ Partial(x) => x \in unanswered \/ (x = "worker" /\ Told(x))

WorkerUntold == ~started \/ pipeline \in {"verify", "branch"} => told["worker"] = 0

TInv ==
  /\ told \in [Subjects -> Nat]
  /\ WorkerUntold
  /\ ~touched => /\ \A x \in Kept : Tale(x)
                 /\ Cardinality({x \in Kept : Astray(x)}) <= crashes

(* What is decided at a step. *)
ReviewOf == [artifact |-> "artifact", proposal_review |-> "proposal", draft_review |-> "draft",
             report_review |-> "report"]

LEMMA OnRecordIs ==
  /\ OnRecord("run") <=> status # "none"
  /\ OnRecord("start") <=> started
  /\ OnRecord("worker") <=> Noted("artifact")
  /\ OnRecord("artifact") <=> verdicts["artifact"] # "none"
  /\ OnRecord("proposal") <=> Noted("proposal")
  /\ OnRecord("proposal_review") <=> verdicts["proposal"] # "none"
  /\ OnRecord("draft") <=> Noted("draft")
  /\ OnRecord("draft_review") <=> verdicts["draft"] # "none"
  /\ OnRecord("application") <=> Noted("application")
  /\ OnRecord("gates") <=> Noted("report")
  /\ OnRecord("report_review") <=> verdicts["report"] # "none"
  /\ OnRecord("commit_proposal") <=> Noted("commit_proposal")
  /\ OnRecord("commit") <=> Noted("commit")
  /\ OnRecord("preparation") <=> Noted("preparation")
  BY DEF OnRecord

LEMMA OnRecordBecomes ==
  /\ OnRecord("run")' <=> status' # "none"
  /\ OnRecord("start")' <=> started'
  /\ OnRecord("worker")' <=> Noted("artifact")'
  /\ OnRecord("artifact")' <=> verdicts'["artifact"] # "none"
  /\ OnRecord("proposal")' <=> Noted("proposal")'
  /\ OnRecord("proposal_review")' <=> verdicts'["proposal"] # "none"
  /\ OnRecord("draft")' <=> Noted("draft")'
  /\ OnRecord("draft_review")' <=> verdicts'["draft"] # "none"
  /\ OnRecord("application")' <=> Noted("application")'
  /\ OnRecord("gates")' <=> Noted("report")'
  /\ OnRecord("report_review")' <=> verdicts'["report"] # "none"
  /\ OnRecord("commit_proposal")' <=> Noted("commit_proposal")'
  /\ OnRecord("commit")' <=> Noted("commit")'
  /\ OnRecord("preparation")' <=> Noted("preparation")'
  BY DEF OnRecord

LEMMA KeptAre ==
  /\ Kept \subseteq Subjects
  /\ Kept = {"run", "start", "worker", "artifact", "proposal", "proposal_review", "draft",
             "draft_review", "application", "gates", "report_review", "commit_proposal", "commit",
             "preparation"}
  BY DEF Kept, Subjects

LEMMA KeptFinite == IsFiniteSet(Kept)
<1> DEFINE s == <<"run", "start", "worker", "artifact", "proposal", "proposal_review", "draft",
                  "draft_review", "application", "gates", "report_review", "commit_proposal",
                  "commit", "preparation">>
<1>1. s \in Seq(Kept)
  BY KeptAre
<1>2. \A x \in Kept : \E n \in 1..Len(s) : s[n] = x
  BY KeptAre
<1> QED
  BY <1>1, <1>2 DEF IsFiniteSet

(* A step about x changes nothing that matters to the others. *)
About(x) ==
  \A y \in Kept \ {x} :
    /\ told'[y] = told[y]
    /\ OnRecord(y)' <=> OnRecord(y)
    /\ y \in DOMAIN FileOf => docs'[FileOf[y]] = docs[FileOf[y]]

LEMMA AboutIs ==
  ASSUME told \in [Subjects -> Nat], NEW x \in Subjects,
         told' = told \/ told' = [told EXCEPT ![x] = @ + 1],
         x = "run" \/ (status' = "none" <=> status = "none"),
         x = "start" \/ started' = started,
         \A d \in Documents : (x \in DOMAIN FileOf /\ FileOf[x] = d) \/ docs'[d] = docs[d],
         \A d \in Reviewed : (x \in DOMAIN ReviewOf /\ ReviewOf[x] = d) \/ verdicts'[d] = verdicts[d]
  PROVE  About(x)
<1>1. ASSUME NEW y \in Kept \ {x} PROVE told'[y] = told[y]
  BY KeptAre
<1>2. ASSUME NEW y \in Kept \ {x}, y \in DOMAIN FileOf PROVE docs'[FileOf[y]] = docs[FileOf[y]]
  BY <1>2 DEF FileOf, Documents
<1>3. ASSUME NEW d \in Documents, docs'[d] = docs[d] PROVE Noted(d)' <=> Noted(d)
  BY <1>3 DEF Noted
<1>4. ASSUME NEW y \in Kept \ {x} PROVE OnRecord(y)' <=> OnRecord(y)
  <2>1. CASE y \in {"run", "start"}
    BY <1>4, <2>1, OnRecordIs, OnRecordBecomes
  <2>2. CASE y \in {"worker", "proposal", "draft", "application", "gates", "commit_proposal",
                    "commit", "preparation"}
    BY <1>3, <1>4, <2>2, OnRecordIs, OnRecordBecomes DEF FileOf, Documents
  <2>3. CASE y \in {"artifact", "proposal_review", "draft_review", "report_review"}
    BY <1>4, <2>3, OnRecordIs, OnRecordBecomes DEF ReviewOf, Reviewed
  <2> QED
    BY <2>1, <2>2, <2>3, KeptAre
<1> QED
  BY <1>1, <1>2, <1>4 DEF About

LEMMA TaleStep ==
  ASSUME TypeOK, TInv, told' \in [Subjects -> Nat], WorkerUntold',
         unanswered \subseteq unanswered', touched => touched',
         crashes' \in Nat, crashes <= crashes', NEW x \in Subjects,
         ~touched' => About(x),
         ~touched' /\ x \in Kept => Tale(x)' /\ (Astray(x)' => Astray(x) \/ crashes' = crashes + 1)
  PROVE  TInv'
<1> SUFFICES ASSUME ~touched'
             PROVE  (\A y \in Kept : Tale(y)') /\ Cardinality({y \in Kept : Astray(y)'}) <= crashes'
  BY DEF TInv
<1>1. (\A y \in Kept : Tale(y)) /\ Cardinality({y \in Kept : Astray(y)}) <= crashes
  BY DEF TInv
<1>2. ASSUME NEW y \in Kept \ {x} PROVE Tale(y)' /\ (Astray(y)' <=> Astray(y))
  <2>1. /\ told'[y] = told[y] /\ (OnRecord(y)' <=> OnRecord(y))
        /\ y \in DOMAIN FileOf => docs'[FileOf[y]] = docs[FileOf[y]]
    BY <1>2 DEF About
  <2>2. (Told(y)' <=> Told(y)) /\ (Astray(y)' <=> Astray(y)) /\ (Partial(y)' <=> Partial(y))
    BY <2>1 DEF Told, Astray, Partial
  <2> QED
    BY <1>1, <2>1, <2>2 DEF Tale
<1>3. \A y \in Kept : Tale(y)'
  BY <1>2
<1> DEFINE Now == {y \in Kept : Astray(y)}
           Then == {y \in Kept : Astray(y)'}
<1>4. IsFiniteSet(Kept)
  BY KeptFinite
<1>5. IsFiniteSet(Now) /\ IsFiniteSet(Then)
  <2>1. Now \subseteq Kept /\ Then \subseteq Kept
    OBVIOUS
  <2> QED
    BY <1>4, <2>1, FS_Subset
<1>6. Cardinality(Now) <= crashes /\ crashes \in Nat
  BY <1>1, Bounds DEF TypeOK
<1>7. (Then \subseteq Now \cup {x} /\ x \in Kept /\ crashes' = crashes + 1) \/ Then \subseteq Now
  BY <1>2
<1> HIDE DEF Now, Then
<1>8. Cardinality(Now) \in Nat /\ Cardinality(Then) \in Nat
  BY <1>5, FS_CardinalityType
<1>9. CASE Then \subseteq Now
  <2>1. Cardinality(Then) <= Cardinality(Now)
    BY <1>5, <1>9, FS_Subset
  <2>2. Cardinality(Then) <= crashes'
    BY <1>6, <1>8, <2>1
  <2> QED
    BY <1>3, <2>2 DEF Then
<1>10. CASE Then \subseteq Now \cup {x} /\ crashes' = crashes + 1
  <2>1. IsFiniteSet(Now \cup {x})
        /\ Cardinality(Now \cup {x}) = IF x \in Now THEN Cardinality(Now) ELSE Cardinality(Now) + 1
    BY <1>5, FS_AddElement
  <2>2. Cardinality(Then) <= Cardinality(Now \cup {x})
    BY <1>10, <2>1, FS_Subset
  <2>3. Cardinality(Then) <= crashes'
    BY <1>6, <1>8, <1>10, <2>1, <2>2
  <2> QED
    BY <1>3, <2>3 DEF Then
<1> QED
  BY <1>7, <1>9, <1>10

LEMMA UntoldKept ==
  ASSUME WorkerUntold, told'["worker"] = told["worker"], started' = started \/ ~started,
         pipeline' \in {"verify", "branch"} => pipeline \in {"verify", "branch"} \/ ~started
  PROVE  WorkerUntold'
  BY DEF WorkerUntold

LEMMA Counted ==
  ASSUME TypeOK, Dies \/ Lives
  PROVE  crashes' \in Nat /\ crashes <= crashes' /\ pipeline' \in {pipeline, "idle"}
  BY Bounds DEF TypeOK, Dies, Lives, actors

LEMMA ToldType ==
  ASSUME told \in [Subjects -> Nat], NEW x \in Subjects
  PROVE  /\ [told EXCEPT ![x] = @ + 1] \in [Subjects -> Nat]
         /\ [told EXCEPT ![x] = @ + 1][x] = told[x] + 1
         /\ \A y \in Subjects \ {x} : [told EXCEPT ![x] = @ + 1][y] = told[y]
  OBVIOUS

(* Steps that neither do nor tell anything that is kept. *)
LEMMA QuietTold ==
  ASSUME TypeOK, TInv, UNCHANGED <<docs, verdicts>>, started' = started,
         status' = "none" <=> status = "none", touched => touched',
         crashes' \in Nat, crashes <= crashes',
         pipeline' \in {"verify", "branch"} => pipeline \in {"verify", "branch"},
         told' = told \/ told' = [told EXCEPT !["approval"] = @ + 1],
         unanswered \subseteq unanswered'
  PROVE  TInv'
<1>1. "approval" \in Subjects /\ "worker" \in Subjects /\ "approval" \notin Kept
  BY DEF Subjects, Kept
<1>2. told' \in [Subjects -> Nat] /\ told'["worker"] = told["worker"]
  BY <1>1, ToldType DEF TInv
<1>3. WorkerUntold'
  BY <1>2, UntoldKept DEF TInv
<1>4. About("approval")
  BY <1>1, AboutIs DEF TInv
<1> QED
  BY <1>1, <1>2, <1>3, <1>4, TaleStep

(* Steps that do x, at most up to their answer. *)
LEMMA DoneTold ==
  ASSUME TypeOK, TInv, NEW x \in Kept \ {"worker"}, NEW end \in Ends, Reaches(x, Made, end),
         started' = started \/ ~started,
         pipeline' \in {"verify", "branch"} => pipeline \in {"verify", "branch"} \/ ~started,
         touched' = touched, ~touched => About(x),
         end = "answer" => crashes' = crashes /\ OnRecord(x)', end # "answer" => crashes' = crashes + 1,
         ~touched => (OnRecord(x) => OnRecord(x)'),
         ~touched /\ x # "preparation" => ~OnRecord(x)
  PROVE  TInv'
<1>1. x \in Subjects
  BY KeptAre
<1>2. /\ end = "answer" => told' = [told EXCEPT ![x] = @ + 1]
      /\ end # "answer" => told' = told /\ x \in unanswered'
      /\ unanswered \subseteq unanswered'
  BY <1>1, ToldMade
<1>3. told' \in [Subjects -> Nat] /\ told'["worker"] = told["worker"]
      /\ (end = "answer" => told'[x] = told[x] + 1) /\ told[x] \in Nat
  BY <1>1, <1>2, ToldType DEF TInv, Subjects
<1>4. WorkerUntold'
  BY <1>3, UntoldKept DEF TInv
<1>5. crashes' \in Nat /\ crashes <= crashes'
  BY Bounds DEF TypeOK
<1>6. ASSUME ~touched
      PROVE  Tale(x)' /\ (Astray(x)' => Astray(x) \/ crashes' = crashes + 1)
  <2>1. Tale(x)
    BY <1>6 DEF TInv
  <2>2. CASE end = "answer"
    <3>1. x # "preparation" => told[x] = 0
      BY <1>3, <1>6, <2>1 DEF Tale, Told
    <3>2. Told(x)' /\ OnRecord(x)' /\ (x # "preparation" => told'[x] <= 1)
      BY <1>3, <2>2, <3>1 DEF Told
    <3> QED
      BY <3>2 DEF Tale, Astray, Partial
  <2>3. CASE end # "answer"
    <3>1. told'[x] = told[x] /\ x \in unanswered' /\ (Told(x)' <=> Told(x)) /\ crashes' = crashes + 1
      BY <1>2, <2>3 DEF Told
    <3>2. Told(x)' => OnRecord(x)'
      BY <1>6, <2>1, <3>1 DEF Tale
    <3> QED
      BY <2>1, <3>1, <3>2 DEF Tale
  <2> QED
    BY <2>2, <2>3
<1> QED
  BY <1>1, <1>2, <1>3, <1>4, <1>5, <1>6, TaleStep

LEMMA EndsTold ==
  ASSUME NEW end, IF end = "answer" THEN Lives ELSE Dies
  PROVE  /\ end = "answer" => crashes' = crashes
         /\ end # "answer" => crashes' = crashes + 1
         /\ pipeline' \in {pipeline, "idle"}
  BY DEF Dies, Lives, actors

LEMMA DecidesTold ==
  ASSUME TypeOK, TInv, NEW x \in DOMAIN ReviewOf, NEW verdict \in Decisions, NEW steps,
         NEW end \in Ends, Decides(ReviewOf[x], verdict, steps, end), status # "none",
         Reaches(x, Made, end)
  PROVE  TInv'
<1> DEFINE d == ReviewOf[x]
<1>1. /\ verdicts[d] = "none" /\ verdicts' = [verdicts EXCEPT ![d] = verdict]
      /\ status' = "waiting_for_approval" /\ UNCHANGED <<docs, started, touched>> /\ Answers(end)
  BY DEF Decides
<1>2. x \in Kept \ {"worker"} /\ d \in Reviewed /\ x \notin {"run", "start", "preparation"}
      /\ x \in Subjects
  BY KeptAre DEF ReviewOf, Reviewed
<1>3. verdicts'[d] = verdict /\ \A e \in Reviewed \ {d} : verdicts'[e] = verdicts[e]
  BY <1>1, <1>2, Shapes
<1>4. told' = told \/ told' = [told EXCEPT ![x] = @ + 1]
  BY <1>2, ToldMade
<1>5. About(x)
  BY <1>1, <1>2, <1>3, <1>4, AboutIs DEF TInv
<1>6. OnRecord(x)' /\ ~OnRecord(x)
  BY <1>1, <1>3, OnRecordIs, OnRecordBecomes DEF ReviewOf, Decisions
<1>7. /\ end = "answer" => crashes' = crashes
      /\ end # "answer" => crashes' = crashes + 1
      /\ pipeline' \in {pipeline, "idle"}
  BY <1>1, EndsTold DEF Answers
<1> QED
  BY <1>1, <1>2, <1>5, <1>6, <1>7, DoneTold

LEMMA WritesTold ==
  ASSUME TypeOK, TInv, NEW x \in {"proposal", "draft", "application", "gates", "commit_proposal"},
         NEW next, NEW end \in Ends, Writes(FileOf[x], next, end), status # "none", ~Noted(FileOf[x]),
         UNCHANGED <<verdicts, started, touched>>, Reaches(x, Made, end)
  PROVE  TInv'
<1> DEFINE d == FileOf[x]
<1>1. x \in Kept \ {"worker"} /\ d \in Documents /\ x \in DOMAIN FileOf /\ x \in Subjects
  BY KeptAre DEF FileOf, Documents
<1>2. \A e \in Documents \ {d} : docs'[e] = docs[e]
  BY <1>1, Shapes DEF Writes, Record, Unrecorded
<1>3. status' # "none"
  BY DEF Writes, Record, run
<1>4. told' = told \/ told' = [told EXCEPT ![x] = @ + 1]
  BY <1>1, ToldMade
<1>5. About(x)
  BY <1>1, <1>2, <1>3, <1>4, AboutIs DEF TInv
<1>6. OnRecord(x) <=> Noted(d)
  BY OnRecordIs DEF FileOf
<1>7. OnRecord(x)' <=> Noted(d)'
  BY OnRecordBecomes DEF FileOf
<1>8. end = "answer" => Noted(d)'
  BY <1>1, Shapes DEF Writes, Record, Noted
<1>9. /\ end = "answer" => crashes' = crashes
      /\ end # "answer" => crashes' = crashes + 1
      /\ pipeline' \in {pipeline, "idle"}
  BY EndsTold DEF Writes
<1> QED
  BY <1>1, <1>5, <1>6, <1>7, <1>8, <1>9, DoneTold

Story == IInv /\ Lined /\ Once /\ TInv

LEMMA StartIsTold ==
  ASSUME Story, NEW end \in Ends, StartTold(end)
  PROVE  TInv'
<1>1. TypeOK /\ TInv /\ Begun
  BY DEF Story, IInv, Lined
<1>2. CASE PrepareRun(end) /\ Reaches("run", PrepareEvents.done, end)
  <2>1. /\ status = "none" /\ status' = "pending" /\ Answers(end)
        /\ UNCHANGED <<docs, verdicts, started, touched>>
    BY <1>2 DEF PrepareRun, notes
  <2>2. Reaches("run", Made, end) /\ "run" \in Kept \ {"worker"} /\ "run" \in Subjects
    BY <1>2, KeptAre DEF PrepareEvents
  <2>3. About("run")
    BY <1>1, <2>1, <2>2, ToldMade, AboutIs DEF TInv
  <2>4. ~OnRecord("run") /\ OnRecord("run")'
    BY <2>1, OnRecordIs, OnRecordBecomes
  <2>5. /\ end = "answer" => crashes' = crashes
        /\ end # "answer" => crashes' = crashes + 1
        /\ pipeline' \in {pipeline, "idle"}
    BY <2>1, EndsTold DEF Answers
  <2> QED
    BY <1>1, <2>1, <2>2, <2>3, <2>4, <2>5, DoneTold
<1>3. CASE RequestApproval(end) /\ Reaches("approval", ApprovalEvents.done, end)
  <2>1. UNCHANGED <<docs, verdicts, started, touched, status>> /\ Answers(end)
    BY <1>3 DEF RequestApproval, notes
  <2>2. (told' = told \/ told' = [told EXCEPT !["approval"] = @ + 1])
        /\ unanswered \subseteq unanswered'
    BY <1>3, Begin, HasRecord DEF Reaches, Appends, ApprovalEvents
  <2>3. crashes' \in Nat /\ crashes <= crashes' /\ pipeline' \in {pipeline, "idle"}
    BY <1>1, <2>1, Counted DEF Answers
  <2> QED
    BY <1>1, <2>1, <2>2, <2>3, QuietTold
<1>4. CASE StartExecution(end) /\ Reaches("start", StartEvents.done, end)
  <2>1. /\ status # "none" /\ status' # "none" /\ ~started /\ started' = TRUE
        /\ UNCHANGED <<docs, verdicts, touched>>
        /\ end = "answer" => crashes' = crashes
        /\ end # "answer" => crashes' = crashes + 1
    BY <1>4 DEF StartExecution, Dies, run
  <2>2. Reaches("start", Made, end) /\ "start" \in Kept \ {"worker"} /\ "start" \in Subjects
    BY <1>4, KeptAre DEF StartEvents
  <2>3. About("start")
    BY <1>1, <2>1, <2>2, ToldMade, AboutIs DEF TInv
  <2>4. ~OnRecord("start") /\ OnRecord("start")'
    BY <2>1, OnRecordIs, OnRecordBecomes
  <2> QED
    BY <1>1, <2>1, <2>2, <2>3, <2>4, DoneTold
<1> QED
  BY <1>2, <1>3, <1>4 DEF StartTold

LEMMA ReviewIsTold ==
  ASSUME Story, NEW verdict \in Decisions, NEW end \in Ends, ReviewTold(verdict, end)
  PROVE  TInv'
<1>1. TypeOK /\ TInv
  BY DEF Story, IInv
<1>2. PICK x \in DOMAIN ReviewOf : \E steps :
        Decides(ReviewOf[x], verdict, steps, end) /\ status # "none" /\ Reaches(x, Made, end)
  <2>1. CASE ReviewArtifact(verdict, end) /\ Reaches("artifact", ArtifactReviewEvents.done, end)
    BY <2>1 DEF ReviewArtifact, ArtifactReviewReady, WaitsAt, ArtifactReviewEvents, ReviewOf
  <2>2. CASE ReviewProposal(verdict, end) /\ Reaches("proposal_review", ProposalReviewEvents.done, end)
    BY <2>2 DEF ReviewProposal, ProposalReviewReady, ProposalReviewStands, WaitsAt,
                ProposalReviewEvents, ReviewOf
  <2>3. CASE ReviewDraft(verdict, end) /\ Reaches("draft_review", DraftReviewEvents.done, end)
    BY <2>3 DEF ReviewDraft, DraftReviewReady, DraftReviewStands, WaitsAt, DraftReviewEvents, ReviewOf
  <2>4. CASE ReviewReport(verdict, end) /\ Reaches("report_review", ReportReviewEvents.done, end)
    BY <2>4 DEF ReviewReport, ReportReviewReady, ReportReviewStands, WaitsAt, ReportReviewEvents,
                ReviewOf
  <2> QED
    BY <2>1, <2>2, <2>3, <2>4 DEF ReviewTold
<1>3. PICK steps :
        Decides(ReviewOf[x], verdict, steps, end) /\ status # "none" /\ Reaches(x, Made, end)
  BY <1>2
<1> QED
  BY <1>1, <1>3, DecidesTold

LEMMA DocumentIsTold ==
  ASSUME Story, NEW end \in Ends, DocumentTold(end)
  PROVE  TInv'
<1>1. TypeOK /\ TInv
  BY DEF Story, IInv
<1>2. PICK x \in {"proposal", "draft", "application", "gates", "commit_proposal"} : \E next :
        /\ Writes(FileOf[x], next, end) /\ status # "none" /\ ~Noted(FileOf[x])
        /\ UNCHANGED <<verdicts, started, touched>> /\ Reaches(x, Made, end)
  <2>1. CASE CreateProposal(end) /\ Reaches("proposal", ProposalEvents.done, end)
    BY <2>1 DEF CreateProposal, ProposalReady, ProposalStands, WaitsAt, ProposalEvents, FileOf
  <2>2. CASE \E new \in [Paths -> {"none", "create", "modify"}] :
               CreateDraft(new, end) /\ Reaches("draft", DraftEvents.done, end)
    BY <2>2 DEF CreateDraft, DraftReady, DraftStands, WaitsAt, DraftEvents, FileOf
  <2>3. CASE ApplyDraft(end) /\ Reaches("application", ApplicationEvents.done, end)
    BY <2>3 DEF ApplyDraft, ApplicationReady, ApplicationStands, ApplicationUntried, WaitsAt, Noted,
                ApplicationEvents, FileOf
  <2>4. CASE RunGates(end) /\ Reaches("gates", GatesEvents.done, end)
    BY <2>4 DEF RunGates, GatesReady, GatesStand, WaitsAt, Noted, GatesEvents, FileOf
  <2>5. CASE ProposeCommit(end) /\ Reaches("commit_proposal", CommitProposalEvents.done, end)
    BY <2>5 DEF ProposeCommit, ProposalOfCommitReady, CommitProposalStands, WaitsAt, Noted,
                CommitProposalEvents, FileOf
  <2> QED
    BY <2>1, <2>2, <2>3, <2>4, <2>5 DEF DocumentTold
<1>3. PICK next :
        /\ Writes(FileOf[x], next, end) /\ status # "none" /\ ~Noted(FileOf[x])
        /\ UNCHANGED <<verdicts, started, touched>> /\ Reaches(x, Made, end)
  BY <1>2
<1> QED
  BY <1>1, <1>3, WritesTold

LEMMA WorkerIsTold ==
  ASSUME Story, NEW made \in BOOLEAN, WorkerTold(made)
  PROVE  TInv'
<1>1. TypeOK /\ TInv /\ pipeline = "branch" /\ started /\ status # "none"
      /\ docs["artifact"] = "none" /\ told["worker"] = 0
  BY DEF Story, IInv, Lined, Begun, WorkerTold, ImplementArtifact, WorkerDies, TInv, WorkerUntold
<1>2. UNCHANGED <<verdicts, started, touched>> /\ status' # "none" /\ crashes' \in Nat
      /\ crashes <= crashes' /\ pipeline' \notin {"verify", "branch"}
  <2>1. ASSUME NEW outcome \in {"failed", "artifact_ready", "artifact_blocked"},
               ImplementArtifact(outcome, made)
        PROVE  UNCHANGED <<verdicts, started, touched, crashes>> /\ status' # "none"
               /\ pipeline' \notin {"verify", "branch"}
    BY <2>1 DEF ImplementArtifact, faults
  <2>2. CASE WorkerDies(made)
    BY <1>1, <2>2, Bounds DEF WorkerDies, Dies, TypeOK
  <2>3. crashes \in Nat
    BY <1>1, Bounds DEF TypeOK
  <2> QED
    BY <2>1, <2>2, <2>3 DEF WorkerTold
<1>3. CASE ImplementArtifact("failed", made) /\ Appends("worker", WorkerEvents.failed)
  <2>1. docs' = docs
    BY <1>3 DEF ImplementArtifact
  <2>2. told' = told /\ unanswered \subseteq unanswered'
    BY <1>3, HasRecord, ToldNothing DEF WorkerEvents
  <2> QED
    BY <1>1, <1>2, <2>1, <2>2, QuietTold
<1>4. CASE Appends("worker", WorkerEvents.done)
           /\ (WorkerDies(made)
                \/ \E outcome \in {"artifact_ready", "artifact_blocked"} : ImplementArtifact(outcome, made))
  <2>1. told' = [told EXCEPT !["worker"] = @ + 1] /\ unanswered \subseteq unanswered'
    BY <1>4, ToldDone DEF WorkerEvents
  <2>2. "worker" \in Subjects /\ "worker" \in DOMAIN FileOf /\ FileOf["worker"] = "artifact"
    BY DEF Subjects, FileOf
  <2>3. told' \in [Subjects -> Nat] /\ told'["worker"] = 1
    BY <1>1, <2>1, <2>2, ToldType DEF TInv
  <2>4. \/ docs' = [docs EXCEPT !["artifact"] = "recorded"]
        \/ docs' = [docs EXCEPT !["artifact"] = "written"] /\ crashes' = crashes + 1
    BY <1>4 DEF WorkerDies, ImplementArtifact, Dies
  <2>5. \A d \in Documents \ {"artifact"} : docs'[d] = docs[d]
    BY <1>1, <2>4, Shapes
  <2>6. Noted("artifact")' \/ crashes' = crashes + 1
    BY <1>1, <2>4, Shapes DEF Noted, Documents
  <2>7. About("worker")
    BY <1>1, <1>2, <2>1, <2>2, <2>5, AboutIs DEF TInv
  <2>8. WorkerUntold'
    BY <1>1, <1>2 DEF WorkerUntold
  <2>9. Told("worker")'
    BY <2>3 DEF Told
  <2>10. Tale("worker")' /\ (Astray("worker")' => crashes' = crashes + 1)
    BY <2>3, <2>6, <2>9, OnRecordBecomes DEF Tale, Astray, Partial
  <2> QED
    BY <1>1, <1>2, <2>1, <2>2, <2>3, <2>7, <2>8, <2>10, TaleStep
<1> QED
  BY <1>3, <1>4 DEF WorkerTold

LEMMA ApplyIsTold ==
  ASSUME Story, ApplyTold
  PROVE  TInv'
<1>1. TypeOK /\ TInv
  BY DEF Story, IInv
<1>2. UNCHANGED <<docs, verdicts, started, status, touched>> /\ (Dies \/ Lives)
  BY DEF ApplyTold, ApplyProposal, ApplyBreaksOff, run, notes
<1>3. told' = told /\ unanswered \subseteq unanswered'
  <2>1. ASSUME NEW x, NEW end, NEW events \in {Denied, <<"request", "failure">>},
               Reaches(x, events, end)
        PROVE  told' = told /\ unanswered \subseteq unanswered'
    BY <2>1, Begin, HasRecord, ToldNothing DEF Reaches
  <2>2. CASE \E answer \in {"content", "phrase", "death"} :
               Reaches("panel", PanelEvents.refused, IF answer = "death" THEN "row" ELSE "answer")
    BY <2>1, <2>2 DEF PanelEvents
  <2>3. CASE \E survives \in BOOLEAN :
               Reaches("application", ApplicationEvents.failed, IF survives THEN "answer" ELSE "row")
    BY <2>1, <2>3 DEF ApplicationEvents
  <2> QED
    BY <2>2, <2>3 DEF ApplyTold
<1> QED
  BY <1>1, <1>2, <1>3, Counted, QuietTold

LEMMA CommitIsTold ==
  ASSUME Story, NEW q \in Requests, NEW end \in Ends, RecordCommit(q, end),
         Reaches("commit", CommitEvents.done, end)
  PROVE  TInv'
<1>1. TypeOK /\ TInv /\ Late
  BY DEF Story, IInv, Lined
<1>2. UNCHANGED <<verdicts, started, touched>> /\ (status' = status \/ status' # "none")
      /\ pipeline' \in {pipeline, "idle"}
      /\ (end = "answer" => crashes' = crashes) /\ (end # "answer" => crashes' = crashes + 1)
  BY DEF RecordCommit, run, Dies
<1>3. status = "none" => FALSE
  <2>1. Noted("commit_proposal")
    BY <1>1 DEF Late, RecordCommit, At, Committing
  <2>2. Noted("artifact")
    BY <2>1, StagesAre DEF Story, Lined, Chain
  <2> QED
    BY <2>2 DEF Story, Lined, Begun, Noted
<1>4. "commit" \in Kept \ {"worker"} /\ "commit" \in Subjects /\ FileOf["commit"] = "commit"
      /\ "commit" \in DOMAIN FileOf
  BY KeptAre DEF FileOf
<1>5. Reaches("commit", Made, end)
  BY DEF CommitEvents
<1>6. ASSUME ~touched
      PROVE  About("commit") /\ ~OnRecord("commit")
  <2>1. docs["commit"] = "none"
    BY <1>6, CommitLined DEF Story
  <2>2. docs["preparation"] = "none"
    BY <1>1, <2>1 DEF Late, Noted
  <2>3. \A d \in Documents \ {"commit"} : docs'[d] = docs[d]
    BY <1>1, <2>2, Shapes DEF RecordCommit, Unrecorded
  <2>4. About("commit")
    BY <1>1, <1>2, <1>3, <1>4, <1>5, <2>3, ToldMade, AboutIs DEF TInv
  <2> QED
    BY <2>1, <2>4, OnRecordIs DEF Noted
<1>7. end = "answer" => OnRecord("commit")'
  <2>1. end = "answer" => docs'["commit"] = "recorded"
    BY <1>1, Shapes DEF RecordCommit, Documents
  <2> QED
    BY <2>1, OnRecordBecomes DEF Noted
<1> QED
  BY <1>1, <1>2, <1>4, <1>5, <1>6, <1>7, DoneTold

LEMMA PreparationIsTold ==
  ASSUME Story, NEW q \in Requests, NEW end \in Ends, PreparePullRequest(q, end),
         Reaches("preparation", PreparationEvents.done, end)
  PROVE  TInv'
<1>1. TypeOK /\ TInv /\ Late
  BY DEF Story, IInv, Lined
<1>2. UNCHANGED <<verdicts, started, touched>> /\ (status' = status \/ status' # "none")
      /\ pipeline' \in {pipeline, "idle"}
      /\ (end = "answer" => crashes' = crashes) /\ (end # "answer" => crashes' = crashes + 1)
  BY DEF PreparePullRequest, Record, run, Dies
<1>3. status = "none" => FALSE
  <2>1. Noted("commit")
    BY <1>1 DEF Late, PreparePullRequest
  <2>2. Noted("artifact")
    BY <2>1, StagesAre DEF Story, Lined, Chain
  <2> QED
    BY <2>2 DEF Story, Lined, Begun, Noted
<1>4. "preparation" \in Kept \ {"worker"} /\ "preparation" \in Subjects
      /\ FileOf["preparation"] = "preparation" /\ "preparation" \in DOMAIN FileOf
  BY KeptAre DEF FileOf
<1>5. Reaches("preparation", Made, end)
  BY DEF PreparationEvents
<1>6. /\ \A d \in Documents \ {"preparation"} : docs'[d] = docs[d]
      /\ Noted("preparation") => Noted("preparation")'
      /\ end = "answer" => Noted("preparation")'
  BY <1>1, Shapes DEF PreparePullRequest, Record, Unrecorded, Noted, Documents
<1>7. About("preparation")
  BY <1>1, <1>2, <1>3, <1>4, <1>5, <1>6, ToldMade, AboutIs DEF TInv
<1> QED
  BY <1>1, <1>2, <1>4, <1>5, <1>6, <1>7, OnRecordIs, OnRecordBecomes, DoneTold

LEMMA GitIsTold ==
  ASSUME Story, NEW q \in Requests, GitTold(q)
  PROVE  TInv'
<1>1. TypeOK /\ TInv
  BY DEF Story, IInv
<1>2. CASE \E end \in Ends :
             \/ RecordCommit(q, end) /\ Reaches("commit", CommitEvents.done, end)
             \/ PreparePullRequest(q, end) /\ Reaches("preparation", PreparationEvents.done, end)
  BY <1>2, CommitIsTold, PreparationIsTold
<1>3. ASSUME AskCommit(q) \/ CheckStaged(q) \/ GitCommit(q) \/ AskPreparation(q) \/ FailRequest(q)
               \/ \E p \in Paths : AddFile(q, p),
             told' = told, unanswered \subseteq unanswered'
      PROVE  TInv'
  <2>1. UNCHANGED <<docs, verdicts, started, status, touched, crashes, pipeline>>
    BY <1>3 DEF AskCommit, CheckStaged, GitCommit, AskPreparation, FailRequest, AddFile,
                run, notes, faults
  <2>2. crashes \in Nat
    BY <1>1, Bounds DEF TypeOK
  <2> QED
    BY <1>1, <1>3, <2>1, <2>2, QuietTold
<1>4. ASSUME NEW x, NEW events \in {CommitEvents.refused, CommitEvents.failed, <<>>},
             Appends(x, events)
      PROVE  told' = told /\ unanswered \subseteq unanswered'
  BY <1>4, HasRecord, ToldNothing DEF CommitEvents
<1>5. CASE (AskCommit(q) \/ GitCommit(q) \/ AskPreparation(q) \/ \E p \in Paths : AddFile(q, p))
           /\ Silent
  BY <1>3, <1>5, ToldSilent
<1>6. CASE CheckStaged(q)
           /\ Appends("commit", IF request'[q].wait = "idle" THEN CommitEvents.refused ELSE <<>>)
  BY <1>3, <1>4, <1>6
<1>7. CASE FailRequest(q) /\ \E course \in {"refused", "failed"} : Appends("commit", CommitEvents[course])
  <2>1. CommitEvents["refused"] = CommitEvents.refused /\ CommitEvents["failed"] = CommitEvents.failed
    BY DEF CommitEvents
  <2> QED
    BY <1>3, <1>4, <1>7, <2>1
<1>8. CASE FailRequest(q) /\ Appends("preparation", PreparationEvents.refused)
  <2>1. PreparationEvents.refused = CommitEvents.refused
    BY DEF PreparationEvents, CommitEvents
  <2> QED
    BY <1>3, <1>4, <1>8, <2>1
<1> QED
  BY <1>2, <1>5, <1>6, <1>7, <1>8 DEF GitTold

(* Only a start that is repeated is left without an answer, and none of    *)
(* these tells of something done.                                          *)
LEMMA DenialsAre ==
  ASSUME NEW x \in DOMAIN Events
  PROVE  /\ Events[x].repeated \in {<<>>, <<"refusal">>, <<"request">>, <<"request", "repeat">>}
         /\ Events[x].refused \in {Denied, <<"refusal">>}
  BY DEF Events, PrepareEvents, ApprovalEvents, StartEvents, ArtifactReviewEvents, ProposalEvents,
         ProposalReviewEvents, PanelEvents, DraftEvents, DraftReviewEvents, ApplicationEvents,
         GatesEvents, ReportReviewEvents, CommitProposalEvents, CommitEvents, PreparationEvents

LEMMA DeniesIsTold ==
  ASSUME Story, NEW x \in DOMAIN Events, Denies(x)
  PROVE  TInv'
<1>1. TypeOK /\ TInv /\ crashes \in Nat
  BY Bounds DEF Story, IInv, TypeOK
<1>2. PICK events \in {<<>>, <<"refusal">>, <<"request">>, <<"request", "repeat">>, Denied} :
        Appends(x, events)
  BY DenialsAre DEF Denies
<1>3. told' = told /\ unanswered \subseteq unanswered'
  BY <1>2, HasRecord, ToldNothing
<1>4. UNCHANGED <<docs, verdicts, started, status, touched, crashes, pipeline>>
  BY DEF Denies, vars
<1> QED
  BY <1>1, <1>3, <1>4, QuietTold

LEMMA AsideIsTold ==
  ASSUME Story, Silent, VerifyRepo \/ AwaitReview \/ RefreshEvidence \/ FailPipeline \/ Outside \/ Crash
                          \/ \E action \in {"approve", "request_fix", "stop"} : Close(action)
  PROVE  TInv'
<1>1. TypeOK /\ TInv /\ crashes \in Nat /\ (pipeline # "idle" => status # "none")
  BY Bounds DEF Story, IInv, TypeOK, Lined, Begun
<1>2. told' = told /\ unanswered \subseteq unanswered'
  BY ToldSilent
<1>3. UNCHANGED <<docs, verdicts, started>> /\ (status' = "none" <=> status = "none")
  BY <1>1 DEF VerifyRepo, AwaitReview, RefreshEvidence, FailPipeline, Close, Crash, Outside, Edit, Stage,
         CommitElse, Switch, Deed, run, notes
<1>4. (touched => touched') /\ crashes' \in Nat /\ crashes <= crashes'
      /\ (pipeline' \in {"verify", "branch"} => pipeline \in {"verify", "branch"})
  <2>1. CASE VerifyRepo \/ AwaitReview \/ RefreshEvidence \/ FailPipeline
    BY <1>1, <2>1 DEF VerifyRepo, AwaitReview, RefreshEvidence, FailPipeline, faults
  <2>2. CASE Outside
    <3>1. Deed
      BY <2>2 DEF Outside, Edit, Stage, CommitElse, Switch
    <3>2. touched => touched'
      BY <3>1 DEF Deed
    <3> QED
      BY <1>1, <3>1, <3>2 DEF Deed, actors
  <2>3. CASE Crash
    BY <1>1, <2>3 DEF Crash, Dies
  <2>4. CASE \E action \in {"approve", "request_fix", "stop"} : Close(action)
    BY <1>1, <2>4 DEF Close, actors, faults
  <2> QED
    BY <2>1, <2>2, <2>3, <2>4
<1> QED
  BY <1>1, <1>2, <1>3, <1>4, QuietTold

LEMMA TInvStep ==
  ASSUME Story, [TrailNext]_<<vars, trail>>
  PROVE  TInv'
<1>1. CASE UNCHANGED <<vars, trail>>
  <2>1. TypeOK /\ TInv /\ crashes \in Nat
    BY Bounds DEF Story, IInv, TypeOK
  <2> QED
    BY <1>1, <2>1, QuietTold DEF vars, trail
<1>2. CASE TrailNext
  BY <1>2, StartIsTold, DocumentIsTold, ReviewIsTold, WorkerIsTold, ApplyIsTold, GitIsTold,
     DeniesIsTold, AsideIsTold DEF TrailNext
<1> QED
  BY <1>1, <1>2

LEMMA TInvInit == TrailInit => TInv
<1> SUFFICES ASSUME TrailInit
             PROVE  TInv
  OBVIOUS
<1>1. told = [x \in Subjects |-> 0] /\ \A x \in Kept : ~Told(x) /\ told[x] = 0
  BY KeptAre DEF TrailInit, Told
<1>2. \A x \in Kept : ~OnRecord(x)
  <2>1. status = "none" /\ ~started /\ (\A d \in Documents : docs[d] = "none")
        /\ \A d \in Reviewed : verdicts[d] = "none"
    BY DEF TrailInit, Init
  <2> QED
    BY <2>1, KeptAre, OnRecordIs DEF Noted, Documents, Reviewed
<1>3. \A x \in Kept : ~Astray(x)
  BY <1>1, <1>2 DEF Astray
<1>4. {x \in Kept : Astray(x)} = {}
  BY <1>3
<1>5. Cardinality({x \in Kept : Astray(x)}) = 0
  BY <1>4, FS_EmptySet
<1>6. \A x \in Kept : ~Partial(x)
  BY DEF TrailInit, Init, Partial, FileOf, Documents
<1>7. crashes = 0
  BY DEF TrailInit, Init
<1>8. WorkerUntold
  BY <1>1 DEF WorkerUntold, Subjects
<1> QED
  BY <1>1, <1>3, <1>5, <1>6, <1>7, <1>8 DEF TInv, Tale

LEMMA TrailStory == TrailSpec => []Story
<1>1. TrailInit => Story
  BY TInvInit, IInvInit, LinedInit DEF TrailInit, Story
<1>2. Story /\ [TrailNext]_<<vars, trail>> => Story'
  BY TrailIsBridge, IInvStep, LinedStep, TInvStep DEF Story
<1> QED
  BY <1>1, <1>2, PTL DEF TrailSpec

(* The truth of a record and of what is told is a Boolean. *)
LEMMA AstrayIs ==
  ASSUME TypeOK
  PROVE  \A x \in Kept : Astray(x) <=> Told(x) # OnRecord(x)
<1>1. /\ OnRecord("run") \in BOOLEAN /\ OnRecord("start") \in BOOLEAN
      /\ OnRecord("worker") \in BOOLEAN /\ OnRecord("artifact") \in BOOLEAN
      /\ OnRecord("proposal") \in BOOLEAN /\ OnRecord("proposal_review") \in BOOLEAN
      /\ OnRecord("draft") \in BOOLEAN /\ OnRecord("draft_review") \in BOOLEAN
      /\ OnRecord("application") \in BOOLEAN /\ OnRecord("gates") \in BOOLEAN
      /\ OnRecord("report_review") \in BOOLEAN /\ OnRecord("commit_proposal") \in BOOLEAN
      /\ OnRecord("commit") \in BOOLEAN /\ OnRecord("preparation") \in BOOLEAN
  BY DEF OnRecord, Noted, TypeOK
<1>2. \A x \in Kept : OnRecord(x) \in BOOLEAN
  BY <1>1, KeptAre
<1>3. ASSUME NEW x \in Kept PROVE Told(x) \in BOOLEAN
  BY DEF Told
<1> QED
  BY <1>2, <1>3 DEF Astray

(* The ledger and the notes tell the same story, whatever requests overlap:*)
(* an append follows its updateRun or precedes it in one handler, so that  *)
(* only a death in between can part the two, and each parts one step       *)
(* (the handlers of the bridge, appendAuditEvent).                         *)
THEOREM LedgerTellsTheNotes == TrailSpec => []ToldAsRecorded
<1>1. Story => ToldAsRecorded
  <2> SUFFICES ASSUME Story, ~touched
               PROVE  /\ \A x \in Kept \ {"preparation"} : told[x] <= 1
                      /\ \A x \in Kept \ {"worker"} : Told(x) => OnRecord(x)
                      /\ Cardinality({x \in Kept : Told(x) # OnRecord(x)}) <= crashes
    BY DEF ToldAsRecorded
  <2>1. (\A x \in Kept : Tale(x)) /\ Cardinality({x \in Kept : Astray(x)}) <= crashes
    BY DEF Story, TInv
  <2>2. {x \in Kept : Astray(x)} = {x \in Kept : Told(x) # OnRecord(x)}
    BY AstrayIs DEF Story, IInv
  <2> QED
    BY <2>1, <2>2 DEF Tale
<1> QED
  BY <1>1, TrailStory, PTL

(* Where file, row and event of a step of the bridge do not belong         *)
(* together, the ledger has a request without an answer, or the artifact   *)
(* the worker told of (the REQUESTED events of the handlers).              *)
THEOREM InterruptionsAreShown == TrailSpec => []InterruptionsShow
<1>1. Story => InterruptionsShow
  BY AstrayIs DEF Story, IInv, TInv, Tale, Partial, InterruptionsShow
<1> QED
  BY <1>1, TrailStory, PTL

-----------------------------------------------------------------------------
(* The page of a run that nobody interfered with *)

(* The status and the step of the row go together. *)
Row ==
  /\ status = "none" <=> step = "none"
  /\ status = "pending" <=> step \in {"prepared", "approval_requested"}
  /\ status = "waiting_for_approval" <=> step \in DOMAIN Level

(* What the bridge does to a checkout that is left to it. *)
Alone ==
  /\ ~touched
  /\ Noted("application") => FilesAsApplied
  /\ passed => OnRunBranch
  /\ \A p \in Paths : git.log[1].tree[p] # "draft"
  /\ docs["commit_proposal"] = "none" => Len(git.log) = 1
  /\ docs["commit_proposal"] # "none" => target = 1
  /\ Recorded("commit") => git.tip["run"] = sha

(* A report that passed is about an application, and is kept. *)
Vouched ==
  /\ passed => Noted("application")
  /\ Approved("report") => passed
  /\ docs["commit_proposal"] # "none" => passed

(* Without a death a step is done or it is not. *)
Whole ==
  /\ \A d \in Documents : docs[d] \in {"none", "recorded"}
  /\ step \in {"none", "prepared", "approval_requested"} => ~started

PInv ==
  /\ Row /\ Vouched
  /\ deeds = 0 => Alone
  /\ deeds = 0 /\ crashes = 0 => Whole

(* The step at which a panel offers its request. *)
Home ==
  [prepare |-> "none", approval |-> "prepared", start |-> "approval_requested",
   artifact_review |-> "artifact_ready", proposal |-> "artifact_approved",
   proposal_review |-> "proposal_ready", draft |-> "proposal_approved",
   draft_review |-> "draft_ready", application |-> "draft_approved", gates |-> "patch_applied",
   report_review |-> "gates_completed", commit_proposal |-> "report_approved",
   commit |-> "commit_proposed", preparation |-> "commit_created"]

LEMMA OffersAre ==
  /\ Offers["prepare"] = HandoffPanel /\ Offers["approval"] = ApprovalPanel
  /\ Offers["start"] = StartPanel /\ Offers["artifact_review"] = ArtifactReviewPanel
  /\ Offers["proposal"] = ProposalPanel /\ Offers["proposal_review"] = ProposalReviewPanel
  /\ Offers["proposal_application"] = ProposalApplicationPanel
  /\ Offers["draft"] = DraftPanel /\ Offers["draft_review"] = DraftReviewPanel
  /\ Offers["application"] = ApplicationPanel /\ Offers["gates"] = GatesPanel
  /\ Offers["report_review"] = ReportReviewPanel
  /\ Offers["commit_proposal"] = CommitProposalPanel /\ Offers["commit"] = CommitPanel
  /\ Offers["preparation"] = PreparationPanel
  BY DEF Offers

LEMMA PanelsAre ==
  DOMAIN Offers = {"prepare", "approval", "start", "artifact_review", "proposal", "proposal_review",
                   "proposal_application", "draft", "draft_review", "application", "gates",
                   "report_review", "commit_proposal", "commit", "preparation"}
  BY DEF Offers

(* A panel offers its request at its step only. *)
LEMMA AtHome ==
  ASSUME Row, NEW r \in Offered
  PROVE  r \in DOMAIN Home /\ step = Home[r]
<1>1. r \in DOMAIN Offers /\ Offers[r]
  BY DEF Offered
<1>2. ~ProposalApplicationPanel
  BY DEF ProposalApplicationPanel, Panel
<1>3. /\ HandoffPanel => step = "none"
      /\ ApprovalPanel => step = "prepared"
      /\ StartPanel => step = "approval_requested"
      /\ ArtifactReviewPanel => step = "artifact_ready"
      /\ ProposalPanel => step = "artifact_approved"
      /\ ProposalReviewPanel => step = "proposal_ready"
      /\ DraftPanel => step = "proposal_approved"
      /\ DraftReviewPanel => step = "draft_ready"
      /\ ApplicationPanel => step = "draft_approved"
      /\ GatesPanel => step = "patch_applied"
      /\ ReportReviewPanel => step = "gates_completed"
      /\ CommitProposalPanel => step = "report_approved"
      /\ CommitPanel => step = "commit_proposed"
      /\ PreparationPanel => step = "commit_created"
  BY DEF HandoffPanel, ApprovalPanel, StartPanel, StartReady, ArtifactReviewPanel, ProposalPanel,
     ProposalReviewPanel, DraftPanel, DraftReviewPanel, ApplicationPanel, GatesPanel, ReportReviewPanel,
     CommitProposalPanel, CommitPanel, PreparationPanel, Panel, Row
<1>4. /\ r \in {"prepare", "approval", "start", "artifact_review", "proposal", "proposal_review",
                "draft", "draft_review", "application", "gates", "report_review", "commit_proposal",
                "commit", "preparation"}
  BY <1>1, <1>2, OffersAre, PanelsAre
<1>5. CASE r \in {"prepare", "approval", "start", "artifact_review", "proposal"}
  BY <1>1, <1>3, <1>5, OffersAre DEF Home
<1>6. CASE r \in {"proposal_review", "draft", "draft_review", "application", "gates"}
  BY <1>1, <1>3, <1>6, OffersAre DEF Home
<1>7. CASE r \in {"report_review", "commit_proposal", "commit", "preparation"}
  BY <1>1, <1>3, <1>7, OffersAre DEF Home
<1> QED
  BY <1>4, <1>5, <1>6, <1>7

LEMMA OneOffer ==
  ASSUME Row, NEW r \in Offered
  PROVE  Cardinality(Offered) = 1
<1>1. \A s \in Offered : s \in DOMAIN Home /\ step = Home[s]
  BY AtHome
<1>2. \A s, t \in DOMAIN Home : Home[s] = Home[t] => s = t
  BY DEF Home
<1>3. Offered = {r}
  BY <1>1, <1>2
<1> QED
  BY <1>3, FS_Singleton

(* Until the commit is proposed: what is done is on record, what comes     *)
(* next is not even begun.                                                 *)
LEMMA LevelWhole ==
  ASSUME TypeOK, Lined, Whole, step \in DOMAIN Level
  PROVE  /\ \A i \in 1..Level[step] : Stages[i]
         /\ \A i \in 1..12 : i > Level[step] => ~Stages[i]
         /\ \A d \in Documents : Recorded(d) <=> Noted(d)
         /\ \A d \in Documents : docs[d] = "none" <=> ~Noted(d)
<1>1. Level[step] \in 1..12
  BY DEF Level
<1>2. Stages[Level[step]] /\ (Level[step] < 12 => ~Stages[Level[step] + 1])
  BY DEF Lined, Placed
<1>3. \A i \in 1..Level[step] : Stages[i]
  BY <1>1, <1>2 DEF Lined, Chain
<1>4. ASSUME NEW i \in 1..12, i > Level[step], Stages[i] PROVE FALSE
  BY <1>1, <1>2, <1>4 DEF Lined, Chain
<1> QED
  BY <1>3, <1>4 DEF Whole, Recorded, Noted

LEMMA OffersReviews ==
  ASSUME TypeOK, Lined, Row, Whole, ~completed,
         step \in {"artifact_ready", "artifact_approved", "proposal_ready", "proposal_approved",
                   "draft_ready"},
         step \in {"proposal_approved", "draft_ready"} => PanelAllows
  PROVE  \E r \in Offered : TRUE
<1>1. step \in DOMAIN Level /\ status = "waiting_for_approval"
  BY DEF Row, Level
<1>2. /\ \A i \in 1..Level[step] : Stages[i]
      /\ \A i \in 1..12 : i > Level[step] => ~Stages[i]
      /\ \A d \in Documents : Recorded(d) <=> Noted(d)
      /\ \A d \in Documents : docs[d] = "none" <=> ~Noted(d)
  BY <1>1, LevelWhole
<1>3. step \in DOMAIN Awaited => verdicts[Awaited[step]] = "none"
  BY DEF Lined, Placed
<1>4. {"artifact", "proposal", "draft", "application"} \subseteq Documents
  BY DEF Documents
<1>5. CASE step = "artifact_ready"
  <2>1. Noted("artifact") /\ verdicts["artifact"] = "none"
    BY <1>2, <1>3, <1>5, StagesAre DEF Level, Awaited
  <2>2. ArtifactReviewPanel
    BY <1>1, <1>2, <1>4, <1>5, <2>1 DEF ArtifactReviewPanel, Panel, ArtifactReviewReady, WaitsAt
  <2> QED
    BY <2>2, OffersAre, PanelsAre DEF Offered
<1>6. CASE step = "artifact_approved"
  <2>1. Noted("artifact") /\ Approved("artifact") /\ ~Noted("proposal")
    BY <1>2, <1>6, StagesAre DEF Level
  <2>2. ProposalPanel
    BY <1>1, <1>2, <1>4, <1>6, <2>1 DEF ProposalPanel, Panel, ProposalReady, ProposalStands, WaitsAt
  <2> QED
    BY <2>2, OffersAre, PanelsAre DEF Offered
<1>7. CASE step = "proposal_ready"
  <2>1. Noted("artifact") /\ Approved("artifact") /\ Noted("proposal") /\ verdicts["proposal"] = "none"
    BY <1>2, <1>3, <1>7, StagesAre DEF Level, Awaited
  <2>2. ProposalReviewPanel
    BY <1>1, <1>2, <1>4, <1>7, <2>1 DEF ProposalReviewPanel, Panel, ProposalReviewReady,
       ProposalReviewStands, WaitsAt
  <2> QED
    BY <2>2, OffersAre, PanelsAre DEF Offered
<1>8. CASE step = "proposal_approved"
  <2>1. /\ Noted("artifact") /\ Approved("artifact") /\ Noted("proposal") /\ Approved("proposal")
        /\ ~Noted("draft") /\ ~Noted("application")
    BY <1>2, <1>8, StagesAre DEF Level
  <2>2. DraftPanel
    BY <1>1, <1>2, <1>4, <1>8, <2>1 DEF DraftPanel, Panel, DraftReady, DraftStands, WaitsAt
  <2> QED
    BY <2>2, OffersAre, PanelsAre DEF Offered
<1>9. CASE step = "draft_ready"
  <2>1. /\ Approved("artifact") /\ Approved("proposal") /\ Noted("draft") /\ ~Noted("application")
        /\ verdicts["draft"] = "none"
    BY <1>2, <1>3, <1>9, StagesAre DEF Level, Awaited
  <2>2. DraftReviewPanel
    BY <1>1, <1>2, <1>4, <1>9, <2>1 DEF DraftReviewPanel, Panel, DraftReviewReady,
       DraftReviewStands, WaitsAt
  <2> QED
    BY <2>2, OffersAre, PanelsAre DEF Offered
<1> QED
  BY <1>5, <1>6, <1>7, <1>8, <1>9

LEMMA OffersPatch ==
  ASSUME TypeOK, Lined, Row, Vouched, Alone, Whole, ~completed,
         step \in {"draft_approved", "patch_applied", "gates_completed", "report_approved"},
         step = "draft_approved" => PanelAllows /\ \A p \in Targets : EntryFits(p),
         step = "gates_completed" => passed
  PROVE  \E r \in Offered : TRUE
<1>1. step \in DOMAIN Level /\ status = "waiting_for_approval"
  BY DEF Row, Level
<1>2. /\ \A i \in 1..Level[step] : Stages[i]
      /\ \A i \in 1..12 : i > Level[step] => ~Stages[i]
      /\ \A d \in Documents : Recorded(d) <=> Noted(d)
      /\ \A d \in Documents : docs[d] = "none" <=> ~Noted(d)
  BY <1>1, LevelWhole
<1>3. step \in DOMAIN Awaited => verdicts[Awaited[step]] = "none"
  BY DEF Lined, Placed
<1>4. {"draft", "application", "report", "commit_proposal"} \subseteq Documents
  BY DEF Documents
<1>5. Approved("artifact") /\ Approved("proposal") /\ Approved("draft") /\ Noted("draft")
  BY <1>2, StagesAre DEF Level
<1>6. CASE step = "draft_approved"
  <2>1. ~Noted("application")
    BY <1>2, <1>6, StagesAre DEF Level
  <2>2. \A p \in Paths : EntryFits(p)
    BY <1>6 DEF EntryFits, Targets
  <2>3. ApplicationPanel
    BY <1>1, <1>2, <1>4, <1>5, <1>6, <2>1, <2>2 DEF ApplicationPanel, Panel, ApplicationReady,
       ApplicationStands, ApplicationUntried, ReviewsApproved, WaitsAt
  <2> QED
    BY <2>3, OffersAre, PanelsAre DEF Offered
<1>7. CASE step = "patch_applied"
  <2>1. Noted("application") /\ ~Noted("report")
    BY <1>2, <1>7, StagesAre DEF Level
  <2>2. \A p \in Targets : git.tree[p] # "absent"
    BY <2>1 DEF Alone, FilesAsApplied
  <2>3. GatesPanel
    BY <1>1, <1>2, <1>4, <1>5, <1>7, <2>1, <2>2 DEF GatesPanel, Panel, GatesReady, GatesStand,
       ReviewsApproved, WaitsAt
  <2> QED
    BY <2>3, OffersAre, PanelsAre DEF Offered
<1>8. CASE step = "gates_completed"
  <2>1. Noted("application") /\ Noted("report") /\ verdicts["report"] = "none"
    BY <1>2, <1>3, <1>8, StagesAre DEF Level, Awaited
  <2>2. ReportReviewPanel
    BY <1>1, <1>2, <1>4, <1>5, <1>8, <2>1 DEF ReportReviewPanel, Panel, ReportReviewReady,
       ReportReviewStands, ReviewsApproved, WaitsAt
  <2> QED
    BY <2>2, OffersAre, PanelsAre DEF Offered
<1>9. CASE step = "report_approved"
  <2>1. /\ Noted("application") /\ Noted("report") /\ Approved("report")
        /\ ~Noted("commit_proposal")
    BY <1>2, <1>9, StagesAre DEF Level
  <2>2. passed /\ OnRunBranch /\ FilesAsApplied
    BY <2>1 DEF Vouched, Alone
  <2>3. CommitProposalPanel
    BY <1>1, <1>2, <1>4, <1>9, <2>1, <2>2 DEF CommitProposalPanel, Panel, ProposalOfCommitReady,
       CommitProposalStands, CommitProposalDocuments, WaitsAt
  <2> QED
    BY <2>3, OffersAre, PanelsAre DEF Offered
<1> QED
  BY <1>6, <1>7, <1>8, <1>9

LEMMA OffersCommit ==
  ASSUME IInv, Lined, Row, Vouched, Alone, Whole, ~completed,
         step \in {"commit_proposed", "commit_created"},
         step = "commit_proposed" => git.tip["run"] = target
  PROVE  \E r \in Offered : TRUE
<1>1. step \in DOMAIN Level /\ status = "waiting_for_approval" /\ TypeOK
  BY DEF Row, Level, IInv
<1>2. /\ \A i \in 1..Level[step] : Stages[i]
      /\ \A i \in 1..12 : i > Level[step] => ~Stages[i]
      /\ \A d \in Documents : Recorded(d) <=> Noted(d)
      /\ \A d \in Documents : docs[d] = "none" <=> ~Noted(d)
  BY <1>1, LevelWhole
<1>3. {"commit_proposal", "commit", "preparation"} \subseteq Documents
  BY DEF Documents
<1>4. Noted("application") /\ Noted("commit_proposal")
  BY <1>2, StagesAre DEF Level
<1>5. passed /\ OnRunBranch /\ FilesAsApplied /\ target = 1
  BY <1>4 DEF Vouched, Alone, Noted
<1>6. CASE step = "commit_proposed"
  <2>1. ~Noted("commit")
    BY <1>2, <1>6, StagesAre DEF Level
  <2>2. CommitPanel
    BY <1>1, <1>2, <1>3, <1>4, <1>5, <1>6, <2>1 DEF CommitPanel, Panel, CommitReady, CommitStands,
       HeadAsProposed, WaitsAt
  <2> QED
    BY <2>2, OffersAre, PanelsAre DEF Offered
<1>7. CASE step = "commit_created"
  <2>1. Noted("commit") /\ ~Noted("preparation")
    BY <1>2, <1>7, StagesAre DEF Level
  <2>2. Recorded("commit") /\ docs["preparation"] = "none"
    BY <1>2, <1>3, <2>1
  <2>3. AsApproved(sha) /\ git.tip["run"] = sha
    BY <2>2 DEF Alone, IInv
  <2>4. git.log[sha].parent = target
    BY <2>3 DEF AsApproved
  <2>5. ChangedBy(sha) = Targets
    <3>1. \A p \in Paths : git.log[sha].tree[p] = IF p \in Targets THEN "draft" ELSE git.log[target].tree[p]
      BY <2>3 DEF AsApproved
    <3>2. \A p \in Paths : git.log[target].tree[p] # "draft"
      BY <1>5 DEF Alone
    <3>3. Targets \subseteq Paths
      BY DEF Targets
    <3> QED
      BY <2>4, <3>1, <3>2, <3>3 DEF ChangedBy
  <2>6. PreparationReady
    BY <1>5, <2>4, <2>5 DEF PreparationReady
  <2>7. PreparationPanel
    BY <1>1, <1>5, <1>7, <2>1, <2>2, <2>3, <2>6 DEF PreparationPanel, Panel, PreparationStands, WaitsAt,
       HeadIsCommit
  <2> QED
    BY <2>7, OffersAre, PanelsAre DEF Offered
<1> QED
  BY <1>6, <1>7

LEMMA LeadsOn ==
  ASSUME IInv, Lined, PInv
  PROVE  PageLeadsOn
<1> SUFFICES ASSUME deeds = 0, crashes = 0, ~completed,
                    status \in {"none", "pending", "waiting_for_approval"}, ~AtItsEnd,
                    ~(step = "approval_requested" /\ startPanel # "approval_requested")
             PROVE  Cardinality(Offered) = 1
  BY DEF PageLeadsOn
<1>1. TypeOK /\ Row /\ Vouched /\ Alone /\ Whole
  BY DEF PInv, IInv
<1>2. step \in {"none", "prepared", "approval_requested"} \cup DOMAIN Level
  BY <1>1 DEF Row
<1>3. CASE step = "none"
  <2>1. HandoffPanel
    BY <1>1, <1>3 DEF HandoffPanel, Row
  <2> QED
    BY <1>1, <2>1, OffersAre, PanelsAre, OneOffer DEF Offered
<1>4. CASE step = "prepared"
  <2>1. ApprovalPanel
    BY <1>1, <1>4 DEF ApprovalPanel, Panel, Row
  <2> QED
    BY <1>1, <2>1, OffersAre, PanelsAre, OneOffer DEF Offered
<1>5. CASE step = "approval_requested"
  <2>1. StartPanel
    BY <1>1, <1>5 DEF StartPanel, StartReady, Row, Whole
  <2> QED
    BY <1>1, <2>1, OffersAre, PanelsAre, OneOffer DEF Offered
<1>6. CASE step \in {"artifact_ready", "artifact_approved", "proposal_ready", "proposal_approved",
                     "draft_ready"}
  <2>1. step \in {"proposal_approved", "draft_ready"} => PanelAllows
    BY DEF AtItsEnd
  <2> QED
    BY <1>1, <1>6, <2>1, OffersReviews, OneOffer
<1>7. CASE step \in {"draft_approved", "patch_applied", "gates_completed", "report_approved"}
  <2>1. /\ step = "draft_approved" => PanelAllows /\ \A p \in Targets : EntryFits(p)
        /\ step = "gates_completed" => passed
    BY DEF AtItsEnd
  <2> QED
    BY <1>1, <1>7, <2>1, OffersPatch, OneOffer
<1>8. CASE step \in {"commit_proposed", "commit_created"}
  <2>1. step = "commit_proposed" => git.tip["run"] = target
    BY DEF AtItsEnd
  <2> QED
    BY <1>1, <1>8, <2>1, OffersCommit, OneOffer
<1> QED
  BY <1>2, <1>3, <1>4, <1>5, <1>6, <1>7, <1>8 DEF Level, AtItsEnd

(* How a step may move the row. *)
RowMoves ==
  \/ UNCHANGED run
  \/ status' = "pending" /\ step' \in {"prepared", "approval_requested"}
  \/ status' = "waiting_for_approval" /\ step' \in DOMAIN Level
  \/ status' \notin {"none", "pending", "waiting_for_approval"}
       /\ step' \in {"working", "failed", "decided"}

LEMMA RowKept ==
  ASSUME Row, RowMoves
  PROVE  Row'
  BY DEF Row, RowMoves, run, Level

LEMMA RowStep ==
  ASSUME TypeOK, [Next]_vars
  PROVE  RowMoves
<1>1. CASE UNCHANGED run
  BY <1>1 DEF RowMoves
<1>2. CASE UNCHANGED vars \/ Outside \/ Apply \/ Crash
  <2>1. UNCHANGED run
    BY <1>2 DEF vars, run, Outside, Edit, Stage, CommitElse, Switch, Deed, Apply, ApplyProposal,
       ApplyBreaksOff, Crash
  <2> QED
    BY <1>1, <2>1
<1>3. CASE Start
  BY <1>3 DEF Start, PrepareRun, RequestApproval, StartExecution, RowMoves, run
<1>4. CASE Pipeline
  BY <1>4 DEF Pipeline, VerifyRepo, AwaitReview, RefreshEvidence, FailPipeline, ImplementArtifact,
     WorkerDies, RowMoves, Level
<1>5. ASSUME NEW d, NEW next \in DOMAIN Level, NEW end, Record(d, next, end) PROVE RowMoves
  BY <1>5 DEF Record, RowMoves
<1>6. CASE Document
  BY <1>5, <1>6 DEF Document, CreateProposal, CreateDraft, ApplyDraft, RunGates, ProposeCommit, Writes,
     Level
<1>7. CASE Review
  <2>1. PICK verdict \in Decisions, end \in Ends :
          ReviewArtifact(verdict, end) \/ ReviewProposal(verdict, end)
            \/ ReviewDraft(verdict, end) \/ ReviewReport(verdict, end)
    BY <1>7 DEF Review
  <2>2. status' = "waiting_for_approval" /\ step' \in DOMAIN Level
    <3>1. CASE ReviewArtifact(verdict, end)
      BY <3>1 DEF ReviewArtifact, Decides, Decisions, Level
    <3>2. CASE ReviewProposal(verdict, end)
      BY <3>2 DEF ReviewProposal, Decides, Decisions, Level
    <3>3. CASE ReviewDraft(verdict, end)
      BY <3>3 DEF ReviewDraft, Decides, Decisions, Level
    <3>4. CASE ReviewReport(verdict, end)
      BY <3>4 DEF ReviewReport, Decides, Decisions, Level
    <3> QED
      BY <2>1, <3>1, <3>2, <3>3, <3>4
  <2> QED
    BY <2>2 DEF RowMoves
<1>8. ASSUME NEW q \in Requests, Git(q) PROVE RowMoves
  <2>1. ASSUME NEW end \in Ends, RecordCommit(q, end) PROVE RowMoves
    BY <2>1 DEF RecordCommit, RowMoves, Level
  <2>2. ASSUME NEW end \in Ends, PreparePullRequest(q, end) PROVE RowMoves
    BY <1>5, <2>2 DEF PreparePullRequest, Level
  <2>3. CASE AskCommit(q) \/ CheckStaged(q) \/ GitCommit(q) \/ AskPreparation(q) \/ FailRequest(q)
             \/ \E p \in Paths : AddFile(q, p)
    <3>1. UNCHANGED run
      BY <2>3 DEF AskCommit, CheckStaged, GitCommit, AskPreparation, FailRequest, AddFile
    <3> QED
      BY <1>1, <3>1
  <2> QED
    BY <1>8, <2>1, <2>2, <2>3 DEF Git
<1>9. CASE \E action \in {"approve", "request_fix", "stop"} : Close(action)
  BY <1>9 DEF Close, RowMoves
<1> QED
  BY <1>2, <1>3, <1>4, <1>6, <1>7, <1>8, <1>9 DEF Next

(* What a step leaves alone of the patch: its record, its report and the   *)
(* files.                                                                  *)
Spared ==
  /\ UNCHANGED <<passed, entries, target>>
  /\ docs'["application"] = docs["application"] /\ docs'["commit_proposal"] = docs["commit_proposal"]
  /\ Approved("report")' => Approved("report") \/ passed

LEMMA SparedVouched ==
  ASSUME Vouched, Spared
  PROVE  Vouched'
  BY DEF Vouched, Spared, Noted

(* A checkout that only goes on as the bridge works in it. *)
Worked ==
  /\ touched' = touched /\ git'.log = git.log
  /\ git'.head \in {git.head, "run"}
  /\ git'.tip["run"] = git.tip["run"] \/ ~Recorded("commit")
  /\ \A p \in Paths : git'.tree[p] = git.tree[p] \/ git'.tree[p] = "draft"

LEMMA Same ==
  ASSUME git' = git, touched' = touched
  PROVE  Worked
  BY DEF Worked

LEMMA SparedAlone ==
  ASSUME Alone, Spared, Worked, docs'["commit"] = docs["commit"], sha' = sha
  PROVE  Alone'
<1>1. FilesAsApplied => FilesAsApplied'
  BY DEF Spared, Worked, FilesAsApplied, Targets
<1>2. OnRunBranch => OnRunBranch'
  BY DEF Worked, OnRunBranch
<1> QED
  BY <1>1, <1>2 DEF Alone, Spared, Worked, Noted, Recorded

(* Steps before the pull request, with what they do to the patch. *)
LEMMA AsideSpared ==
  ASSUME TypeOK, Lined, Start \/ Pipeline \/ Review \/ Apply \/ Crash \/ UNCHANGED vars
                 \/ \E action \in {"approve", "request_fix", "stop"} : Close(action)
  PROVE  Spared /\ Worked /\ docs'["commit"] = docs["commit"] /\ sha' = sha
<1>1. git \in Checkouts /\ git.tip \in [Branches -> Commits]
  BY Shapes DEF TypeOK
<1>2. CASE Start \/ Crash \/ UNCHANGED vars
           \/ \E action \in {"approve", "request_fix", "stop"} : Close(action)
  <2>1. UNCHANGED <<docs, verdicts, passed, entries, target, sha, git, touched>>
    BY <1>2 DEF Start, PrepareRun, RequestApproval, StartExecution, Crash, vars, Close, work, notes,
       faults
  <2> QED
    BY <2>1, Same DEF Spared, Approved
<1>3. CASE Pipeline
  <2>1. UNCHANGED <<verdicts, passed, entries, target, sha, touched>>
    BY <1>3 DEF Pipeline, VerifyRepo, AwaitReview, RefreshEvidence, FailPipeline, ImplementArtifact,
                WorkerDies, work, notes, faults
  <2>2. \A d \in Documents \ {"artifact"} : docs'[d] = docs[d]
    <3>1. \/ docs' = docs
          \/ docs' = [docs EXCEPT !["artifact"] = "recorded"]
          \/ docs' = [docs EXCEPT !["artifact"] = "written"]
      BY <1>3 DEF Pipeline, VerifyRepo, AwaitReview, RefreshEvidence, FailPipeline, ImplementArtifact,
                  WorkerDies, notes
    <3> QED
      BY <3>1, Shapes
  <2>3. git' = git \/ (pipeline = "branch" /\ \E made \in BOOLEAN : MakeBranch(made))
    BY <1>3 DEF Pipeline, VerifyRepo, AwaitReview, RefreshEvidence, FailPipeline, ImplementArtifact,
                WorkerDies
  <2>4. CASE git' = git
    BY <2>1, <2>2, <2>4, Same DEF Spared, Approved, Documents
  <2>5. CASE git' # git
    <3>1. git' = [git EXCEPT !.tip["run"] = git.tip[git.head], !.head = "run"] /\ pipeline = "branch"
      BY <2>3, <2>5 DEF MakeBranch
    <3>2. git'.log = git.log /\ git'.tree = git.tree /\ git'.head = "run"
      BY <1>1, <3>1 DEF Checkouts
    <3>3. ~Recorded("commit")
      <4>1. ~Stages[1]
        BY <3>1, StagesAre DEF Lined, Begun, Noted
      <4>2. ~Stages[11]
        BY <4>1 DEF Lined, Chain
      <4> QED
        BY <4>2, StagesAre DEF Recorded, Noted
    <3>4. Worked
      BY <2>1, <3>2, <3>3 DEF Worked
    <3> QED
      BY <2>1, <2>2, <3>4 DEF Spared, Approved, Documents
  <2> QED
    BY <2>4, <2>5
<1>4. CASE Review
  <2>1. UNCHANGED <<docs, passed, entries, target, sha, git, touched>>
    BY <1>4 DEF Review, ReviewArtifact, ReviewProposal, ReviewDraft, ReviewReport, Decides, work
  <2>2. Approved("report")' => Approved("report") \/ passed
    <3>1. CASE \E verdict \in Decisions, end \in Ends : ReviewReport(verdict, end)
      BY <3>1 DEF ReviewReport, ReportReviewReady
    <3>2. CASE \E verdict \in Decisions, end \in Ends :
                 ReviewArtifact(verdict, end) \/ ReviewProposal(verdict, end) \/ ReviewDraft(verdict, end)
      <4>1. verdicts'["report"] = verdicts["report"]
        BY <3>2, Shapes DEF ReviewArtifact, ReviewProposal, ReviewDraft, Decides, Reviewed
      <4> QED
        BY <4>1 DEF Approved
    <3> QED
      BY <1>4, <3>1, <3>2 DEF Review
  <2> QED
    BY <2>1, <2>2, Same DEF Spared
<1>5. CASE Apply
  <2>1. UNCHANGED <<docs, verdicts, passed, entries, target, sha, touched>>
    BY <1>5 DEF Apply, ApplyProposal, ApplyBreaksOff, work, notes
  <2>2. git' = git \/ \E some : git' = Written(some)
    BY <1>5 DEF Apply, ApplyProposal, ApplyBreaksOff
  <2>3. Worked
    BY <1>1, <2>1, <2>2, Same DEF Worked, Written, Checkouts
  <2> QED
    BY <2>1, <2>3 DEF Spared, Approved
<1> QED
  BY <1>2, <1>3, <1>4, <1>5

(* A document that is written leaves the others alone. *)
LEMMA WritesOne ==
  ASSUME TypeOK, NEW d \in Documents, NEW next, NEW end, Writes(d, next, end)
  PROVE  \A e \in Documents \ {d} : docs'[e] = docs[e]
  BY RecordKeeps DEF Writes

LEMMA DocumentPatch ==
  ASSUME IInv, Lined, Vouched, Document
  PROVE  Vouched' /\ (Alone => Alone')
<1>1. PICK end \in Ends :
        \/ CreateProposal(end)
        \/ \E new \in [Paths -> {"none", "create", "modify"}] : CreateDraft(new, end)
        \/ ApplyDraft(end) \/ RunGates(end) \/ ProposeCommit(end)
  BY DEF Document
<1>2. TypeOK /\ git \in Checkouts
  BY DEF IInv, TypeOK
<1>3. CASE CreateProposal(end)
  <2>1. UNCHANGED <<verdicts, passed, entries, target, sha, git, touched>>
    BY <1>3 DEF CreateProposal, work
  <2>2. \A e \in Documents \ {"proposal"} : docs'[e] = docs[e]
    BY <1>2, <1>3, WritesOne DEF CreateProposal, Documents
  <2>3. Spared /\ Worked /\ docs'["commit"] = docs["commit"]
    BY <2>1, <2>2, Same DEF Spared, Approved, Documents
  <2> QED
    BY <2>1, <2>3, SparedVouched, SparedAlone
<1>4. ASSUME NEW new \in [Paths -> {"none", "create", "modify"}], CreateDraft(new, end)
      PROVE  Vouched' /\ (Alone => Alone')
  <2>1. UNCHANGED <<verdicts, passed, target, sha, git, touched>> /\ ~Noted("draft")
    BY <1>4 DEF CreateDraft, DraftReady, DraftStands
  <2>2. \A e \in Documents \ {"draft"} : docs'[e] = docs[e]
    BY <1>2, <1>4, WritesOne DEF CreateDraft, Documents
  <2>3. ~Noted("application")
    BY <2>1, StagesAre DEF Lined, Chain
  <2>4. Vouched'
    BY <2>1, <2>2 DEF Vouched, Noted, Approved, Documents
  <2>5. Alone => Alone'
    BY <2>1, <2>2, <2>3 DEF Alone, Noted, Recorded, OnRunBranch, Documents
  <2> QED
    BY <2>4, <2>5
<1>5. CASE ApplyDraft(end)
  <2>1. /\ UNCHANGED <<verdicts, passed, entries, target, sha, touched>> /\ git' = Written(Targets)
        /\ ~Noted("application")
    BY <1>5 DEF ApplyDraft, ApplicationReady, ApplicationUntried, Noted, work
  <2>2. \A e \in Documents \ {"application"} : docs'[e] = docs[e]
    BY <1>2, <1>5, WritesOne DEF ApplyDraft, Documents
  <2>3. ~passed => Vouched'
    BY <2>1, <2>2 DEF Vouched, Noted, Approved, Documents
  <2>4. ~passed
    BY <2>1 DEF Vouched
  <2>5. git'.log = git.log /\ git'.tip = git.tip /\ git'.head = git.head
        /\ git'.tree = [p \in Paths |-> IF p \in Targets THEN "draft" ELSE git.tree[p]]
    BY <1>2, <2>1 DEF Written, Checkouts
  <2>6. FilesAsApplied'
    BY <2>1, <2>5 DEF FilesAsApplied, Targets
  <2>7. Alone => Alone'
    BY <2>1, <2>2, <2>4, <2>5, <2>6 DEF Alone, Recorded, Documents
  <2> QED
    BY <2>3, <2>4, <2>7
<1>6. CASE RunGates(end)
  <2>1. /\ UNCHANGED <<verdicts, entries, target, sha, git, touched>>
        /\ passed' = (OnRunBranch /\ FilesAsApplied) /\ Recorded("application") /\ docs["report"] = "none"
    BY <1>6 DEF RunGates, GatesReady
  <2>2. \A e \in Documents \ {"report"} : docs'[e] = docs[e]
    BY <1>2, <1>6, WritesOne DEF RunGates, Documents
  <2>3. ~Approved("report")
    BY <2>1 DEF Lined, Begun, Approved, Noted, Reviewed
  <2>4. docs["commit_proposal"] = "none"
    BY <2>3 DEF IInv, Settled
  <2>5. docs'["application"] = docs["application"] /\ docs'["commit"] = docs["commit"]
        /\ docs'["commit_proposal"] = docs["commit_proposal"]
    BY <2>2 DEF Documents
  <2>6. Vouched'
    BY <2>1, <2>3, <2>4, <2>5 DEF Vouched, Noted, Recorded, Approved
  <2>7. FilesAsApplied' <=> FilesAsApplied
    BY <2>1 DEF FilesAsApplied, Targets
  <2>8. Alone => Alone'
    BY <2>1, <2>5, <2>7 DEF Alone, Noted, Recorded, OnRunBranch
  <2> QED
    BY <2>6, <2>8
<1>7. CASE ProposeCommit(end)
  <2>1. /\ UNCHANGED <<verdicts, passed, entries, sha, git, touched>> /\ target' = git.tip["run"]
        /\ passed /\ docs["commit_proposal"] = "none" /\ OnRunBranch
    BY <1>7 DEF ProposeCommit, ProposalOfCommitReady, CommitProposalStands, CommitProposalDocuments
  <2>2. \A e \in Documents \ {"commit_proposal"} : docs'[e] = docs[e]
    BY <1>2, <1>7, WritesOne DEF ProposeCommit, Documents
  <2>3. docs'["application"] = docs["application"] /\ docs'["commit"] = docs["commit"]
    BY <2>2 DEF Documents
  <2>4. docs'["commit_proposal"] # "none"
    BY <1>2, <1>7, Shapes DEF ProposeCommit, Writes, Record, Unrecorded, Documents
  <2>5. Vouched'
    BY <2>1, <2>3 DEF Vouched, Noted, Approved
  <2>6. Alone => target' = 1
    <3> SUFFICES ASSUME Alone PROVE target' = 1
      OBVIOUS
    <3>1. Len(git.log) = 1
      BY <2>1 DEF Alone
    <3>2. git.tip["run"] \in 0..1 /\ git.tip["run"] # 0
      BY <2>1, <3>1 DEF IInv, HeadExists, OnRunBranch, Branches
    <3> QED
      BY <2>1, <3>2
  <2>7. FilesAsApplied' <=> FilesAsApplied
    BY <2>1 DEF FilesAsApplied, Targets
  <2>8. Alone => Alone'
    BY <2>1, <2>3, <2>4, <2>6, <2>7 DEF Alone, Noted, Recorded, OnRunBranch
  <2> QED
    BY <2>5, <2>8
<1> QED
  BY <1>1, <1>3, <1>4, <1>5, <1>6, <1>7

LEMMA CommandPatch ==
  ASSUME IInv, Lined, Once, Vouched, NEW q \in Requests,
         \/ AskCommit(q) \/ CheckStaged(q) \/ GitCommit(q) \/ AskPreparation(q) \/ FailRequest(q)
         \/ \E p \in Paths : AddFile(q, p)
  PROVE  Vouched' /\ (Alone => Alone')
<1>1. UNCHANGED <<docs, verdicts, passed, entries, target, sha, touched>>
  BY DEF AskCommit, CheckStaged, GitCommit, AskPreparation, FailRequest, AddFile, notes, work, faults
<1>2. Spared
  BY <1>1 DEF Spared, Approved
<1>3. TypeOK /\ git \in Checkouts /\ Len(git.log) \in Nat /\ Len(git.log) >= 1
      /\ git.log \in Seq([tree : Trees, parent : Commits]) /\ git.tip \in [Branches -> Commits]
  BY Shapes DEF IInv, TypeOK
<1>4. CASE GitCommit(q)
  <2>1. git' = Committed /\ At(q, "commit") /\ Staged # {} /\ Committing(q)
    BY <1>4 DEF GitCommit, At, Committing
  <2>2. /\ git'.log = Append(git.log, [tree |-> git.index, parent |-> git.tip[git.head]])
        /\ git'.head = git.head /\ git'.tree = git.tree
    BY <1>3, <2>1 DEF Committed, Checkouts
  <2>3. git'.log[1] = git.log[1]
    BY <1>3, <2>2
  <2>4. docs["commit_proposal"] # "none"
    BY <2>1 DEF Lined, Late, Noted
  <2>5. Alone => docs["commit"] = "none"
    BY <2>1 DEF Alone, Once, CommitMade
  <2>6. FilesAsApplied' <=> FilesAsApplied
    BY <1>1, <2>2 DEF FilesAsApplied, Targets
  <2>7. Alone => Alone'
    BY <1>1, <2>2, <2>3, <2>4, <2>5, <2>6 DEF Alone, Noted, Recorded, OnRunBranch
  <2> QED
    BY <1>2, <2>7, SparedVouched
<1>5. CASE ~GitCommit(q)
  <2>1. git' = git \/ \E p \in Paths : git' = [git EXCEPT !.index[p] = git.tree[p]]
    BY <1>5 DEF AskCommit, CheckStaged, AskPreparation, FailRequest, AddFile
  <2>2. git'.log = git.log /\ git'.head = git.head /\ git'.tree = git.tree /\ git'.tip = git.tip
    BY <1>3, <2>1 DEF Checkouts
  <2>3. Worked
    BY <1>1, <2>2 DEF Worked
  <2> QED
    BY <1>1, <1>2, <2>3, SparedVouched, SparedAlone
<1> QED
  BY <1>4, <1>5

LEMMA RecordPatch ==
  ASSUME IInv, Lined, Vouched, NEW q \in Requests, NEW end \in Ends,
         RecordCommit(q, end) \/ PreparePullRequest(q, end)
  PROVE  Vouched' /\ (Alone => Alone')
<1>1. UNCHANGED <<verdicts, passed, entries, target, git, touched>>
  BY DEF RecordCommit, PreparePullRequest, work
<1>2. TypeOK
  BY DEF IInv
<1>3. docs'["application"] = docs["application"] /\ docs'["commit_proposal"] = docs["commit_proposal"]
  BY <1>2, Shapes DEF RecordCommit, PreparePullRequest, Record, Unrecorded, Documents
<1>4. Spared
  BY <1>1, <1>3 DEF Spared, Approved
<1>5. CASE RecordCommit(q, end)
  <2>1. At(q, "rev_parse") /\ sha' = git.tip[git.head]
    BY <1>5 DEF RecordCommit
  <2>2. ~touched => OnRunBranch
    BY <2>1 DEF IInv, Undisturbed, Committing, At
  <2>3. FilesAsApplied' <=> FilesAsApplied
    BY <1>1 DEF FilesAsApplied, Targets
  <2>4. Alone => Alone'
    BY <1>1, <1>3, <2>1, <2>2, <2>3 DEF Alone, Noted, OnRunBranch
  <2> QED
    BY <1>4, <2>4, SparedVouched
<1>6. CASE PreparePullRequest(q, end)
  <2>1. docs'["commit"] = docs["commit"] /\ sha' = sha
    BY <1>2, <1>6, Shapes DEF PreparePullRequest, Record, Unrecorded, Documents, work
  <2> QED
    BY <1>1, <1>4, <2>1, Same, SparedVouched, SparedAlone
<1> QED
  BY <1>5, <1>6

LEMMA PatchStep ==
  ASSUME IInv, Lined, Once, Vouched, deeds = 0 => Alone, [Next]_vars
  PROVE  Vouched' /\ (deeds' = 0 => Alone')
<1>1. TypeOK /\ deeds \in Nat
  BY Bounds DEF IInv, TypeOK
<1>2. CASE Outside
  <2>1. UNCHANGED <<docs, verdicts, passed, entries, target>> /\ deeds' = deeds + 1
    BY <1>2 DEF Outside, Edit, Stage, CommitElse, Switch, Deed, notes, work
  <2>2. Spared
    BY <2>1 DEF Spared, Approved
  <2> QED
    BY <1>1, <2>1, <2>2, SparedVouched
<1>3. ~Outside => deeds' = deeds
  BY DEF Next, Start, PrepareRun, RequestApproval, StartExecution, Pipeline, VerifyRepo, AwaitReview,
     RefreshEvidence, FailPipeline, ImplementArtifact, WorkerDies, Review, ReviewArtifact,
     ReviewProposal, ReviewDraft, ReviewReport, Decides, Document, CreateProposal, CreateDraft,
     ApplyDraft, RunGates, ProposeCommit, Apply, ApplyProposal, ApplyBreaksOff, Git, AskCommit,
     CheckStaged, GitCommit, AskPreparation, FailRequest, AddFile, RecordCommit, PreparePullRequest,
     Close, Crash, faults, vars
<1>4. CASE Start \/ Pipeline \/ Review \/ Apply \/ Crash \/ UNCHANGED vars
           \/ \E action \in {"approve", "request_fix", "stop"} : Close(action)
  <2>1. Spared /\ Worked /\ docs'["commit"] = docs["commit"] /\ sha' = sha
    BY <1>1, <1>4, AsideSpared
  <2>2. Vouched' /\ (Alone => Alone')
    BY <2>1, SparedVouched, SparedAlone
  <2> QED
    BY <1>1, <1>2, <1>3, <2>2
<1>5. CASE Document
  BY <1>2, <1>3, <1>5, DocumentPatch
<1>6. ASSUME NEW q \in Requests, Git(q) PROVE Vouched' /\ (Alone => Alone')
  BY <1>6, CommandPatch, RecordPatch DEF Git
<1> QED
  BY <1>2, <1>3, <1>4, <1>5, <1>6 DEF Next

Opening == {"none", "prepared", "approval_requested"}

LEMMA WholeKept ==
  ASSUME Whole, \A d \in Documents : docs'[d] \in {docs[d], "none", "recorded"},
         step' \in Opening => step \in Opening /\ started' = started
  PROVE  Whole'
  BY DEF Whole, Opening

LEMMA Unharmed ==
  ASSUME TypeOK, crashes' = 0
  PROVE  ~Dies
  BY Bounds DEF TypeOK, Dies

LEMMA RecordWhole ==
  ASSUME TypeOK, Whole, NEW d \in Documents, NEW next \in DOMAIN Level, NEW end, end = "answer",
         Record(d, next, end), started' = started
  PROVE  Whole'
<1>1. docs' = [docs EXCEPT ![d] = "recorded"] /\ step' = next
  BY DEF Record
<1>2. \A e \in Documents : docs'[e] \in {docs[e], "none", "recorded"}
  BY <1>1, Shapes
<1>3. step' \notin Opening
  BY <1>1 DEF Opening, Level
<1> QED
  BY <1>2, <1>3, WholeKept

LEMMA WholeStep ==
  ASSUME IInv, Lined, Once, Row, Alone, Whole, crashes' = 0, [Next]_vars
  PROVE  Whole'
<1>1. TypeOK /\ ~Dies
  BY Unharmed DEF IInv
<1>2. ASSUME docs' = docs, run' = run, started' = started PROVE Whole'
  BY <1>2, WholeKept DEF run, Opening, Whole
<1>3. CASE Start
  <2>1. PICK end \in Ends : PrepareRun(end) \/ RequestApproval(end) \/ StartExecution(end)
    BY <1>3 DEF Start
  <2>2. docs' = docs
    BY <2>1 DEF PrepareRun, RequestApproval, StartExecution, notes
  <2>3. step' \in Opening => step \in Opening /\ started' = started
    <3>1. CASE PrepareRun(end)
      BY <3>1 DEF PrepareRun, notes, Row, Opening
    <3>2. CASE RequestApproval(end)
      BY <3>2 DEF RequestApproval, notes, Opening
    <3>3. CASE StartExecution(end)
      BY <1>1, <3>3 DEF StartExecution, Opening
    <3> QED
      BY <2>1, <3>1, <3>2, <3>3
  <2> QED
    BY <2>2, <2>3, WholeKept
<1>4. CASE Pipeline
  <2>1. started' = started /\ (run' = run \/ step' \notin Opening)
    BY <1>4 DEF Pipeline, VerifyRepo, AwaitReview, RefreshEvidence, FailPipeline, ImplementArtifact,
                WorkerDies, notes, Opening
  <2>2. docs' = docs \/ docs' = [docs EXCEPT !["artifact"] = "recorded"]
    BY <1>1, <1>4 DEF Pipeline, VerifyRepo, AwaitReview, RefreshEvidence, FailPipeline,
       ImplementArtifact, WorkerDies, notes
  <2>3. \A d \in Documents : docs'[d] \in {docs[d], "none", "recorded"}
    BY <1>1, <2>2, Shapes
  <2> QED
    BY <2>1, <2>3, WholeKept DEF run
<1>5. CASE Review
  <2>1. docs' = docs /\ started' = started
    BY <1>5 DEF Review, ReviewArtifact, ReviewProposal, ReviewDraft, ReviewReport, Decides
  <2>2. run' = run \/ status' \notin {"none", "pending"}
    BY <1>5 DEF Review, ReviewArtifact, ReviewProposal, ReviewDraft, ReviewReport, Decides
  <2>3. Row'
    BY <1>1, <1>5, RowStep, RowKept DEF Next
  <2>4. step' \in Opening => run' = run
    BY <2>2, <2>3 DEF Row, Opening
  <2> QED
    BY <2>1, <2>4, WholeKept DEF run
<1>6. CASE Document
  <2>1. started' = started
    BY <1>6 DEF Document, CreateProposal, CreateDraft, ApplyDraft, RunGates, ProposeCommit
  <2>2. ASSUME NEW d \in Documents, NEW next \in DOMAIN Level, NEW end \in Ends, Writes(d, next, end)
        PROVE  Whole'
    BY <1>1, <2>1, <2>2, RecordWhole DEF Writes
  <2> QED
    BY <1>6, <2>2 DEF Document, CreateProposal, CreateDraft, ApplyDraft, RunGates, ProposeCommit,
       Documents, Level
<1>7. CASE Apply \/ Outside \/ Crash \/ UNCHANGED vars
  <2>1. docs' = docs /\ started' = started /\ run' = run
    BY <1>7 DEF Apply, ApplyProposal, ApplyBreaksOff, Outside, Edit, Stage, CommitElse, Switch, Deed,
       Crash, vars, notes, run
  <2> QED
    BY <1>2, <2>1
<1>8. CASE \E action \in {"approve", "request_fix", "stop"} : Close(action)
  <2>1. docs' = docs /\ step' = "decided"
    BY <1>8 DEF Close, notes
  <2> QED
    BY <2>1, WholeKept DEF Opening
<1>9. ASSUME NEW q \in Requests, Git(q) PROVE Whole'
  <2>1. ASSUME NEW end \in Ends, RecordCommit(q, end) PROVE Whole'
    <3>1. end = "answer" /\ started' = started
      BY <1>1, <2>1 DEF RecordCommit
    <3>2. docs["commit"] = "none"
      BY <2>1, CommitLined DEF Alone
    <3>3. docs["preparation"] = "none"
      BY <3>2 DEF Lined, Late, Noted
    <3>4. docs' = [docs EXCEPT !["commit"] = "recorded", !["preparation"] = "none"]
          /\ step' = "commit_created"
      BY <2>1, <3>1, <3>3 DEF RecordCommit
    <3>5. \A d \in Documents : docs'[d] \in {docs[d], "none", "recorded"}
      BY <1>1, <3>4, Shapes
    <3> QED
      BY <3>4, <3>5, WholeKept DEF Opening
  <2>2. ASSUME NEW end \in Ends, PreparePullRequest(q, end) PROVE Whole'
    BY <1>1, <2>2, RecordWhole DEF PreparePullRequest, Documents, Level
  <2>3. CASE AskCommit(q) \/ CheckStaged(q) \/ GitCommit(q) \/ AskPreparation(q) \/ FailRequest(q)
             \/ \E p \in Paths : AddFile(q, p)
    <3>1. docs' = docs /\ started' = started /\ run' = run
      BY <2>3 DEF AskCommit, CheckStaged, GitCommit, AskPreparation, FailRequest, AddFile, notes, run
    <3> QED
      BY <1>2, <3>1
  <2> QED
    BY <1>9, <2>1, <2>2, <2>3 DEF Git
<1> QED
  BY <1>3, <1>4, <1>5, <1>6, <1>7, <1>8, <1>9 DEF Next

LEMMA FaultsGrow ==
  ASSUME [Next]_vars
  PROVE  deeds' \in {deeds, deeds + 1} /\ crashes' \in {crashes, crashes + 1}
<1>1. ASSUME Dies \/ Lives PROVE crashes' \in {crashes, crashes + 1}
  BY <1>1 DEF Dies, Lives
<1>2. ASSUME NEW end, Answers(end) PROVE crashes' \in {crashes, crashes + 1}
  BY <1>1, <1>2 DEF Answers
<1>3. ASSUME NEW d, NEW next, NEW end, Writes(d, next, end) PROVE crashes' \in {crashes, crashes + 1}
  BY <1>1, <1>3 DEF Writes
<1>4. CASE Start \/ Pipeline
  BY <1>1, <1>2, <1>4 DEF Start, PrepareRun, RequestApproval, StartExecution, Pipeline, VerifyRepo,
     AwaitReview, RefreshEvidence, FailPipeline, ImplementArtifact, WorkerDies, faults
<1>5. CASE Review
  BY <1>2, <1>5 DEF Review, ReviewArtifact, ReviewProposal, ReviewDraft, ReviewReport, Decides
<1>6. CASE Document
  BY <1>3, <1>6 DEF Document, CreateProposal, CreateDraft, ApplyDraft, RunGates, ProposeCommit
<1>7. CASE Apply \/ Crash
  BY <1>1, <1>7 DEF Apply, ApplyProposal, ApplyBreaksOff, Crash
<1>8. ASSUME NEW q \in Requests, Git(q)
      PROVE  deeds' \in {deeds, deeds + 1} /\ crashes' \in {crashes, crashes + 1}
  BY <1>1, <1>8 DEF Git, AskCommit, CheckStaged, GitCommit, AskPreparation, FailRequest, AddFile,
     RecordCommit, PreparePullRequest, faults
<1>9. CASE Outside
  BY <1>9 DEF Outside, Edit, Stage, CommitElse, Switch, Deed
<1>10. CASE (\E action \in {"approve", "request_fix", "stop"} : Close(action)) \/ UNCHANGED vars
  BY <1>10 DEF Close, faults, vars
<1> QED
  BY <1>4, <1>5, <1>6, <1>7, <1>8, <1>9, <1>10 DEF Next

LEMMA PInvStep ==
  ASSUME IInv, Lined, Once, PInv, [Next]_vars
  PROVE  PInv'
<1>1. TypeOK /\ deeds \in Nat /\ crashes \in Nat
  BY Bounds DEF IInv, TypeOK
<1>2. Row'
  BY <1>1, RowStep, RowKept DEF PInv
<1>3. Vouched' /\ (deeds' = 0 => Alone')
  BY PatchStep DEF PInv
<1>4. ASSUME deeds' = 0, crashes' = 0 PROVE Whole'
  <2>1. deeds = 0 /\ crashes = 0
    <3>1. deeds' \in {deeds, deeds + 1} /\ crashes' \in {crashes, crashes + 1}
      BY FaultsGrow
    <3> QED
      BY <1>1, <1>4, <3>1
  <2> QED
    BY <1>4, <2>1, WholeStep DEF PInv
<1> QED
  BY <1>2, <1>3, <1>4 DEF PInv

LEMMA PInvInit == Init => PInv
<1> SUFFICES ASSUME Init PROVE PInv
  OBVIOUS
<1>1. \A d \in Documents : docs[d] = "none"
  BY DEF Init
<1>2. \A d \in Reviewed : verdicts[d] = "none"
  BY DEF Init
<1>3. Row
  BY DEF Init, Row, Level
<1>4. Vouched
  BY <1>1, <1>2 DEF Init, Vouched, Approved, Noted, Documents, Reviewed
<1>5. Alone
  <2>1. PICK tree \in [Paths -> {"absent", "base"}] :
          git = [tree |-> tree, index |-> tree, log |-> <<[tree |-> tree, parent |-> 0]>>,
                 tip |-> [b \in Branches |-> IF b = "other" THEN 1 ELSE 0], head |-> "other"]
    BY DEF Init
  <2>2. Len(git.log) = 1 /\ git.log[1].tree = tree
    BY <2>1
  <2>3. \A p \in Paths : tree[p] # "draft"
    OBVIOUS
  <2> QED
    BY <1>1, <2>2, <2>3 DEF Init, Alone, Noted, Recorded, Documents
<1>6. Whole
  BY <1>1 DEF Init, Whole
<1> QED
  BY <1>3, <1>4, <1>5, <1>6 DEF PInv

(* The page of a Vera run that nobody interfered with offers one request   *)
(* whenever nothing is under way, unless the run is at its end or the      *)
(* panel of the start is older than its approval (VeraExecutionStartPanel  *)
(* and the panels after it, each of which sorts out by conditions of its   *)
(* own when it is to be seen).                                             *)
THEOREM ThePageLeadsOn == PageSpec => []PageLeadsOn
<1> DEFINE All == IInv /\ Lined /\ Once /\ PInv
<1>1. PageInit => All
  BY IInvInit, LinedInit, PInvInit DEF PageInit, TrailInit
<1>2. All /\ [PageNext]_<<vars, trail, page>> => All'
  <2> SUFFICES ASSUME All, [PageNext]_<<vars, trail, page>>
               PROVE  All'
    OBVIOUS
  <2>1. [TrailNext]_<<vars, trail>>
    BY DEF PageNext, Open, Refresh
  <2>2. [Next]_vars
    BY <2>1, TrailIsBridge
  <2> QED
    BY <2>2, IInvStep, LinedStep, PInvStep
<1>3. All => PageLeadsOn
  BY LeadsOn
<1> QED
  BY <1>1, <1>2, <1>3, PTL DEF PageSpec

=============================================================================
