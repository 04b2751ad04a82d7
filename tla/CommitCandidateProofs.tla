------------------------ MODULE CommitCandidateProofs ------------------------
(***************************************************************************)
(* Proofs about CommitCandidate, for any number of candidates, requests,   *)
(* commits, sign-offs and crashes: the rows never claim what did not       *)
(* happen, the steps of a candidate are recorded in their order, and an    *)
(* interruption shows in the ledger.  When requests come one at a time,    *)
(* the panel offers what is accepted and says what is recorded, and what   *)
(* is merged is the candidate's, if nobody else commits or pushes.         *)
(***************************************************************************)
EXTENDS CandidateTrail, CandidatePanel, SequenceTheorems, TLAPS

PushPcs == {"push_head", "push_status", "push", "record_push"}
PrPcs == {"pr_list", "pr_create", "record_pr"}
ReadyPcs == {"ready_view", "record_ready"}
MergePcs == {"merge_view", "merge", "merged_view", "record_merge"}

(* The columns of a row are filled from the left.                          *)
Chain(row) ==
  /\ row.merged => row.readiness # "none"
  /\ row.readiness # "none" => row.pr # "none"
  /\ row.pr # "none" => row.pushed
  /\ row.pushed => row.hash # 0
  /\ row.hash # 0 => row.status # "absent"
  /\ row.status \in PrStatuses \cup {"merge_readiness_recorded"} => row.pr # "none"

(* What a waiting request may rely on, whatever ran since it began.        *)
Sound(s) ==
  /\ s.pc \in {"idle", "signoff"} <=> s.candidate = None
  /\ s.pc = "prepare" => candidate[s.candidate].status = "absent"
  /\ s.pc \notin {"idle", "signoff", "prepare"} =>
       candidate[s.candidate].status # "absent"
  /\ s.pc = "rev_parse" => HeadCommit # 0
  /\ s.pc = "record_commit" => s.commit # 0 /\ s.commit <= HeadCommit
  /\ s.pc \in PushPcs => candidate[s.candidate].hash # 0 /\ s.commit # 0
  /\ s.pc = "record_push" => remote.branch # 0
  /\ s.pc \in PrPcs => candidate[s.candidate].pushed
  /\ s.pc = "record_pr" => remote.pr # "none"
  /\ s.pc \in ReadyPcs => candidate[s.candidate].pr # "none" /\ s.decision # "none"
  /\ s.pc \in MergePcs => candidate[s.candidate].readiness # "none"
  /\ s.pc \in {"merged_view", "record_merge"} => remote.pr = "merged"

(* A candidate that is being prepared is nobody else's.                    *)
Alone ==
  \A p, q \in Requests :
    request[q].pc = "prepare" /\ request[p].candidate = request[q].candidate => p = q

IInv ==
  /\ TypeOK
  /\ \A c \in Candidates : Chain(candidate[c])
  /\ RecordsAreBacked
  /\ \A q \in Requests : Sound(request[q])
  /\ Alone
  /\ remote.branch <= HeadCommit

-----------------------------------------------------------------------------
(* Types of the records a step builds *)

LEMMA IdleSound == Idle \in RequestStates /\ Sound(Idle)
  BY NoneAssumption, BoundsAssumption DEF Idle, RequestStates, Sound, Commits, Gates,
     Decisions, PushPcs, PrPcs, ReadyPcs, MergePcs

(* What a step that only moves one request leaves: every other request and *)
(* every row are as they were.                                             *)
LEMMA Waiting ==
  ASSUME IInv, NEW q \in Requests, NEW s \in RequestStates,
         Wait(q, s), RowsKept, ReviewKept, WorldKept, UNCHANGED crashes,
         Sound(s),
         \A p \in Requests \ {q} :
           s.candidate # None /\ "prepare" \in {s.pc, request[p].pc} =>
             request[p].candidate # s.candidate
  PROVE  IInv'
<1> USE DEF IInv
<1>1. TypeOK'
  BY DEF TypeOK, Wait, RowsKept, ReviewKept, WorldKept, HeadCommit
<1>2. (\A c \in Candidates : Chain(candidate[c]))' /\ RecordsAreBacked'
      /\ (remote.branch <= HeadCommit)'
  BY DEF RowsKept, WorldKept, RecordsAreBacked, Backed, HeadCommit, Chain
<1>4. \A p \in Requests : request'[p] = IF p = q THEN s ELSE request[p]
  BY DEF Wait, TypeOK
<1>5. (\A p \in Requests : Sound(request[p]))'
  <2> SUFFICES ASSUME NEW p \in Requests PROVE Sound(request[p])'
    OBVIOUS
  <2>1. Sound(request'[p])
    BY <1>4
  <2>2. QED
    BY <2>1 DEF Sound, RowsKept, WorldKept, HeadCommit
<1>6. Alone'
  <2> SUFFICES ASSUME NEW p \in Requests, NEW r \in Requests,
                      request'[r].pc = "prepare",
                      request'[p].candidate = request'[r].candidate
               PROVE  p = r
    BY DEF Alone
  <2>1. request'[r].candidate # None
    BY <1>4 DEF Sound
  <2>2. CASE p = q /\ r # q
    BY <2>1, <2>2, <1>4
  <2>3. CASE p # q /\ r = q
    BY <2>1, <2>3, <1>4
  <2>4. CASE p # q /\ r # q
    BY <2>4, <1>4 DEF Alone
  <2>5. QED
    BY <2>2, <2>3, <2>4
<1>7. QED
  BY <1>1, <1>2, <1>5, <1>6

(* The commits only grow, and a remote branch or a pull request, once      *)
(* there, stays; a merged pull request stays merged.                       *)
Grows ==
  /\ repo' \in Repos /\ HeadCommit <= HeadCommit' /\ HeadCommit' <= MaxCommits
  /\ remote' \in Remotes /\ remote'.branch <= HeadCommit'
  /\ remote.branch # 0 => remote'.branch # 0
  /\ remote.pr # "none" => remote'.pr # "none"
  /\ remote.pr = "merged" => remote'.pr = "merged"

LEMMA HeadType == ASSUME TypeOK PROVE HeadCommit \in Nat
  BY DEF TypeOK, HeadCommit, Repos

(* Requests keep what they rely on while the world grows.                  *)
LEMMA StillSound ==
  ASSUME IInv, Grows, RowsKept, NEW s \in RequestStates, Sound(s)
  PROVE  Sound(s)'
<1>1. HeadCommit \in Nat /\ HeadCommit' \in Nat /\ s.commit \in Nat
  BY HeadType, BoundsAssumption DEF IInv, Grows, Repos, HeadCommit, RequestStates, Commits
<1>2. QED
  BY <1>1 DEF Grows, RowsKept, Sound

LEMMA StillBacked ==
  ASSUME IInv, Grows, RowsKept
  PROVE  RecordsAreBacked' /\ (\A c \in Candidates : Chain(candidate[c]))'
<1>1. HeadCommit \in Nat /\ HeadCommit' \in Nat
      /\ \A c \in Candidates : candidate[c].hash \in Nat
  BY HeadType, BoundsAssumption DEF IInv, Grows, Repos, HeadCommit, TypeOK, Rows, Commits
<1>2. QED
  BY <1>1 DEF IInv, Grows, RowsKept, RecordsAreBacked, Backed, Chain

(* Others act, gates report, a patch is rolled back: no request moves.     *)
LEMMA Watching ==
  ASSUME IInv, Grows, RowsKept, UNCHANGED <<signoff, request, crashes>>,
         patch' \in {"applied", "rolled_back"}, gates' \in Gates
  PROVE  IInv'
<1>1. TypeOK'
  BY DEF IInv, TypeOK, Grows, RowsKept
<1>2. (\A p \in Requests : Sound(request[p]))'
  <2> SUFFICES ASSUME NEW p \in Requests PROVE Sound(request[p])'
    OBVIOUS
  <2>1. PICK s \in RequestStates : s = request[p]
    BY DEF IInv, TypeOK
  <2>2. Sound(s)'
    BY <2>1, StillSound DEF IInv
  <2>3. QED
    BY <2>1, <2>2
<1>3. Alone' /\ (remote.branch <= HeadCommit)'
  BY DEF IInv, Alone, Grows
<1>4. QED
  BY <1>1, <1>2, <1>3, StillBacked DEF IInv

(* A request did something to the world and moves on.                      *)
LEMMA Acting ==
  ASSUME IInv, Grows, RowsKept, ReviewKept, UNCHANGED crashes,
         NEW q \in Requests, NEW s \in RequestStates, Wait(q, s), Sound(s)',
         s.candidate = request[q].candidate,
         "prepare" \notin {s.pc, request[q].pc}
  PROVE  IInv'
<1>1. TypeOK'
  BY DEF IInv, TypeOK, Grows, RowsKept, ReviewKept, Wait
<1>2. \A p \in Requests : request'[p] = IF p = q THEN s ELSE request[p]
  BY DEF Wait, IInv, TypeOK
<1>3. (\A p \in Requests : Sound(request[p]))'
  <2> SUFFICES ASSUME NEW p \in Requests PROVE Sound(request[p])'
    OBVIOUS
  <2>1. PICK t \in RequestStates : t = request'[p]
    BY <1>1 DEF TypeOK
  <2>2. Sound(t)'
    <3>1. CASE p = q
      BY <3>1, <2>1, <1>2
    <3>2. CASE p # q
      BY <3>2, <2>1, <1>2, StillSound DEF IInv
    <3>3. QED
      BY <3>1, <3>2
  <2>3. QED
    BY <2>1, <2>2
<1>4. Alone'
  BY <1>2 DEF IInv, Alone
<1>5. QED
  BY <1>1, <1>3, <1>4, StillBacked DEF IInv, Grows

-----------------------------------------------------------------------------
(* The blocks that record a step *)

(* A row that keeps what an earlier one had.                               *)
Extends(row, old) ==
  /\ row.status # "absent"
  /\ old.hash # 0 => row.hash # 0
  /\ old.pushed => row.pushed
  /\ old.pr # "none" => row.pr # "none"
  /\ old.readiness # "none" => row.readiness # "none"

BackedRow(row) ==
  /\ row.hash <= HeadCommit
  /\ row.pushed => remote.branch # 0
  /\ row.pr = "live" => remote.pr # "none"
  /\ row.merged => remote.pr = "merged"

(* The evidence file and the row, the row alone, or the file and a crash.  *)
LEMMA Recording ==
  ASSUME IInv, NEW q \in Requests, NEW c \in Candidates, NEW row \in Rows,
         candidate' = [candidate EXCEPT ![c] = row], Wait(q, Idle),
         file' \in [Candidates -> Files],
         ReviewKept, WorldKept, UNCHANGED crashes,
         Chain(row), BackedRow(row), Extends(row, candidate[c]),
         \A p \in Requests \ {q} :
           request[p].candidate = c => request[p].pc # "prepare"
  PROVE  IInv'
<1>1. TypeOK'
  BY IdleSound DEF IInv, TypeOK, Wait, ReviewKept, WorldKept, HeadCommit
<1>2. \A p \in Requests : request'[p] = IF p = q THEN Idle ELSE request[p]
  BY DEF Wait, IInv, TypeOK
<1>3. \A d \in Candidates : candidate'[d] = IF d = c THEN row ELSE candidate[d]
  BY DEF IInv, TypeOK
<1>4. (\A d \in Candidates : Chain(candidate[d]))'
  BY <1>3 DEF IInv, Chain
<1>5. RecordsAreBacked'
  BY <1>3 DEF IInv, RecordsAreBacked, Backed, BackedRow, WorldKept, HeadCommit
<1>6. (\A p \in Requests : Sound(request[p]))'
  <2> SUFFICES ASSUME NEW p \in Requests PROVE Sound(request[p])'
    OBVIOUS
  <2>1. PICK t \in RequestStates : t = request'[p]
    BY <1>1 DEF TypeOK
  <2>2. Sound(t)'
    <3>1. CASE p = q
      <4>1. t = Idle
        BY <3>1, <2>1, <1>2
      <4>2. QED
        BY <4>1 DEF Sound, Idle, PushPcs, PrPcs, ReadyPcs, MergePcs
    <3>2. CASE p # q
      <4>1. Sound(t) /\ (t.candidate = c => t.pc # "prepare")
        BY <3>2, <2>1, <1>2 DEF IInv
      <4>2. t.candidate \in Candidates \/ t.candidate = None
        BY DEF RequestStates
      <4>3. CASE t.candidate = c
        BY <4>1, <4>3, <1>3
        DEF Sound, Extends, WorldKept, HeadCommit, PushPcs, PrPcs, ReadyPcs, MergePcs
      <4>4. CASE t.candidate \in Candidates \ {c}
        BY <4>1, <4>4, <1>3 DEF Sound, WorldKept, HeadCommit
      <4>5. CASE t.candidate = None
        BY <4>1, <4>5 DEF Sound, WorldKept, HeadCommit, PushPcs, PrPcs, ReadyPcs, MergePcs
      <4>6. QED
        BY <4>2, <4>3, <4>4, <4>5
    <3>3. QED
      BY <3>1, <3>2
  <2>3. QED
    BY <2>1, <2>2
<1>7. Alone'
  BY <1>2, NoneAssumption DEF IInv, Alone, Idle, Sound
<1>8. (remote.branch <= HeadCommit)'
  BY DEF IInv, WorldKept, HeadCommit
<1>9. QED
  BY <1>1, <1>4, <1>5, <1>6, <1>7, <1>8 DEF IInv

(* The server dies: every request is lost, whatever file it had written.   *)
LEMMA Dying ==
  ASSUME IInv, request' = [q \in Requests |-> Idle], crashes < MaxCrashes,
         crashes' = crashes + 1, UNCHANGED candidate,
         file' \in [Candidates -> Files], ReviewKept, WorldKept
  PROVE  IInv'
<1>1. TypeOK'
  BY IdleSound, BoundsAssumption DEF IInv, TypeOK, ReviewKept, WorldKept, HeadCommit
<1>2. (\A p \in Requests : Sound(request[p]))' /\ Alone'
  BY DEF Sound, Idle, PushPcs, PrPcs, ReadyPcs, MergePcs, Alone
<1>3. QED
  BY <1>1, <1>2 DEF IInv, WorldKept, HeadCommit, RecordsAreBacked, Backed, Chain

(* The server dies between the row and the answer.                         *)
LEMMA DyingRecorded ==
  ASSUME IInv, NEW c \in Candidates, NEW row \in Rows,
         candidate' = [candidate EXCEPT ![c] = row],
         request' = [q \in Requests |-> Idle],
         crashes < MaxCrashes, crashes' = crashes + 1,
         file' \in [Candidates -> Files], ReviewKept, WorldKept,
         Chain(row), BackedRow(row)
  PROVE  IInv'
<1>1. TypeOK'
  <2>1. candidate' \in [Candidates -> Rows]
    BY DEF IInv, TypeOK
  <2>2. request' \in [Requests -> RequestStates] /\ crashes' \in 0..MaxCrashes
    BY IdleSound, BoundsAssumption DEF IInv, TypeOK
  <2>3. QED
    BY <2>1, <2>2 DEF IInv, TypeOK, ReviewKept, WorldKept, HeadCommit
<1>2. \A d \in Candidates : candidate'[d] = IF d = c THEN row ELSE candidate[d]
  BY DEF IInv, TypeOK
<1>3. (\A d \in Candidates : Chain(candidate[d]))'
  BY <1>2 DEF IInv, Chain
<1>4. RecordsAreBacked'
  BY <1>2 DEF IInv, RecordsAreBacked, Backed, BackedRow, WorldKept, HeadCommit
<1>5. (\A p \in Requests : Sound(request[p]))' /\ Alone'
  BY DEF Sound, Idle, PushPcs, PrPcs, ReadyPcs, MergePcs, Alone
<1>6. QED
  BY <1>1, <1>3, <1>4, <1>5 DEF IInv, WorldKept, HeadCommit

LEMMA Saving ==
  ASSUME IInv, NEW q \in Requests, NEW c \in Candidates, NEW row \in Rows,
         NEW evidence \in Files, Save(q, c, row, evidence),
         candidate[c].status # "absent",
         Chain(row), BackedRow(row), Extends(row, candidate[c])
  PROVE  IInv'
<1>1. file' \in [Candidates -> Files] /\ ReviewKept /\ WorldKept
  BY DEF Save, IInv, TypeOK
<1>2. \A p \in Requests : request[p].candidate = c => request[p].pc # "prepare"
  BY DEF IInv, Sound
<1>3. CASE candidate' = [candidate EXCEPT ![c] = row] /\ Wait(q, Idle) /\ UNCHANGED crashes
  BY <1>1, <1>2, <1>3, Recording
<1>4. ASSUME crashes < MaxCrashes, crashes' = crashes + 1,
             request' = [r \in Requests |-> Idle],
             candidate' \in {candidate, [candidate EXCEPT ![c] = row]}
      PROVE  IInv'
  <2>1. CASE UNCHANGED candidate
    BY <1>1, <1>4, <2>1, Dying
  <2>2. CASE candidate' = [candidate EXCEPT ![c] = row]
    BY <1>1, <1>4, <2>2, DyingRecorded
  <2>3. QED
    BY <1>4, <2>1, <2>2
<1>5. QED
  BY <1>3, <1>4 DEF Save

-----------------------------------------------------------------------------
(* The steps of a candidate are recorded in their order *)

reached == [c \in Candidates |-> Reached(candidate[c])]

(* A step of this module is a step of GovernedSteps, or none.              *)
Advances ==
  \/ UNCHANGED reached
  \/ \E c \in Candidates : /\ reached[c] < 6
                           /\ reached' = [reached EXCEPT ![c] = @ + 1]

LEMMA StepRecorded ==
  ASSUME IInv, NEW c \in Candidates, NEW row \in Rows,
         \/ candidate' = [candidate EXCEPT ![c] = row]
         \/ UNCHANGED candidate,
         Reached(row) \in {Reached(candidate[c]), Reached(candidate[c]) + 1}
  PROVE  Advances
<1>1. CASE UNCHANGED candidate
  BY <1>1 DEF Advances, reached
<1>2. CASE candidate' = [candidate EXCEPT ![c] = row]
  <2>1. \A d \in Candidates : candidate'[d] = IF d = c THEN row ELSE candidate[d]
    BY <1>2 DEF IInv, TypeOK
  <2>2. \A d \in Candidates :
          reached'[d] = IF d = c THEN Reached(row) ELSE Reached(candidate[d])
    BY <2>1 DEF reached
  <2>3. CASE Reached(row) = Reached(candidate[c])
    <3>1. reached' = reached
      BY <2>2, <2>3 DEF reached
    <3>2. QED
      BY <3>1 DEF Advances
  <2>4. CASE Reached(row) = Reached(candidate[c]) + 1
    <3>1. Reached(candidate[c]) \in 0..6 /\ Reached(row) \in 0..6
      BY DEF Reached
    <3>2. reached[c] < 6
      BY <2>4, <3>1 DEF reached
    <3>3. reached' = [reached EXCEPT ![c] = @ + 1]
      BY <2>2, <2>4 DEF reached
    <3>4. QED
      BY <3>2, <3>3 DEF Advances
  <2>5. QED
    BY <2>3, <2>4
<1>3. QED
  BY <1>1, <1>2

(* A step that may be recorded: the one before it was.                     *)
LEMMA NextColumn ==
  ASSUME NEW old \in Rows, Chain(old), NEW row \in Rows,
         \/ /\ old.status = "absent" /\ row.status # "absent" /\ row.hash = 0
            /\ ~row.pushed /\ row.pr = "none" /\ row.readiness = "none" /\ ~row.merged
         \/ /\ old.status # "absent" /\ row.status # "absent" /\ row.hash # 0
            /\ row.pushed = old.pushed /\ row.pr = old.pr
            /\ row.readiness = old.readiness /\ row.merged = old.merged
         \/ /\ old.hash # 0 /\ row.hash = old.hash /\ row.pushed
            /\ row.pr = old.pr /\ row.readiness = old.readiness /\ row.merged = old.merged
         \/ /\ old.pushed /\ row.hash = old.hash /\ row.pushed = old.pushed
            /\ row.pr # "none" /\ row.readiness = old.readiness /\ row.merged = old.merged
         \/ /\ old.pr # "none" /\ row.hash = old.hash /\ row.pushed = old.pushed
            /\ row.pr = old.pr /\ row.readiness # "none" /\ row.merged = old.merged
         \/ old.readiness # "none" /\ row.readiness = old.readiness /\ row.merged
  PROVE  Reached(row) \in {Reached(old), Reached(old) + 1}
  BY DEF Rows, Chain, Reached

-----------------------------------------------------------------------------
(* Every action keeps the invariant *)

(* A request takes up candidate c.                                         *)
LEMMA Beginning ==
  ASSUME IInv, NEW q \in Requests, NEW c \in Candidates,
         NEW pc, NEW d \in Decisions, Begin(q, c, pc, d),
         \/ /\ pc = "commit_tree" /\ candidate[c].status # "absent"
         \/ /\ pc = "push_head" /\ candidate[c].hash # 0
         \/ /\ pc = "pr_list" /\ candidate[c].pushed
         \/ /\ pc = "ready_view" /\ candidate[c].pr # "none" /\ d # "none"
         \/ /\ pc = "merge_view" /\ candidate[c].readiness # "none"
  PROVE  IInv'
<1>1. PICK s \in RequestStates :
        s = [Idle EXCEPT !.pc = pc, !.candidate = c, !.decision = d,
                         !.commit = candidate[c].hash]
  BY IdleSound DEF IInv, TypeOK, Idle, RequestStates, Rows
<1>2. Chain(candidate[c])
  BY DEF IInv
<1>3. Sound(s)
  BY <1>1, <1>2, NoneAssumption
  DEF Idle, Sound, Chain, PushPcs, PrPcs, ReadyPcs, MergePcs
<1>4. \A p \in Requests \ {q} :
        s.candidate # None /\ "prepare" \in {s.pc, request[p].pc} =>
          request[p].candidate # s.candidate
  BY <1>1, <1>2 DEF IInv, Sound, Chain, Idle
<1>5. QED
  BY <1>1, <1>3, <1>4, Waiting DEF Begin

LEMMA PacketKeeps ==
  ASSUME IInv, NEW q \in Requests, NEW c \in Candidates, PreparePacket(q, c)
  PROVE  IInv' /\ Advances
<1>1. PICK row \in Rows : row = RowWithPr(c, "packet")
  BY DEF IInv, TypeOK, Rows, RowWithPr, Status, Modes
<1>2. PICK evidence \in Files : evidence = [file[c] EXCEPT !.pr = "packet"]
  BY DEF IInv, TypeOK, Files, Modes
<1>3. Chain(row) /\ Extends(row, candidate[c])
  BY <1>1 DEF IInv, TypeOK, Rows, Chain, Extends, RowWithPr, PreparePacket,
     MayOpenPr, PushEvidenceAgrees, PrStatuses
<1>4. BackedRow(row)
  BY <1>1 DEF IInv, TypeOK, Rows, RecordsAreBacked, Backed, BackedRow, RowWithPr
<1>5. IInv'
  BY <1>1, <1>2, <1>3, <1>4, Saving DEF PreparePacket, MayOpenPr
<1>6. candidate[c] \in Rows /\ Chain(candidate[c]) /\ candidate[c].pushed
  BY DEF IInv, TypeOK, PreparePacket, MayOpenPr, PushEvidenceAgrees
<1>7. Reached(row) \in {Reached(candidate[c]), Reached(candidate[c]) + 1}
  BY <1>1, <1>6, NextColumn DEF Rows, RowWithPr
<1>8. QED
  BY <1>1, <1>5, <1>7, StepRecorded DEF PreparePacket, Save

LEMMA AssessKeeps ==
  ASSUME IInv, NEW q \in Requests, NEW c \in Candidates,
         NEW d \in {"ready", "not_ready"}, AssessFromEvidence(q, c, d)
  PROVE  IInv' /\ Advances
<1>1. PICK row \in Rows : row = Assessed(c, d)
  BY DEF IInv, TypeOK, Rows, Assessed, Status, Decisions
<1>2. PICK evidence \in Files : evidence = [file[c] EXCEPT !.readiness = d]
  BY DEF IInv, TypeOK, Files, Decisions
<1>3. Chain(row) /\ Extends(row, candidate[c])
  BY <1>1 DEF IInv, TypeOK, Rows, Chain, Extends, Assessed, AssessFromEvidence,
     MayAssess, PushEvidenceAgrees, PrStatuses
<1>4. BackedRow(row)
  BY <1>1 DEF IInv, TypeOK, Rows, RecordsAreBacked, Backed, BackedRow, Assessed
<1>5. candidate[c].status # "absent"
  BY DEF AssessFromEvidence, MayAssess, PrStatuses
<1>6. IInv'
  BY <1>1, <1>2, <1>3, <1>4, <1>5, Saving DEF AssessFromEvidence
<1>7. candidate[c] \in Rows /\ Chain(candidate[c]) /\ candidate[c].pr # "none"
  BY DEF IInv, TypeOK, AssessFromEvidence, MayAssess, Chain
<1>8. Reached(row) \in {Reached(candidate[c]), Reached(candidate[c]) + 1}
  BY <1>1, <1>7, NextColumn DEF Rows, Assessed
<1>9. QED
  BY <1>1, <1>6, <1>8, StepRecorded DEF AssessFromEvidence, Save

LEMMA Asking ==
  ASSUME IInv, NEW q \in Requests, Ask(q)
  PROVE  IInv'
<1>1. ASSUME NEW a \in BOOLEAN, NEW o \in BOOLEAN, SignOff(q, a, o) PROVE IInv'
  <2>1. PICK s \in RequestStates :
          s = [Idle EXCEPT !.pc = "signoff", !.approved = a, !.gates = gates]
    BY <1>1, IdleSound DEF IInv, TypeOK, Idle, RequestStates
  <2>2. Sound(s)
    BY <2>1 DEF Idle, Sound, PushPcs, PrPcs, ReadyPcs, MergePcs
  <2>3. s.candidate = None
    BY <2>1 DEF Idle
  <2>4. QED
    BY <1>1, <2>1, <2>2, <2>3, Waiting DEF SignOff
<1>2. ASSUME NEW c \in Candidates, NEW o \in BOOLEAN, Prepare(q, c, o) PROVE IInv'
  <2>1. PICK s \in RequestStates :
          s = [Idle EXCEPT !.pc = "prepare", !.candidate = c, !.signoff = signoff.id,
                           !.gates = signoff.gates, !.override = o]
    BY <1>2, IdleSound DEF IInv, TypeOK, Idle, RequestStates, Signoffs, Decisions, Commits
  <2>2. Sound(s)
    BY <1>2, <2>1, NoneAssumption
    DEF Prepare, Idle, Sound, PushPcs, PrPcs, ReadyPcs, MergePcs
  <2>3. \A p \in Requests : request[p].candidate # s.candidate
    BY <1>2, <2>1 DEF Prepare, Idle
  <2>4. QED
    BY <1>2, <2>1, <2>2, <2>3, Waiting DEF Prepare
<1>3. ASSUME NEW c \in Candidates, RequestCommit(q, c) PROVE IInv'
  BY <1>3, Beginning DEF RequestCommit, MayCommit, Decisions
<1>4. ASSUME NEW c \in Candidates, RequestPush(q, c) PROVE IInv'
  BY <1>4, Beginning DEF RequestPush, MayPush, Decisions
<1>5. ASSUME NEW c \in Candidates, RequestPr(q, c) PROVE IInv'
  BY <1>5, Beginning DEF RequestPr, MayOpenPr, PushEvidenceAgrees, Decisions
<1>6. ASSUME NEW c \in Candidates, NEW d \in {"ready", "not_ready"},
             RequestAssessment(q, c, d)
      PROVE  IInv'
  <2>1. candidate[c].pr # "none"
    BY <1>6 DEF RequestAssessment, IInv, Chain, PrStatuses
  <2>2. d \in Decisions /\ d # "none"
    BY DEF Decisions
  <2>3. QED
    BY <1>6, <2>1, <2>2, Beginning DEF RequestAssessment
<1>7. ASSUME NEW c \in Candidates, RequestMerge(q, c) PROVE IInv'
  BY <1>7, Beginning DEF RequestMerge, MayMerge, Decisions
<1>8. ASSUME NEW c \in Candidates, PreparePacket(q, c) PROVE IInv'
  BY <1>8, PacketKeeps
<1>9. ASSUME NEW c \in Candidates, NEW d \in {"ready", "not_ready"},
             AssessFromEvidence(q, c, d)
      PROVE  IInv'
  BY <1>9, AssessKeeps
<1>10. QED
  BY <1>1, <1>2, <1>3, <1>4, <1>5, <1>6, <1>7, <1>8, <1>9 DEF Ask

(* A request whose only move is to the next wait.                          *)
LEMMA GoingOn ==
  ASSUME IInv, NEW q \in Requests, NEW s \in RequestStates, Wait(q, s),
         RowsKept, ReviewKept, WorldKept, UNCHANGED crashes,
         s.candidate = request[q].candidate, Sound(s),
         "prepare" \notin {s.pc, request[q].pc}
  PROVE  IInv'
<1>1. \A p \in Requests \ {q} :
        s.candidate # None /\ "prepare" \in {s.pc, request[p].pc} =>
          request[p].candidate # s.candidate
  BY DEF IInv, Alone
<1>2. QED
  BY <1>1, Waiting

LEMMA Checking ==
  ASSUME IInv, NEW q \in Requests, NEW from, NEW to, NEW check, Checked(q, from, check, to),
         \/ <<from, to>> \in {<<"commit_tree", "add">>, <<"push_head", "push_status">>,
                              <<"push_status", "push">>, <<"pr_list", "pr_create">>,
                              <<"ready_view", "record_ready">>, <<"merge_view", "merge">>}
         \/ from = "pr_list" /\ to = "record_pr" /\ remote.pr # "none"
  PROVE  IInv'
<1>1. PICK s \in RequestStates : s = [request[q] EXCEPT !.pc = to]
  BY DEF IInv, TypeOK, RequestStates
<1>2. request[q].pc = from /\ Sound(request[q])
  BY DEF IInv, Checked, At
<1>3. Wait(q, s)
  BY <1>1 DEF Checked, Goto, Wait, IInv, TypeOK
<1>4. Sound(s)
  BY <1>1, <1>2 DEF IInv, TypeOK, RequestStates, Sound, PushPcs, PrPcs, ReadyPcs, MergePcs
<1>5. s.candidate = request[q].candidate /\ "prepare" \notin {s.pc, request[q].pc}
  BY <1>1, <1>2 DEF IInv, TypeOK, RequestStates
<1>6. QED
  BY <1>3, <1>4, <1>5, GoingOn DEF Checked

(* What a waiting request is: it has a candidate once it waits for git.    *)
LEMMA GitKeeps ==
  ASSUME IInv, NEW q \in Requests, GitSteps(q)
  PROVE  IInv'
<1>1. CASE CheckTree(q)
  BY <1>1, Checking DEF CheckTree
<1>2. CASE PushHead(q)
  BY <1>2, Checking DEF PushHead
<1>3. CASE PushStatus(q)
  BY <1>3, Checking DEF PushStatus
<1>4. CASE Add(q)
  <2>1. PICK s \in RequestStates : s = [request[q] EXCEPT !.pc = "commit"]
    BY DEF IInv, TypeOK, RequestStates
  <2>2. request[q].pc = "add" /\ Sound(request[q]) /\ Wait(q, s)
    BY <1>4, <2>1 DEF IInv, TypeOK, Add, At, Goto, Wait
  <2>3. s.candidate = request[q].candidate /\ "prepare" \notin {s.pc, request[q].pc}
    BY <2>1, <2>2 DEF IInv, TypeOK, RequestStates
  <2>4. Sound(s)
    BY <2>1, <2>2 DEF IInv, TypeOK, RequestStates, Sound, PushPcs, PrPcs, ReadyPcs, MergePcs
  <2>5. Grows
    BY <1>4 DEF Add, IInv, TypeOK, Grows, HeadCommit, Repos
  <2>6. RowsKept /\ ReviewKept /\ UNCHANGED crashes
    BY <1>4 DEF Add
  <2>7. QED
    BY <2>2, <2>3, <2>4, <2>5, <2>6, StillSound, Acting
<1>5. CASE Commit(q)
  <2>1. PICK s \in RequestStates : s = [request[q] EXCEPT !.pc = "rev_parse"]
    BY DEF IInv, TypeOK, RequestStates
  <2>2. request[q].pc = "commit" /\ Sound(request[q]) /\ Wait(q, s)
    BY <1>5, <2>1 DEF IInv, TypeOK, Commit, At, Goto, Wait
  <2>3. s.candidate = request[q].candidate /\ "prepare" \notin {s.pc, request[q].pc}
    BY <2>1, <2>2 DEF IInv, TypeOK, RequestStates
  <2>4. Grows /\ HeadCommit' # 0
    <3>1. repo'.log = Append(repo.log, repo.index) /\ repo' \in Repos
      <4>1. repo.log \in Seq(Versions) /\ repo.index \in Versions
        BY DEF IInv, TypeOK, Repos
      <4>2. Append(repo.log, repo.index) \in Seq(Versions)
        BY <4>1
      <4>3. repo' = [repo EXCEPT !.log = Append(repo.log, repo.index)]
        BY <1>5 DEF Commit
      <4>4. QED
        BY <4>2, <4>3 DEF IInv, TypeOK, Repos
    <3>2. HeadCommit \in Nat /\ HeadCommit' = HeadCommit + 1
      BY <3>1, HeadType DEF HeadCommit, IInv, TypeOK, Repos
    <3>3. UNCHANGED remote /\ HeadCommit < MaxCommits
      BY <1>5 DEF Commit
    <3>4. remote.branch \in Nat
      BY BoundsAssumption DEF IInv, TypeOK, Remotes, Commits
    <3>5. QED
      BY <3>1, <3>2, <3>3, <3>4, BoundsAssumption DEF Grows, IInv, TypeOK
  <2>5. RowsKept /\ ReviewKept /\ UNCHANGED crashes /\ UNCHANGED remote
    BY <1>5 DEF Commit
  <2>6. Sound(s)'
    BY <2>1, <2>2, <2>4, <2>5
    DEF IInv, TypeOK, RequestStates, RowsKept, Sound, PushPcs, PrPcs, ReadyPcs, MergePcs
  <2>7. QED
    BY <2>2, <2>3, <2>4, <2>5, <2>6, Acting
<1>6. CASE RevParse(q)
  <2>1. PICK s \in RequestStates :
          s = [request[q] EXCEPT !.pc = "record_commit", !.commit = HeadCommit]
    <3>1. HeadCommit \in Commits
      BY HeadType, BoundsAssumption DEF IInv, TypeOK, Commits
    <3>2. QED
      BY <3>1 DEF IInv, TypeOK, RequestStates
  <2>2. request[q].pc = "rev_parse" /\ Sound(request[q]) /\ Wait(q, s)
    BY <1>6, <2>1 DEF IInv, TypeOK, RevParse, At
  <2>3. s.candidate = request[q].candidate /\ "prepare" \notin {s.pc, request[q].pc}
    BY <2>1, <2>2 DEF IInv, TypeOK, RequestStates
  <2>4. Sound(s)
    BY <2>1, <2>2, HeadType
    DEF IInv, TypeOK, RequestStates, Sound, PushPcs, PrPcs, ReadyPcs, MergePcs
  <2>5. QED
    BY <1>6, <2>2, <2>3, <2>4, GoingOn DEF RevParse
<1>7. CASE PushBranch(q)
  <2>1. PICK s \in RequestStates : s = [request[q] EXCEPT !.pc = "record_push"]
    BY DEF IInv, TypeOK, RequestStates
  <2>2. request[q].pc = "push" /\ Sound(request[q]) /\ Wait(q, s)
    BY <1>7, <2>1 DEF IInv, TypeOK, PushBranch, At, Goto, Wait
  <2>3. s.candidate = request[q].candidate /\ "prepare" \notin {s.pc, request[q].pc}
    BY <2>1, <2>2 DEF IInv, TypeOK, RequestStates
  <2>4. RowsKept /\ ReviewKept /\ UNCHANGED crashes /\ UNCHANGED repo
    BY <1>7 DEF PushBranch
  <2>5. candidate[request[q].candidate].hash # 0 /\ request[q].candidate \in Candidates
    BY <2>2 DEF IInv, TypeOK, RequestStates, Sound, PushPcs
  <2>6. HeadCommit \in Nat \ {0}
    BY <2>5, HeadType DEF IInv, TypeOK, RecordsAreBacked, Backed, Rows, Commits
  <2>7. remote' = [remote EXCEPT !.branch = HeadCommit]
    BY <1>7 DEF PushBranch
  <2>8. Grows
    BY <2>4, <2>6, <2>7, BoundsAssumption DEF IInv, TypeOK, Grows, HeadCommit, Remotes, Commits
  <2>9. Sound(s)'
    BY <2>1, <2>2, <2>4, <2>6, <2>7
    DEF IInv, TypeOK, RequestStates, Remotes, RowsKept, Sound, PushPcs, PrPcs, ReadyPcs,
        MergePcs
  <2>10. QED
    BY <2>2, <2>3, <2>4, <2>8, <2>9, Acting
<1>8. QED
  BY <1>1, <1>2, <1>3, <1>4, <1>5, <1>6, <1>7 DEF GitSteps

LEMMA GithubKeeps ==
  ASSUME IInv, NEW q \in Requests, GithubSteps(q)
  PROVE  IInv'
<1>1. CASE ReusePr(q)
  BY <1>1, Checking DEF ReusePr, Checked
<1>2. CASE NoPrYet(q)
  BY <1>2, Checking DEF NoPrYet
<1>3. CASE ReadyView(q) \/ ReadySkipped(q)
  BY <1>3, Checking DEF ReadyView, ReadySkipped
<1>4. CASE MergeView(q)
  BY <1>4, Checking DEF MergeView
<1>5. CASE CreatePr(q)
  <2>1. PICK s \in RequestStates : s = [request[q] EXCEPT !.pc = "record_pr"]
    BY DEF IInv, TypeOK, RequestStates
  <2>2. request[q].pc = "pr_create" /\ Sound(request[q]) /\ Wait(q, s)
    BY <1>5, <2>1 DEF IInv, TypeOK, CreatePr, At, Goto, Wait
  <2>3. s.candidate = request[q].candidate /\ "prepare" \notin {s.pc, request[q].pc}
    BY <2>1, <2>2 DEF IInv, TypeOK, RequestStates
  <2>4. RowsKept /\ ReviewKept /\ UNCHANGED crashes /\ UNCHANGED repo
        /\ remote' = [remote EXCEPT !.pr = "open"] /\ remote.pr = "none"
    BY <1>5 DEF CreatePr
  <2>5. Grows
    BY <2>4, HeadType DEF IInv, TypeOK, Grows, HeadCommit, Remotes
  <2>6. Sound(s)'
    BY <2>1, <2>2, <2>4
    DEF IInv, TypeOK, RequestStates, Remotes, RowsKept, Sound, PushPcs, PrPcs, ReadyPcs,
        MergePcs
  <2>7. QED
    BY <2>2, <2>3, <2>4, <2>5, <2>6, Acting
<1>6. CASE MergePr(q)
  <2>1. PICK s \in RequestStates : s = [request[q] EXCEPT !.pc = "merged_view"]
    BY DEF IInv, TypeOK, RequestStates
  <2>2. request[q].pc = "merge" /\ Sound(request[q]) /\ Wait(q, s)
    BY <1>6, <2>1 DEF IInv, TypeOK, MergePr, At, Goto, Wait
  <2>3. s.candidate = request[q].candidate /\ "prepare" \notin {s.pc, request[q].pc}
    BY <2>1, <2>2 DEF IInv, TypeOK, RequestStates
  <2>4. RowsKept /\ ReviewKept /\ UNCHANGED crashes /\ UNCHANGED repo
    BY <1>6 DEF MergePr
  <2>5. remote'.pr = "merged" /\ remote'.branch = remote.branch /\ remote' \in Remotes
    BY <1>6 DEF MergePr, Merged, IInv, TypeOK, Remotes
  <2>6. Grows
    BY <2>4, <2>5, HeadType DEF IInv, TypeOK, Grows, HeadCommit
  <2>7. Sound(s)'
    BY <2>1, <2>2, <2>4, <2>5
    DEF IInv, TypeOK, RequestStates, RowsKept, Sound, PushPcs, PrPcs, ReadyPcs, MergePcs
  <2>8. QED
    BY <2>2, <2>3, <2>4, <2>6, <2>7, Acting
<1>7. CASE MergedView(q)
  <2>1. PICK sha \in {0, PrHead} :
          Wait(q, [request[q] EXCEPT !.pc = "record_merge", !.commit = sha])
    BY <1>7 DEF MergedView
  <2>2. sha \in Commits
    BY BoundsAssumption DEF PrHead, IInv, TypeOK, Remotes, Commits
  <2>3. PICK s \in RequestStates :
          s = [request[q] EXCEPT !.pc = "record_merge", !.commit = sha]
    BY <2>2 DEF IInv, TypeOK, RequestStates
  <2>4. request[q].pc = "merged_view" /\ Sound(request[q])
    BY <1>7 DEF IInv, MergedView, At
  <2>5. s.candidate = request[q].candidate /\ "prepare" \notin {s.pc, request[q].pc}
    BY <2>3, <2>4 DEF IInv, TypeOK, RequestStates
  <2>6. Sound(s)
    BY <2>3, <2>4 DEF IInv, TypeOK, RequestStates, Sound, PushPcs, PrPcs, ReadyPcs, MergePcs
  <2>7. QED
    BY <1>7, <2>1, <2>3, <2>5, <2>6, GoingOn DEF MergedView
<1>8. QED
  BY <1>1, <1>2, <1>3, <1>4, <1>5, <1>6, <1>7 DEF GithubSteps

LEMMA RefuseKeeps ==
  ASSUME IInv, NEW q \in Requests, Refuse(q)
  PROVE  IInv'
<1>1. PICK s \in RequestStates : s = Idle
  BY IdleSound
<1>2. Sound(s) /\ s.candidate = None
  BY <1>1, IdleSound DEF Idle
<1>3. QED
  BY <1>1, <1>2, Waiting DEF Refuse

(* A sign-off is recorded; the request had no candidate.                   *)
LEMMA SignoffKeeps ==
  ASSUME IInv, NEW q \in Requests, RecordSignoff(q)
  PROVE  IInv'
<1>1. signoff' \in Signoffs
  BY BoundsAssumption DEF RecordSignoff, IInv, TypeOK, Signoffs, RequestStates
<1>2. \A p \in Requests : request'[p] = IF p = q THEN Idle ELSE request[p]
  BY DEF RecordSignoff, Wait, IInv, TypeOK
<1>3. request' \in [Requests -> RequestStates]
  BY IdleSound DEF RecordSignoff, Wait, IInv, TypeOK
<1>4. UNCHANGED <<candidate, file, repo, remote, patch, gates, crashes>>
  BY DEF RecordSignoff, RowsKept, WorldKept
<1>5. TypeOK' /\ (remote.branch <= HeadCommit)' /\ RecordsAreBacked'
      /\ (\A c \in Candidates : Chain(candidate[c]))'
  BY <1>1, <1>3, <1>4 DEF IInv, TypeOK, HeadCommit, RecordsAreBacked, Backed, Chain
<1>6. (\A p \in Requests : Sound(request[p]))'
  <2> SUFFICES ASSUME NEW p \in Requests PROVE Sound(request[p])'
    OBVIOUS
  <2>1. PICK t \in RequestStates : t = request'[p]
    BY <1>3
  <2>2. Sound(t)
    BY <2>1, <1>2, IdleSound DEF IInv
  <2>3. Sound(t)'
    BY <2>2, <1>4 DEF Sound, HeadCommit
  <2>4. QED
    BY <2>1, <2>3
<1>7. Alone'
  BY <1>2, NoneAssumption DEF IInv, Alone, Idle, Sound
<1>8. QED
  BY <1>5, <1>6, <1>7 DEF IInv

LEMMA RecordsKeep ==
  ASSUME IInv, NEW q \in Requests, Records(q)
  PROVE  IInv' /\ Advances
<1>1. CASE RecordSignoff(q)
  BY <1>1, SignoffKeeps DEF RecordSignoff, RowsKept, Advances, reached
<1>2. CASE RecordCandidate(q)
  <2>1. PICK c \in Candidates : c = request[q].candidate
    BY <1>2 DEF RecordCandidate, At, IInv, TypeOK, RequestStates, Sound
  <2>2. PICK row \in Rows :
          row = [EmptyRow EXCEPT !.status = "commit_candidate_prepared",
                                 !.signoff = request[q].signoff,
                                 !.gates = request[q].gates,
                                 !.override = request[q].override]
    <3>1. EmptyRow \in Rows
      BY BoundsAssumption DEF EmptyRow, Rows, Status, Commits, Modes, Decisions, Gates
    <3>2. /\ request[q].signoff \in 0..MaxSignoffs /\ request[q].gates \in Gates
          /\ request[q].override \in BOOLEAN
      BY DEF IInv, TypeOK, RequestStates
    <3>3. "commit_candidate_prepared" \in Status
      BY DEF Status
    <3>4. QED
      BY <3>1, <3>2, <3>3 DEF Rows
  <2>3. request[q].pc = "prepare" /\ Sound(request[q]) /\ Chain(candidate[c])
    BY <1>2 DEF RecordCandidate, At, IInv
  <2>4. Chain(row) /\ Extends(row, candidate[c]) /\ BackedRow(row)
    BY <2>1, <2>2, <2>3, HeadType
    DEF IInv, EmptyRow, Sound, Chain, Extends, BackedRow, PrStatuses
  <2>5. \A p \in Requests \ {q} : request[p].candidate # c
    BY <2>1, <2>3 DEF IInv, Alone
  <2>6. /\ candidate' = [candidate EXCEPT ![c] = row] /\ Wait(q, Idle)
        /\ ReviewKept /\ WorldKept /\ UNCHANGED crashes
        /\ file' \in [Candidates -> Files]
    BY <1>2, <2>1, <2>2 DEF RecordCandidate, IInv, TypeOK
  <2>7. IInv'
    BY <2>4, <2>5, <2>6, Recording
  <2>8. candidate[c] \in Rows /\ candidate[c].status = "absent"
    BY <2>1, <2>3 DEF IInv, TypeOK, Sound
  <2>9. Reached(row) \in {Reached(candidate[c]), Reached(candidate[c]) + 1}
    BY <2>2, <2>3, <2>8, NextColumn DEF EmptyRow, IInv
  <2>10. QED
    BY <2>6, <2>7, <2>9, StepRecorded
<1>3. CASE RecordCommit(q)
  <2>1. PICK c \in Candidates : c = request[q].candidate
    BY <1>3 DEF RecordCommit, At, IInv, TypeOK, RequestStates, Sound
  <2>2. PICK row \in Rows : row = [candidate[c] EXCEPT
          !.status = "local_commit_created", !.hash = request[q].commit]
    <3>1. candidate[c] \in Rows
      BY DEF IInv, TypeOK
    <3>2. request[q].commit \in Commits /\ request[q].decision \in Decisions
      BY DEF IInv, TypeOK, RequestStates
    <3>3. QED
      BY <3>1, <3>2 DEF Rows, Status
  <2>3. PICK evidence \in Files : evidence = file[c]
    BY DEF IInv, TypeOK, Files, RequestStates, Commits
  <2>4. /\ Sound(request[q]) /\ request[q].pc = "record_commit"
        /\ Chain(candidate[c]) /\ Backed(c)
    BY <1>3 DEF RecordCommit, At, IInv, RecordsAreBacked
  <2>5. candidate[c] \in Rows
    BY DEF IInv, TypeOK
  <2>6. candidate[c].status # "absent"
    BY <2>1, <2>4 DEF Sound
  <2>7. Chain(row) /\ Extends(row, candidate[c]) /\ BackedRow(row)
    BY <2>1, <2>2, <2>4, <2>5, <2>6
    DEF Rows, Sound, Chain, Extends, Backed, BackedRow, RowWithPr, Assessed,
        PushPcs, PrPcs, ReadyPcs, MergePcs, PrStatuses
  <2>8. Save(q, c, row, evidence)
    BY <1>3, <2>1, <2>2, <2>3 DEF RecordCommit
  <2>9. IInv'
    BY <2>6, <2>7, <2>8, Saving
  <2>10. Reached(row) \in {Reached(candidate[c]), Reached(candidate[c]) + 1}
    BY <2>1, <2>2, <2>4, <2>5, <2>6, NextColumn
    DEF Rows, Sound, Chain, RowWithPr, Assessed, PushPcs, PrPcs, ReadyPcs, MergePcs
  <2>11. QED
    BY <2>8, <2>9, <2>10, StepRecorded DEF Save
<1>4. CASE RecordPush(q)
  <2>1. PICK c \in Candidates : c = request[q].candidate
    BY <1>4 DEF RecordPush, At, IInv, TypeOK, RequestStates, Sound
  <2>2. PICK row \in Rows : row = [candidate[c] EXCEPT
          !.status = "remote_branch_pushed", !.pushed = TRUE]
    <3>1. candidate[c] \in Rows
      BY DEF IInv, TypeOK
    <3>2. request[q].commit \in Commits /\ request[q].decision \in Decisions
      BY DEF IInv, TypeOK, RequestStates
    <3>3. QED
      BY <3>1, <3>2 DEF Rows, Status
  <2>3. PICK evidence \in Files : evidence = [file[c] EXCEPT !.push = request[q].commit]
    BY DEF IInv, TypeOK, Files, RequestStates, Commits
  <2>4. /\ Sound(request[q]) /\ request[q].pc = "record_push"
        /\ Chain(candidate[c]) /\ Backed(c)
    BY <1>4 DEF RecordPush, At, IInv, RecordsAreBacked
  <2>5. candidate[c] \in Rows
    BY DEF IInv, TypeOK
  <2>6. candidate[c].status # "absent"
    BY <2>1, <2>4 DEF Sound
  <2>7. Chain(row) /\ Extends(row, candidate[c]) /\ BackedRow(row)
    BY <2>1, <2>2, <2>4, <2>5, <2>6
    DEF Rows, Sound, Chain, Extends, Backed, BackedRow, RowWithPr, Assessed,
        PushPcs, PrPcs, ReadyPcs, MergePcs, PrStatuses
  <2>8. Save(q, c, row, evidence)
    BY <1>4, <2>1, <2>2, <2>3 DEF RecordPush
  <2>9. IInv'
    BY <2>6, <2>7, <2>8, Saving
  <2>10. Reached(row) \in {Reached(candidate[c]), Reached(candidate[c]) + 1}
    BY <2>1, <2>2, <2>4, <2>5, <2>6, NextColumn
    DEF Rows, Sound, Chain, RowWithPr, Assessed, PushPcs, PrPcs, ReadyPcs, MergePcs
  <2>11. QED
    BY <2>8, <2>9, <2>10, StepRecorded DEF Save
<1>5. CASE RecordPr(q)
  <2>1. PICK c \in Candidates : c = request[q].candidate
    BY <1>5 DEF RecordPr, At, IInv, TypeOK, RequestStates, Sound
  <2>2. PICK row \in Rows : row = RowWithPr(c, "live")
    <3>1. candidate[c] \in Rows
      BY DEF IInv, TypeOK
    <3>2. request[q].commit \in Commits /\ request[q].decision \in Decisions
      BY DEF IInv, TypeOK, RequestStates
    <3>3. QED
      BY <3>1, <3>2 DEF Rows, RowWithPr, Status, Modes
  <2>3. PICK evidence \in Files : evidence = [file[c] EXCEPT !.pr = "live"]
    BY DEF IInv, TypeOK, Files, RequestStates, Modes
  <2>4. /\ Sound(request[q]) /\ request[q].pc = "record_pr"
        /\ Chain(candidate[c]) /\ Backed(c)
    BY <1>5 DEF RecordPr, At, IInv, RecordsAreBacked
  <2>5. candidate[c] \in Rows
    BY DEF IInv, TypeOK
  <2>6. candidate[c].status # "absent"
    BY <2>1, <2>4 DEF Sound
  <2>7. Chain(row) /\ Extends(row, candidate[c]) /\ BackedRow(row)
    BY <2>1, <2>2, <2>4, <2>5, <2>6
    DEF Rows, Sound, Chain, Extends, Backed, BackedRow, RowWithPr, Assessed,
        PushPcs, PrPcs, ReadyPcs, MergePcs, PrStatuses
  <2>8. Save(q, c, row, evidence)
    BY <1>5, <2>1, <2>2, <2>3 DEF RecordPr
  <2>9. IInv'
    BY <2>6, <2>7, <2>8, Saving
  <2>10. Reached(row) \in {Reached(candidate[c]), Reached(candidate[c]) + 1}
    BY <2>1, <2>2, <2>4, <2>5, <2>6, NextColumn
    DEF Rows, Sound, Chain, RowWithPr, Assessed, PushPcs, PrPcs, ReadyPcs, MergePcs
  <2>11. QED
    BY <2>8, <2>9, <2>10, StepRecorded DEF Save
<1>6. CASE RecordReadiness(q)
  <2>1. PICK c \in Candidates : c = request[q].candidate
    BY <1>6 DEF RecordReadiness, At, IInv, TypeOK, RequestStates, Sound
  <2>2. PICK row \in Rows : row = Assessed(c, request[q].decision)
    <3>1. candidate[c] \in Rows
      BY DEF IInv, TypeOK
    <3>2. request[q].commit \in Commits /\ request[q].decision \in Decisions
      BY DEF IInv, TypeOK, RequestStates
    <3>3. QED
      BY <3>1, <3>2 DEF Rows, Assessed, Status
  <2>3. PICK evidence \in Files : evidence = [file[c] EXCEPT !.readiness = request[q].decision]
    BY DEF IInv, TypeOK, Files, RequestStates, Decisions
  <2>4. /\ Sound(request[q]) /\ request[q].pc = "record_ready"
        /\ Chain(candidate[c]) /\ Backed(c)
    BY <1>6 DEF RecordReadiness, At, IInv, RecordsAreBacked
  <2>5. candidate[c] \in Rows
    BY DEF IInv, TypeOK
  <2>6. candidate[c].status # "absent"
    BY <2>1, <2>4 DEF Sound
  <2>7. Chain(row) /\ Extends(row, candidate[c]) /\ BackedRow(row)
    BY <2>1, <2>2, <2>4, <2>5, <2>6
    DEF Rows, Sound, Chain, Extends, Backed, BackedRow, RowWithPr, Assessed,
        PushPcs, PrPcs, ReadyPcs, MergePcs, PrStatuses
  <2>8. Save(q, c, row, evidence)
    BY <1>6, <2>1, <2>2, <2>3 DEF RecordReadiness
  <2>9. IInv'
    BY <2>6, <2>7, <2>8, Saving
  <2>10. Reached(row) \in {Reached(candidate[c]), Reached(candidate[c]) + 1}
    BY <2>1, <2>2, <2>4, <2>5, <2>6, NextColumn
    DEF Rows, Sound, Chain, RowWithPr, Assessed, PushPcs, PrPcs, ReadyPcs, MergePcs
  <2>11. QED
    BY <2>8, <2>9, <2>10, StepRecorded DEF Save
<1>7. CASE RecordMerge(q)
  <2>1. PICK c \in Candidates : c = request[q].candidate
    BY <1>7 DEF RecordMerge, At, IInv, TypeOK, RequestStates, Sound
  <2>2. PICK row \in Rows : row = [candidate[c] EXCEPT
          !.status = "pull_request_merged", !.merged = TRUE, !.sha = request[q].commit]
    <3>1. candidate[c] \in Rows
      BY DEF IInv, TypeOK
    <3>2. request[q].commit \in Commits /\ request[q].decision \in Decisions
      BY DEF IInv, TypeOK, RequestStates
    <3>3. QED
      BY <3>1, <3>2 DEF Rows, Status
  <2>3. PICK evidence \in Files : evidence = file[c]
    BY DEF IInv, TypeOK, Files, RequestStates, Commits
  <2>4. /\ Sound(request[q]) /\ request[q].pc = "record_merge"
        /\ Chain(candidate[c]) /\ Backed(c)
    BY <1>7 DEF RecordMerge, At, IInv, RecordsAreBacked
  <2>5. candidate[c] \in Rows
    BY DEF IInv, TypeOK
  <2>6. candidate[c].status # "absent"
    BY <2>1, <2>4 DEF Sound
  <2>7. Chain(row) /\ Extends(row, candidate[c]) /\ BackedRow(row)
    BY <2>1, <2>2, <2>4, <2>5, <2>6
    DEF Rows, Sound, Chain, Extends, Backed, BackedRow, RowWithPr, Assessed,
        PushPcs, PrPcs, ReadyPcs, MergePcs, PrStatuses
  <2>8. Save(q, c, row, evidence)
    BY <1>7, <2>1, <2>2, <2>3 DEF RecordMerge
  <2>9. IInv'
    BY <2>6, <2>7, <2>8, Saving
  <2>10. Reached(row) \in {Reached(candidate[c]), Reached(candidate[c]) + 1}
    BY <2>1, <2>2, <2>4, <2>5, <2>6, NextColumn
    DEF Rows, Sound, Chain, RowWithPr, Assessed, PushPcs, PrPcs, ReadyPcs, MergePcs
  <2>11. QED
    BY <2>8, <2>9, <2>10, StepRecorded DEF Save
<1>8. QED
  BY <1>1, <1>2, <1>3, <1>4, <1>5, <1>6, <1>7 DEF Records

LEMMA OthersKeep ==
  ASSUME IInv, GatesReport \/ RollbackPatch \/ Crash \/ OthersAct
  PROVE  IInv'
<1>1. HeadCommit \in Nat /\ remote.branch \in Nat
  BY HeadType, BoundsAssumption DEF IInv, TypeOK, Remotes, Commits
<1>2. CASE GatesReport
  <2>1. Grows
    BY <1>1, <1>2 DEF GatesReport, WorldKept, Grows, IInv, TypeOK, HeadCommit
  <2>2. QED
    BY <1>2, <2>1, Watching, GatesAssumption DEF GatesReport, IInv, TypeOK
<1>3. CASE RollbackPatch
  <2>1. Grows
    BY <1>1, <1>3, BoundsAssumption
    DEF RollbackPatch, Grows, IInv, TypeOK, HeadCommit, Repos, Versions
  <2>2. QED
    BY <1>3, <2>1, Watching DEF RollbackPatch, IInv, TypeOK
<1>4. CASE Crash
  BY <1>4, Dying DEF Crash, RowsKept, IInv, TypeOK
<1>5. CASE OthersAct
  <2>1. ASSUME NEW v \in Versions \ {0}, Edit(v) PROVE Grows
    BY <1>1, <2>1 DEF Edit, Grows, IInv, TypeOK, HeadCommit, Repos
  <2>2. ASSUME CommitElse PROVE Grows
    <3>1. HeadVersion \in Versions
      BY <1>1, BoundsAssumption DEF HeadVersion, HeadCommit, IInv, TypeOK, Repos, Versions
    <3>2. Append(repo.log, HeadVersion) \in Seq(Versions)
      BY <3>1 DEF IInv, TypeOK, Repos
    <3>3. repo' = [repo EXCEPT !.log = Append(repo.log, HeadVersion)]
      BY <2>2 DEF CommitElse
    <3>4. repo' \in Repos /\ repo'.log = Append(repo.log, HeadVersion)
      BY <3>2, <3>3 DEF IInv, TypeOK, Repos
    <3>5. HeadCommit' = HeadCommit + 1
      BY <3>1, <3>4 DEF HeadCommit, IInv, TypeOK, Repos
    <3>6. QED
      BY <1>1, <2>2, <3>4, <3>5, BoundsAssumption DEF CommitElse, Grows, IInv, TypeOK
  <2>3. ASSUME PushElse PROVE Grows
    <3>1. HeadCommit \in Commits
      BY <1>1, BoundsAssumption DEF IInv, TypeOK, Commits
    <3>2. HeadCommit # 0
      BY <1>1, <2>3 DEF PushElse, IInv
    <3>3. QED
      BY <1>1, <2>3, <3>1, <3>2 DEF PushElse, Grows, IInv, TypeOK, Remotes, HeadCommit
  <2>4. ASSUME ClosePr PROVE Grows
    <3>1. remote' = [remote EXCEPT !.pr = "closed", !.head = remote.branch]
      BY <2>4 DEF ClosePr
    <3>2. remote' \in Remotes /\ remote'.branch = remote.branch /\ remote'.pr = "closed"
      BY <3>1 DEF IInv, TypeOK, Remotes
    <3>3. UNCHANGED repo /\ remote.pr = "open"
      BY <2>4 DEF ClosePr
    <3>4. QED
      BY <1>1, <3>2, <3>3 DEF Grows, IInv, TypeOK, HeadCommit
  <2>5. ASSUME MergeElse PROVE Grows
    <3>1. remote' = [remote EXCEPT !.pr = "merged", !.head = remote.branch]
      BY <2>5 DEF MergeElse, Merged
    <3>2. remote' \in Remotes /\ remote'.branch = remote.branch /\ remote'.pr = "merged"
      BY <3>1 DEF IInv, TypeOK, Remotes
    <3>3. UNCHANGED repo /\ remote.pr = "open"
      BY <2>5 DEF MergeElse
    <3>4. QED
      BY <1>1, <3>2, <3>3 DEF Grows, IInv, TypeOK, HeadCommit
  <2>6. Grows
    BY <1>5, <2>1, <2>2, <2>3, <2>4, <2>5 DEF OthersAct
  <2>7. QED
    BY <1>5, <2>6, Watching DEF OthersAct, ReviewKept, IInv, TypeOK
<1>6. QED
  BY <1>2, <1>3, <1>4, <1>5

LEMMA Start == Init => IInv
<1> SUFFICES ASSUME Init PROVE IInv
  OBVIOUS
<1>1. Len(repo.log) = 0 /\ repo \in Repos
  BY BoundsAssumption DEF Init, Repos, Versions
<1>2. TypeOK
  BY <1>1, IdleSound, BoundsAssumption
  DEF Init, TypeOK, EmptyRow, Rows, Files, Signoffs, Remotes, Status, Commits, Modes,
      Decisions, Gates, HeadCommit
<1>3. \A c \in Candidates : Chain(candidate[c]) /\ Backed(c)
  <2> SUFFICES ASSUME NEW c \in Candidates PROVE Chain(candidate[c]) /\ Backed(c)
    OBVIOUS
  <2>1. candidate[c] = EmptyRow
    BY DEF Init
  <2>2. Chain(candidate[c])
    BY <2>1 DEF EmptyRow, Chain, PrStatuses
  <2>3. Backed(c)
    BY <2>1, <1>1 DEF EmptyRow, Backed, HeadCommit
  <2>4. QED
    BY <2>2, <2>3
<1>4. (\A q \in Requests : Sound(request[q])) /\ Alone
  BY IdleSound DEF Init, Alone, Idle
<1>5. remote.branch <= HeadCommit
  BY <1>1 DEF Init, HeadCommit
<1>6. QED
  BY <1>2, <1>3, <1>4, <1>5 DEF IInv, RecordsAreBacked

LEMMA Stutter == IInv /\ UNCHANGED vars => IInv'
<1> SUFFICES ASSUME IInv, UNCHANGED vars PROVE IInv'
  OBVIOUS
<1>1. UNCHANGED <<candidate, file, signoff, patch, gates, repo, remote, request, crashes>>
  BY DEF vars
<1>2. (\A q \in Requests : Sound(request[q]))'
  BY <1>1 DEF IInv, Sound, HeadCommit
<1>3. QED
  BY <1>1, <1>2 DEF IInv, TypeOK, HeadCommit, RecordsAreBacked, Backed, Chain, Alone

LEMMA Invariance == IInv /\ [Next]_vars => IInv'
<1> SUFFICES ASSUME IInv, [Next]_vars PROVE IInv'
  OBVIOUS
<1>1. ASSUME NEW q \in Requests,
             Ask(q) \/ GitSteps(q) \/ GithubSteps(q) \/ Records(q) \/ Refuse(q)
      PROVE  IInv'
  BY <1>1, Asking, GitKeeps, GithubKeeps, RecordsKeep, RefuseKeeps
<1>2. CASE GatesReport \/ RollbackPatch \/ Crash \/ OthersAct
  BY <1>2, OthersKeep
<1>3. CASE UNCHANGED vars
  BY <1>3, Stutter
<1>4. QED
  BY <1>1, <1>2, <1>3 DEF Next

THEOREM InductiveInvariant == Spec => []IInv
  BY Start, Invariance, PTL DEF Spec

(* Every variable of the commit candidate steps keeps its shape.           *)
THEOREM TypeCorrect == Spec => []TypeOK
<1>1. IInv => TypeOK
  BY DEF IInv
<1>2. QED
  BY <1>1, InductiveInvariant, PTL

(* A row never claims a commit, a branch, a pull request or a merge that   *)
(* is not there, whatever requests overlap, crash or are raced by others.  *)
THEOREM RecordsBacked == Spec => []RecordsAreBacked
<1>1. IInv => RecordsAreBacked
  BY DEF IInv
<1>2. QED
  BY <1>1, InductiveInvariant, PTL

(* No step of a candidate is recorded before its predecessor and none is   *)
(* taken back: the rows implement GovernedSteps.                           *)
LEMMA StepsKept == IInv /\ [Next]_vars => Advances
<1> SUFFICES ASSUME IInv, [Next]_vars PROVE Advances
  OBVIOUS
<1>1. UNCHANGED candidate => Advances
  BY DEF Advances, reached
<1>2. ASSUME NEW q \in Requests, Ask(q) PROVE Advances
  <2>1. ASSUME NEW c \in Candidates, PreparePacket(q, c) PROVE Advances
    BY <2>1, PacketKeeps
  <2>2. ASSUME NEW c \in Candidates, NEW d \in {"ready", "not_ready"},
               AssessFromEvidence(q, c, d)
        PROVE  Advances
    BY <2>2, AssessKeeps
  <2>3. QED
    BY <1>1, <1>2, <2>1, <2>2
    DEF Ask, SignOff, Prepare, RequestCommit, RequestPush, RequestPr, RequestAssessment,
        RequestMerge, Begin, RowsKept
<1>3. ASSUME NEW q \in Requests, Records(q) PROVE Advances
  BY <1>3, RecordsKeep
<1>4. ASSUME NEW q \in Requests, GitSteps(q) \/ GithubSteps(q) \/ Refuse(q)
      PROVE  UNCHANGED candidate
  BY <1>4 DEF GitSteps, GithubSteps, Refuse, CheckTree, Add, Commit, RevParse, PushHead,
     PushStatus, PushBranch, ReusePr, NoPrYet, CreatePr, ReadyView, ReadySkipped,
     MergeView, MergePr, MergedView, Checked, RowsKept
<1>5. CASE GatesReport \/ RollbackPatch \/ Crash \/ OthersAct \/ UNCHANGED vars
  BY <1>1, <1>5 DEF GatesReport, RollbackPatch, Crash, OthersAct, RowsKept, vars
<1>6. QED
  BY <1>1, <1>2, <1>3, <1>4, <1>5 DEF Next

THEOREM StepsImplemented == Spec => StepsInOrder
<1>1. Init => Steps!Init
  BY DEF Init, Steps!Init, EmptyRow, Reached
<1>2. IInv /\ [Next]_vars => [Steps!Next]_reached
  BY StepsKept DEF Advances, Steps!Next, Steps!Advance, reached
<1>3. QED
  BY <1>1, <1>2, InductiveInvariant, PTL DEF Spec, StepsInOrder, Steps!Spec, reached

-----------------------------------------------------------------------------
(* Candidates whose requests come one at a time *)

OneRequest == \A p, q \in Requests : p = q

(* What the status of a row says of its columns. *)
Form(row) ==
  /\ row.status = "commit_candidate_prepared" => row.hash = 0
  /\ row.status = "local_commit_created" => row.hash # 0 /\ ~row.pushed
  /\ row.status = "remote_branch_pushed" => row.pushed /\ row.pr = "none"
  /\ row.status = "pull_request_created" => row.pr = "live"
  /\ row.status \in PrStatuses => row.readiness = "none"
  /\ row.status = "merge_readiness_recorded" => ~row.merged

Evidenced(evidence, row) ==
  /\ row.pushed => evidence.push = row.hash
  /\ evidence.pr = row.pr
  /\ evidence.readiness = row.readiness

CommitPcs == {"commit_tree", "add", "commit", "rev_parse", "record_commit"}

(* The candidate of a request is where it was when the request was         *)
(* validated.                                                              *)
InPlace(s) ==
  LET row == candidate[s.candidate] IN
  /\ s.pc \in CommitPcs => row.status = "commit_candidate_prepared"
  /\ s.pc \in PushPcs => row.status = "local_commit_created" /\ s.commit = row.hash
  /\ s.pc \in PrPcs => row.status = "remote_branch_pushed"
  /\ s.pc \in ReadyPcs => row.status = "pull_request_created"
  /\ s.pc \in MergePcs => row.status = "merge_readiness_recorded"

Filed ==
  /\ \A c \in Candidates : Form(candidate[c])
  /\ crashes = 0 => \A c \in Candidates : Evidenced(file[c], candidate[c])
  /\ \A q \in Requests : InPlace(request[q])

LEMMA IdleInPlace == InPlace(Idle)
  BY DEF InPlace, Idle, CommitPcs, PushPcs, PrPcs, ReadyPcs, MergePcs

LEMMA FiledWhenWaiting ==
  ASSUME OneRequest, TypeOK, Filed, NEW q \in Requests, NEW s, Wait(q, s), InPlace(s),
         RowsKept, UNCHANGED crashes
  PROVE  Filed'
<1>1. request'[q] = s /\ UNCHANGED <<candidate, file>>
  BY DEF TypeOK, Wait, RowsKept
<1>2. \A p \in Requests : request'[p] = s
  BY <1>1 DEF OneRequest
<1>3. \A p \in Requests : InPlace(request[p])'
  BY <1>1, <1>2 DEF InPlace
<1> QED
  BY <1>1, <1>3 DEF Filed

LEMMA FiledWhenGoingOn ==
  ASSUME OneRequest, TypeOK, Filed, NEW q \in Requests, NEW pc, Goto(q, pc),
         RowsKept, UNCHANGED crashes,
         \/ pc \in CommitPcs /\ request[q].pc \in CommitPcs
         \/ pc \in PushPcs /\ request[q].pc \in PushPcs
         \/ pc \in PrPcs /\ request[q].pc \in PrPcs
         \/ pc \in ReadyPcs /\ request[q].pc \in ReadyPcs
         \/ pc \in MergePcs /\ request[q].pc \in MergePcs
  PROVE  Filed'
<1>1. PICK s : s = [request[q] EXCEPT !.pc = pc]
  OBVIOUS
<1>2. s.pc = pc /\ s.candidate = request[q].candidate /\ s.commit = request[q].commit
  BY <1>1 DEF TypeOK, RequestStates
<1>3. Wait(q, s)
  BY <1>1 DEF Goto, Wait, TypeOK
<1>4. InPlace(s)
  BY <1>2 DEF Filed, InPlace, CommitPcs, PushPcs, PrPcs, ReadyPcs, MergePcs
<1> QED
  BY <1>3, <1>4, FiledWhenWaiting

LEMMA FiledWhenSaved ==
  ASSUME OneRequest, TypeOK, Filed, NEW q \in Requests, NEW c \in Candidates, NEW row, NEW evidence,
         Save(q, c, row, evidence), Form(row),
         crashes = 0 => Evidenced(evidence, row)
  PROVE  Filed'
<1>1. /\ file'[c] = evidence
      /\ \A d \in Candidates \ {c} : file'[d] = file[d]
  BY DEF Save, TypeOK
<1>2. CASE /\ candidate' = [candidate EXCEPT ![c] = row]
           /\ Wait(q, Idle) /\ UNCHANGED crashes
  <2>1. /\ candidate'[c] = row
        /\ \A d \in Candidates \ {c} : candidate'[d] = candidate[d]
    BY <1>2 DEF TypeOK
  <2>2. \A p \in Requests : request'[p].pc = "idle"
    BY <1>2 DEF OneRequest, Wait, TypeOK, Idle
  <2>3. \A p \in Requests : InPlace(request[p])'
    BY <2>2 DEF InPlace, CommitPcs, PushPcs, PrPcs, ReadyPcs, MergePcs
  <2> QED
    BY <1>1, <1>2, <2>1, <2>3 DEF Filed
<1>3. ASSUME crashes < MaxCrashes, crashes' = crashes + 1,
             request' = [r \in Requests |-> Idle],
             candidate' \in {candidate, [candidate EXCEPT ![c] = row]}
      PROVE  Filed'
  <2>1. \A d \in Candidates : candidate'[d] \in {candidate[d], row}
    BY <1>3 DEF TypeOK
  <2>2. \A p \in Requests : request'[p].pc = "idle"
    BY <1>3 DEF Idle
  <2>3. \A p \in Requests : InPlace(request[p])'
    BY <2>2 DEF InPlace, CommitPcs, PushPcs, PrPcs, ReadyPcs, MergePcs
  <2>4. crashes' # 0
    BY <1>3, BoundsAssumption DEF TypeOK
  <2>5. \A d \in Candidates : Form(candidate'[d])
    BY <2>1 DEF Filed
  <2> QED
    BY <2>3, <2>4, <2>5 DEF Filed
<1> QED
  BY <1>2, <1>3 DEF Save

LEMMA FiledWhenBegun ==
  ASSUME OneRequest, TypeOK, Filed, NEW q \in Requests, NEW c \in Candidates, NEW pc, NEW d,
         Begin(q, c, pc, d),
         \/ pc = "commit_tree" /\ candidate[c].status = "commit_candidate_prepared"
         \/ pc = "push_head" /\ candidate[c].status = "local_commit_created"
         \/ pc = "pr_list" /\ candidate[c].status = "remote_branch_pushed"
         \/ pc = "ready_view" /\ candidate[c].status = "pull_request_created"
         \/ pc = "merge_view" /\ candidate[c].status = "merge_readiness_recorded"
  PROVE  Filed'
<1>1. PICK s : s = [Idle EXCEPT !.pc = pc, !.candidate = c, !.decision = d,
                                !.commit = candidate[c].hash]
  OBVIOUS
<1>2. s.pc = pc /\ s.candidate = c /\ s.commit = candidate[c].hash
  BY <1>1 DEF Idle
<1>3. InPlace(s)
  BY <1>2 DEF InPlace, CommitPcs, PushPcs, PrPcs, ReadyPcs, MergePcs
<1> QED
  BY <1>1, <1>3, FiledWhenWaiting DEF Begin

-----------------------------------------------------------------------------
(* The rows that are recorded *)

LEMMA FiledPr ==
  ASSUME OneRequest, IInv, Filed, NEW q \in Requests, NEW c \in Candidates,
         NEW mode \in {"live", "packet"}, candidate[c].status = "remote_branch_pushed",
         Save(q, c, RowWithPr(c, mode), [file[c] EXCEPT !.pr = mode])
  PROVE  Filed'
<1>1. candidate[c] \in Rows /\ file[c] \in Files /\ Chain(candidate[c]) /\ Form(candidate[c])
  BY DEF IInv, TypeOK, Filed
<1>2. PICK row : row = RowWithPr(c, mode)
  OBVIOUS
<1>3. PICK evidence : evidence = [file[c] EXCEPT !.pr = mode]
  OBVIOUS
<1>4. /\ row.pr = mode /\ row.hash = candidate[c].hash /\ row.pushed = candidate[c].pushed
      /\ row.readiness = candidate[c].readiness /\ row.merged = candidate[c].merged
      /\ mode = "live" => row.status = "pull_request_created"
      /\ mode = "packet" => row.status = "pull_request_packet_prepared"
  BY <1>1, <1>2 DEF RowWithPr, Rows
<1>5. /\ evidence.pr = mode /\ evidence.push = file[c].push
      /\ evidence.readiness = file[c].readiness
  BY <1>1, <1>3 DEF Files
<1>6. Form(row)
  BY <1>1, <1>4 DEF Form, Chain, PrStatuses
<1>7. crashes = 0 => Evidenced(evidence, row)
  BY <1>4, <1>5 DEF Filed, Evidenced
<1> QED
  BY <1>2, <1>3, <1>6, <1>7, FiledWhenSaved DEF IInv

LEMMA FiledReadiness ==
  ASSUME OneRequest, IInv, Filed, NEW q \in Requests, NEW c \in Candidates, NEW d,
         candidate[c].status \in PrStatuses \cup {"merge_readiness_recorded"},
         Save(q, c, Assessed(c, d), [file[c] EXCEPT !.readiness = d])
  PROVE  Filed'
<1>1. candidate[c] \in Rows /\ file[c] \in Files /\ Chain(candidate[c]) /\ Form(candidate[c])
  BY DEF IInv, TypeOK, Filed
<1>2. PICK row : row = Assessed(c, d)
  OBVIOUS
<1>3. PICK evidence : evidence = [file[c] EXCEPT !.readiness = d]
  OBVIOUS
<1>4. /\ row.pr = candidate[c].pr /\ row.hash = candidate[c].hash
      /\ row.pushed = candidate[c].pushed
      /\ row.readiness = d /\ row.merged = candidate[c].merged
      /\ row.status = "merge_readiness_recorded"
  BY <1>1, <1>2 DEF Assessed, Rows
<1>5. /\ evidence.pr = file[c].pr /\ evidence.push = file[c].push
      /\ evidence.readiness = d
  BY <1>1, <1>3 DEF Files
<1>6. Form(row)
  BY <1>1, <1>4 DEF Form, Chain, PrStatuses
<1>7. crashes = 0 => Evidenced(evidence, row)
  BY <1>4, <1>5 DEF Filed, Evidenced
<1> QED
  BY <1>2, <1>3, <1>6, <1>7, FiledWhenSaved DEF IInv

LEMMA FiledRecords ==
  ASSUME OneRequest, IInv, Filed, NEW q \in Requests, Records(q)
  PROVE  Filed'
<1>0. /\ request[q] \in RequestStates /\ Sound(request[q]) /\ InPlace(request[q])
      /\ TypeOK
  BY DEF IInv, TypeOK, Filed
<1>1. CASE RecordSignoff(q)
  BY <1>0, <1>1, IdleInPlace, FiledWhenWaiting DEF RecordSignoff
<1> SUFFICES ASSUME ~RecordSignoff(q) PROVE Filed'
  BY <1>1
<1>2. PICK c : c = request[q].candidate
  OBVIOUS
<1>3. c \in Candidates
  BY <1>0, <1>2 DEF Records, RecordSignoff, RecordCandidate, RecordCommit, RecordPush,
     RecordPr, RecordReadiness, RecordMerge, At, RequestStates, Sound
<1>4. candidate[c] \in Rows /\ file[c] \in Files /\ Chain(candidate[c]) /\ Form(candidate[c])
  BY <1>3 DEF IInv, TypeOK, Filed
<1>5. CASE RecordCandidate(q)
  <2>1. PICK row : row = [EmptyRow EXCEPT !.status = "commit_candidate_prepared",
                                 !.signoff = request[q].signoff,
                                 !.gates = request[q].gates,
                                 !.override = request[q].override]
    OBVIOUS
  <2>2. /\ row.status = "commit_candidate_prepared" /\ row.hash = 0 /\ ~row.pushed
        /\ row.pr = "none" /\ row.readiness = "none" /\ ~row.merged
    BY <2>1 DEF EmptyRow
  <2>3. /\ candidate'[c] = row
        /\ \A d \in Candidates \ {c} : candidate'[d] = candidate[d]
        /\ UNCHANGED <<file, crashes>>
    BY <1>0, <1>2, <1>3, <1>5, <2>1 DEF RecordCandidate, TypeOK
  <2>4. \A p \in Requests : request'[p].pc = "idle"
    BY <1>0, <1>5 DEF RecordCandidate, OneRequest, Wait, TypeOK, Idle
  <2>5. \A p \in Requests : InPlace(request[p])'
    BY <2>4 DEF InPlace, CommitPcs, PushPcs, PrPcs, ReadyPcs, MergePcs
  <2>6. Form(row)
    BY <2>2 DEF Form, PrStatuses
  <2>7. candidate[c].status = "absent"
    BY <1>0, <1>2, <1>5 DEF RecordCandidate, At, Sound
  <2>8. candidate[c].readiness = "none" /\ candidate[c].pr = "none"
    BY <1>4, <2>7 DEF Chain
  <2>9. crashes = 0 => Evidenced(file[c], row)
    BY <1>3, <2>2, <2>8 DEF Filed, Evidenced
  <2> QED
    BY <1>3, <2>3, <2>5, <2>6, <2>9 DEF Filed
<1>6. CASE RecordCommit(q)
  <2>1. PICK row : row = [candidate[c] EXCEPT !.status = "local_commit_created",
                                     !.hash = request[q].commit]
    OBVIOUS
  <2>2. /\ row.status = "local_commit_created" /\ row.hash = request[q].commit
        /\ row.pushed = candidate[c].pushed /\ row.pr = candidate[c].pr
        /\ row.readiness = candidate[c].readiness
    BY <1>4, <2>1 DEF Rows
  <2>3. candidate[c].status = "commit_candidate_prepared" /\ request[q].commit # 0
    BY <1>0, <1>2, <1>6 DEF RecordCommit, At, InPlace, CommitPcs, Sound
  <2>4. Form(row)
    BY <1>4, <2>2, <2>3 DEF Form, Chain, PrStatuses
  <2>5. crashes = 0 => Evidenced(file[c], row)
    BY <1>3, <1>4, <2>2, <2>3 DEF Filed, Evidenced, Form, Chain
  <2> QED
    BY <1>0, <1>2, <1>3, <1>6, <2>1, <2>4, <2>5, FiledWhenSaved DEF RecordCommit
<1>7. CASE RecordPush(q)
  <2>1. PICK row : row = [candidate[c] EXCEPT !.status = "remote_branch_pushed", !.pushed = TRUE]
    OBVIOUS
  <2>2. /\ row.status = "remote_branch_pushed" /\ row.hash = candidate[c].hash
        /\ row.pushed /\ row.pr = candidate[c].pr
        /\ row.readiness = candidate[c].readiness
    BY <1>4, <2>1 DEF Rows
  <2>3. candidate[c].status = "local_commit_created" /\ request[q].commit = candidate[c].hash
    BY <1>0, <1>2, <1>7 DEF RecordPush, At, InPlace, PushPcs
  <2>4. PICK evidence : evidence = [file[c] EXCEPT !.push = request[q].commit]
    OBVIOUS
  <2>5. /\ evidence.push = request[q].commit /\ evidence.pr = file[c].pr
        /\ evidence.readiness = file[c].readiness
    BY <1>4, <2>4 DEF Files
  <2>6. Form(row)
    BY <1>4, <2>2, <2>3 DEF Form, Chain, PrStatuses
  <2>7. crashes = 0 => Evidenced(evidence, row)
    BY <1>3, <2>2, <2>3, <2>5 DEF Filed, Evidenced
  <2> QED
    BY <1>0, <1>2, <1>3, <1>7, <2>1, <2>4, <2>6, <2>7, FiledWhenSaved DEF RecordPush
<1>8. CASE RecordPr(q)
  <2>1. candidate[c].status = "remote_branch_pushed"
    BY <1>0, <1>2, <1>8 DEF RecordPr, At, InPlace, PrPcs
  <2> QED
    BY <1>2, <1>3, <1>8, <2>1, FiledPr DEF RecordPr
<1>9. CASE RecordReadiness(q)
  <2>1. candidate[c].status = "pull_request_created"
    BY <1>0, <1>2, <1>9 DEF RecordReadiness, At, InPlace, ReadyPcs
  <2> QED
    BY <1>2, <1>3, <1>9, <2>1, FiledReadiness DEF RecordReadiness, PrStatuses
<1>10. CASE RecordMerge(q)
  <2>1. PICK row : row = [candidate[c] EXCEPT !.status = "pull_request_merged",
                                     !.merged = TRUE, !.sha = request[q].commit]
    OBVIOUS
  <2>2. /\ row.status = "pull_request_merged" /\ row.hash = candidate[c].hash
        /\ row.pushed = candidate[c].pushed /\ row.pr = candidate[c].pr
        /\ row.readiness = candidate[c].readiness
    BY <1>4, <2>1 DEF Rows
  <2>3. Form(row) /\ (crashes = 0 => Evidenced(file[c], row))
    BY <1>3, <2>2 DEF Form, PrStatuses, Filed, Evidenced
  <2> QED
    BY <1>0, <1>2, <1>3, <1>10, <2>1, <2>3, FiledWhenSaved DEF RecordMerge
<1> QED
  BY <1>5, <1>6, <1>7, <1>8, <1>9, <1>10 DEF Records

LEMMA FiledAsked ==
  ASSUME OneRequest, IInv, Filed, NEW q \in Requests, Ask(q)
  PROVE  Filed'
<1>0. TypeOK
  BY DEF IInv
<1>1. ASSUME NEW a, NEW o, SignOff(q, a, o) PROVE Filed'
  <2>1. PICK s : s = [Idle EXCEPT !.pc = "signoff", !.approved = a, !.gates = gates]
    OBVIOUS
  <2>2. InPlace(s)
    BY <2>1 DEF Idle, InPlace, CommitPcs, PushPcs, PrPcs, ReadyPcs, MergePcs
  <2> QED
    BY <1>0, <1>1, <2>1, <2>2, FiledWhenWaiting DEF SignOff
<1>2. ASSUME NEW c \in Candidates, NEW o, Prepare(q, c, o) PROVE Filed'
  <2>1. PICK s : s = [Idle EXCEPT !.pc = "prepare", !.candidate = c, !.signoff = signoff.id,
                           !.gates = signoff.gates, !.override = o]
    OBVIOUS
  <2>2. InPlace(s)
    BY <2>1 DEF Idle, InPlace, CommitPcs, PushPcs, PrPcs, ReadyPcs, MergePcs
  <2> QED
    BY <1>0, <1>2, <2>1, <2>2, FiledWhenWaiting DEF Prepare
<1>3. ASSUME NEW c \in Candidates,
             \/ RequestCommit(q, c) \/ RequestPush(q, c) \/ RequestPr(q, c)
             \/ RequestMerge(q, c) \/ \E d \in {"ready", "not_ready"} : RequestAssessment(q, c, d)
      PROVE  Filed'
  BY <1>0, <1>3, FiledWhenBegun
    DEF RequestCommit, MayCommit, RequestPush, MayPush, RequestPr, MayOpenPr,
        RequestMerge, MayMerge, RequestAssessment
<1>4. ASSUME NEW c \in Candidates, PreparePacket(q, c) PROVE Filed'
  BY <1>4, FiledPr DEF PreparePacket, MayOpenPr
<1>5. ASSUME NEW c \in Candidates, NEW d, AssessFromEvidence(q, c, d) PROVE Filed'
  BY <1>5, FiledReadiness DEF AssessFromEvidence, MayAssess
<1> QED
  BY <1>1, <1>2, <1>3, <1>4, <1>5 DEF Ask

LEMMA FiledOnTheWay ==
  ASSUME OneRequest, IInv, Filed, NEW q \in Requests,
         GitSteps(q) \/ GithubSteps(q) \/ Refuse(q)
  PROVE  Filed'
<1>0. TypeOK /\ request[q] \in RequestStates /\ InPlace(request[q])
  BY DEF IInv, TypeOK, Filed
<1>1. RowsKept /\ UNCHANGED crashes
  BY DEF GitSteps, GithubSteps, Refuse, CheckTree, Add, Commit, RevParse, PushHead,
     PushStatus, PushBranch, ReusePr, NoPrYet, CreatePr, ReadyView, ReadySkipped,
     MergeView, MergePr, MergedView, Checked
<1>2. CASE Refuse(q)
  BY <1>0, <1>1, <1>2, IdleInPlace, FiledWhenWaiting DEF Refuse
<1>3. CASE RevParse(q)
  <2>1. PICK s : s = [request[q] EXCEPT !.pc = "record_commit", !.commit = HeadCommit]
    OBVIOUS
  <2>2. InPlace(s)
    BY <1>0, <1>3, <2>1 DEF RevParse, At, InPlace, RequestStates, CommitPcs, PushPcs, PrPcs,
       ReadyPcs, MergePcs
  <2> QED
    BY <1>0, <1>1, <1>3, <2>1, <2>2, FiledWhenWaiting DEF RevParse
<1>4. CASE MergedView(q)
  <2>1. PICK sha \in {0, PrHead} :
          Wait(q, [request[q] EXCEPT !.pc = "record_merge", !.commit = sha])
    BY <1>4 DEF MergedView
  <2>2. PICK s : s = [request[q] EXCEPT !.pc = "record_merge", !.commit = sha]
    OBVIOUS
  <2>3. InPlace(s)
    BY <1>0, <1>4, <2>2 DEF MergedView, At, InPlace, RequestStates, CommitPcs, PushPcs, PrPcs,
       ReadyPcs, MergePcs
  <2> QED
    BY <1>0, <1>1, <2>1, <2>2, <2>3, FiledWhenWaiting
<1>5. ASSUME NEW from, NEW to, request[q].pc = from, Goto(q, to),
             \/ from \in CommitPcs /\ to \in CommitPcs
             \/ from \in PushPcs /\ to \in PushPcs
             \/ from \in PrPcs /\ to \in PrPcs
             \/ from \in ReadyPcs /\ to \in ReadyPcs
             \/ from \in MergePcs /\ to \in MergePcs
      PROVE  Filed'
  BY <1>0, <1>1, <1>5, FiledWhenGoingOn
<1>6. CASE CheckTree(q) \/ Add(q) \/ Commit(q)
  BY <1>5, <1>6 DEF CheckTree, Add, Commit, Checked, At, CommitPcs
<1>7. CASE PushHead(q) \/ PushStatus(q) \/ PushBranch(q)
  BY <1>5, <1>7 DEF PushHead, PushStatus, PushBranch, Checked, At, PushPcs
<1>8. CASE ReusePr(q) \/ NoPrYet(q) \/ CreatePr(q)
  BY <1>5, <1>8 DEF ReusePr, NoPrYet, CreatePr, Checked, At, PrPcs
<1>9. CASE ReadyView(q) \/ ReadySkipped(q)
  BY <1>5, <1>9 DEF ReadyView, ReadySkipped, Checked, At, ReadyPcs
<1>10. CASE MergeView(q) \/ MergePr(q)
  BY <1>5, <1>10 DEF MergeView, MergePr, Checked, At, MergePcs
<1> QED
  BY <1>2, <1>3, <1>4, <1>6, <1>7, <1>8, <1>9, <1>10 DEF GitSteps, GithubSteps

LEMMA FiledKept ==
  ASSUME OneRequest, IInv, Filed, [Next]_vars
  PROVE  Filed'
<1>1. ASSUME UNCHANGED <<candidate, file, request, crashes>> PROVE Filed'
  BY <1>1 DEF Filed, InPlace
<1>2. CASE Crash
  <2>1. \A p \in Requests : request'[p].pc = "idle"
    BY <1>2 DEF Crash, Idle
  <2>2. \A p \in Requests : InPlace(request[p])'
    BY <2>1 DEF InPlace, CommitPcs, PushPcs, PrPcs, ReadyPcs, MergePcs
  <2>3. crashes' # 0
    BY <1>2, BoundsAssumption DEF Crash, IInv, TypeOK
  <2> QED
    BY <1>2, <2>2, <2>3 DEF Crash, RowsKept, Filed
<1>3. CASE GatesReport \/ RollbackPatch \/ OthersAct \/ UNCHANGED vars
  BY <1>1, <1>3 DEF GatesReport, RollbackPatch, OthersAct, RowsKept, vars
<1> QED
  BY <1>2, <1>3, FiledAsked, FiledOnTheWay, FiledRecords DEF Next

LEMMA FiledAtStart == Init => Filed
  BY IdleInPlace DEF Init, Filed, Form, EmptyRow, PrStatuses, Evidenced

-----------------------------------------------------------------------------
(* What is merged, while besides nobody else commits or pushes *)

Undisturbed == OneRequest /\ {"commit", "push"} \cap Others = {}

(* What a request of the commit or of the merge knows of the heads. *)
KnowsHead(s) ==
  LET hash == candidate[s.candidate].hash IN
  /\ s.pc = "rev_parse" => \A d \in Candidates : candidate[d].hash < HeadCommit
  /\ s.pc = "record_commit" => \A d \in Candidates : candidate[d].hash < s.commit
  /\ s.pc = "merge_view" => s.commit = hash
  /\ s.pc = "merge" => PrHead = hash
  /\ s.pc \in {"merged_view", "record_merge"} => remote.head = hash

HeadPcs == {"rev_parse", "record_commit", "merge_view", "merge", "merged_view", "record_merge"}

Heads ==
  /\ \A c, d \in Candidates : candidate[c].hash # 0 /\ candidate[c].hash = candidate[d].hash => c = d
  /\ \A c \in Candidates : candidate[c].merged => remote.head = candidate[c].hash
  /\ \A q \in Requests : KnowsHead(request[q])

LEMMA OtherPcs == ASSUME NEW s, s.pc \notin HeadPcs PROVE KnowsHead(s)
  BY DEF KnowsHead, HeadPcs

(* The request moves, and the pull request has the head it had if a        *)
(* candidate is merged.                                                    *)
LEMMA HeadsWhenMoving ==
  ASSUME OneRequest, TypeOK, Heads, NEW q \in Requests, UNCHANGED candidate,
         (\E c \in Candidates : candidate[c].merged) => remote'.head = remote.head,
         KnowsHead(request[q])'
  PROVE  Heads'
<1>1. \A p \in Requests : p = q
  BY DEF OneRequest
<1>2. \A p \in Requests : KnowsHead(request[p])'
  BY <1>1
<1> QED
  BY <1>2 DEF Heads

(* No request and no row changes. *)
LEMMA HeadsWhenOthersAct ==
  ASSUME TypeOK, Heads, UNCHANGED <<candidate, request>>, HeadCommit' = HeadCommit,
         PrHead' = PrHead, remote.pr = "merged" => remote'.head = remote.head,
         RecordsAreBacked,
         \A q \in Requests : Sound(request[q])
  PROVE  Heads'
<1>1. \A c \in Candidates : candidate[c].merged => remote'.head = remote.head
  BY DEF RecordsAreBacked, Backed
<1>2. \A q \in Requests : request[q].pc \in {"merged_view", "record_merge"} =>
                            remote'.head = remote.head
  BY DEF Sound
<1>3. \A q \in Requests : KnowsHead(request[q])'
  BY <1>2 DEF Heads, KnowsHead
<1> QED
  BY <1>1, <1>3 DEF Heads

LEMMA HeadsWhenSaved ==
  ASSUME OneRequest, TypeOK, Heads, NEW q \in Requests, NEW c \in Candidates, NEW row, NEW evidence,
         Save(q, c, row, evidence),
         \/ row.hash = candidate[c].hash
         \/ row.hash \in Nat /\ \A d \in Candidates : candidate[d].hash < row.hash,
         row.merged => remote.head = row.hash
  PROVE  Heads'
<1>0. \A d \in Candidates : candidate[d].hash \in Nat
  <2> SUFFICES ASSUME NEW d \in Candidates PROVE candidate[d].hash \in Nat
    OBVIOUS
  <2>1. candidate[d] \in Rows
    BY DEF TypeOK
  <2> QED
    BY <2>1, BoundsAssumption DEF Rows, Commits
<1>1. \/ UNCHANGED candidate
      \/ /\ candidate'[c] = row
         /\ \A d \in Candidates \ {c} : candidate'[d] = candidate[d]
  BY DEF Save, TypeOK
<1>2. \A p \in Requests : request'[p].pc = "idle"
  BY DEF Save, Wait, TypeOK, Idle, OneRequest
<1>3. \A p \in Requests : KnowsHead(request[p])'
  BY <1>2 DEF KnowsHead
<1>4. remote' = remote
  BY DEF Save, WorldKept
<1> QED
  BY <1>0, <1>1, <1>3, <1>4 DEF Heads

LEMMA HeadsRecorded ==
  ASSUME OneRequest, IInv, Filed, Heads, NEW q \in Requests, Records(q)
  PROVE  Heads'
<1>0. /\ request[q] \in RequestStates /\ Sound(request[q]) /\ InPlace(request[q])
      /\ KnowsHead(request[q]) /\ TypeOK
  BY DEF IInv, TypeOK, Filed, Heads
<1>1. ASSUME Wait(q, Idle) PROVE KnowsHead(request[q])'
  <2>1. request'[q].pc = "idle"
    BY <1>0, <1>1 DEF Wait, TypeOK, Idle
  <2> QED
    BY <2>1 DEF KnowsHead
<1>2. CASE RecordSignoff(q)
  BY <1>0, <1>1, <1>2, HeadsWhenMoving DEF RecordSignoff, RowsKept, WorldKept
<1> SUFFICES ASSUME ~RecordSignoff(q) PROVE Heads'
  BY <1>2
<1>3. PICK c : c = request[q].candidate
  OBVIOUS
<1>4. c \in Candidates
  BY <1>0, <1>3 DEF Records, RecordSignoff, RecordCandidate, RecordCommit, RecordPush,
     RecordPr, RecordReadiness, RecordMerge, At, RequestStates, Sound
<1>5. /\ candidate[c] \in Rows /\ Chain(candidate[c]) /\ Form(candidate[c])
      /\ candidate[c].merged => remote.head = candidate[c].hash
  BY <1>4 DEF IInv, TypeOK, Filed, Heads
<1>6. CASE RecordCandidate(q)
  <2>1. PICK row : row = [EmptyRow EXCEPT !.status = "commit_candidate_prepared",
                                 !.signoff = request[q].signoff,
                                 !.gates = request[q].gates,
                                 !.override = request[q].override]
    OBVIOUS
  <2>2. row.hash = 0 /\ ~row.merged
    BY <2>1 DEF EmptyRow
  <2>3. /\ candidate'[c] = row
        /\ \A d \in Candidates \ {c} : candidate'[d] = candidate[d]
        /\ UNCHANGED remote
    BY <1>0, <1>3, <1>4, <1>6, <2>1 DEF RecordCandidate, TypeOK, WorldKept
  <2>4. \A p \in Requests : KnowsHead(request[p])'
    BY <1>1, <1>6 DEF RecordCandidate, OneRequest
  <2> QED
    BY <2>2, <2>3, <2>4 DEF Heads
<1>7. CASE RecordCommit(q)
  <2>1. PICK row : row = [candidate[c] EXCEPT !.status = "local_commit_created",
                                     !.hash = request[q].commit]
    OBVIOUS
  <2>2. row.hash = request[q].commit /\ row.merged = candidate[c].merged
    BY <1>5, <2>1 DEF Rows
  <2>3. /\ candidate[c].status = "commit_candidate_prepared"
        /\ \A d \in Candidates : candidate[d].hash < request[q].commit
        /\ request[q].commit \in Nat
    BY <1>0, <1>3, <1>7, BoundsAssumption
      DEF RecordCommit, At, InPlace, CommitPcs, KnowsHead, RequestStates, Commits
  <2>4. ~row.merged
    BY <1>5, <2>2, <2>3 DEF Form, Chain
  <2> QED
    BY <1>0, <1>3, <1>4, <1>7, <2>1, <2>2, <2>3, <2>4, HeadsWhenSaved DEF RecordCommit
<1>8. ASSUME NEW row, NEW evidence, Save(q, c, row, evidence),
             row.hash = candidate[c].hash, row.merged = candidate[c].merged
      PROVE  Heads'
  BY <1>0, <1>4, <1>5, <1>8, HeadsWhenSaved
<1>9. CASE RecordPush(q)
  <2>1. PICK row : row = [candidate[c] EXCEPT !.status = "remote_branch_pushed", !.pushed = TRUE]
    OBVIOUS
  <2>2. row.hash = candidate[c].hash /\ row.merged = candidate[c].merged
    BY <1>5, <2>1 DEF Rows
  <2> QED
    BY <1>3, <1>8, <1>9, <2>1, <2>2 DEF RecordPush
<1>10. CASE RecordPr(q)
  <2>1. PICK row : row = RowWithPr(c, "live")
    OBVIOUS
  <2>2. row.hash = candidate[c].hash /\ row.merged = candidate[c].merged
    BY <1>5, <2>1 DEF Rows, RowWithPr
  <2> QED
    BY <1>3, <1>8, <1>10, <2>1, <2>2 DEF RecordPr
<1>11. CASE RecordReadiness(q)
  <2>1. PICK row : row = Assessed(c, request[q].decision)
    OBVIOUS
  <2>2. row.hash = candidate[c].hash /\ row.merged = candidate[c].merged
    BY <1>5, <2>1 DEF Rows, Assessed
  <2> QED
    BY <1>3, <1>8, <1>11, <2>1, <2>2 DEF RecordReadiness
<1>12. CASE RecordMerge(q)
  <2>1. PICK row : row = [candidate[c] EXCEPT !.status = "pull_request_merged",
                                     !.merged = TRUE, !.sha = request[q].commit]
    OBVIOUS
  <2>2. row.hash = candidate[c].hash
    BY <1>5, <2>1 DEF Rows
  <2>3. remote.head = candidate[c].hash
    BY <1>0, <1>3, <1>12 DEF RecordMerge, At, KnowsHead
  <2> QED
    BY <1>0, <1>3, <1>4, <1>12, <2>1, <2>2, <2>3, HeadsWhenSaved DEF RecordMerge
<1> QED
  BY <1>6, <1>7, <1>9, <1>10, <1>11, <1>12 DEF Records

LEMMA HeadsAsked ==
  ASSUME OneRequest, IInv, Heads, NEW q \in Requests, Ask(q)
  PROVE  Heads'
<1>0. TypeOK
  BY DEF IInv
<1>1. ASSUME NEW s, Wait(q, s), s.pc \in {"signoff", "prepare"}, RowsKept, WorldKept PROVE Heads'
  <2>1. request'[q] = s
    BY <1>0, <1>1 DEF Wait, TypeOK
  <2>2. KnowsHead(request[q])'
    BY <1>1, <2>1 DEF KnowsHead
  <2> QED
    BY <1>0, <1>1, <2>2, HeadsWhenMoving DEF RowsKept, WorldKept
<1>2. ASSUME NEW a, NEW o, SignOff(q, a, o) PROVE Heads'
  <2>1. PICK s : s = [Idle EXCEPT !.pc = "signoff", !.approved = a, !.gates = gates]
    OBVIOUS
  <2>2. s.pc = "signoff"
    BY <2>1 DEF Idle
  <2> QED
    BY <1>1, <1>2, <2>1, <2>2 DEF SignOff
<1>3. ASSUME NEW c \in Candidates, NEW o, Prepare(q, c, o) PROVE Heads'
  <2>1. PICK s : s = [Idle EXCEPT !.pc = "prepare", !.candidate = c, !.signoff = signoff.id,
                           !.gates = signoff.gates, !.override = o]
    OBVIOUS
  <2>2. s.pc = "prepare"
    BY <2>1 DEF Idle
  <2> QED
    BY <1>1, <1>3, <2>1, <2>2 DEF Prepare
<1>4. ASSUME NEW c \in Candidates, NEW pc, NEW d, Begin(q, c, pc, d),
             pc \in {"commit_tree", "push_head", "pr_list", "ready_view", "merge_view"}
      PROVE  Heads'
  <2>1. PICK s : s = [Idle EXCEPT !.pc = pc, !.candidate = c, !.decision = d,
                                !.commit = candidate[c].hash]
    OBVIOUS
  <2>2. s.pc = pc /\ s.candidate = c /\ s.commit = candidate[c].hash
    BY <2>1 DEF Idle
  <2>3. request'[q] = s /\ RowsKept /\ WorldKept
    BY <1>0, <1>4, <2>1 DEF Begin, Wait, TypeOK
  <2>4. KnowsHead(request[q])'
    BY <1>4, <2>2, <2>3 DEF KnowsHead, RowsKept
  <2> QED
    BY <1>0, <2>3, <2>4, HeadsWhenMoving DEF RowsKept, WorldKept
<1>5. ASSUME NEW c \in Candidates,
             \/ RequestCommit(q, c) \/ RequestPush(q, c) \/ RequestPr(q, c)
             \/ RequestMerge(q, c) \/ \E d \in {"ready", "not_ready"} : RequestAssessment(q, c, d)
      PROVE  Heads'
  BY <1>4, <1>5 DEF RequestCommit, RequestPush, RequestPr, RequestMerge, RequestAssessment
<1>6. ASSUME NEW c \in Candidates, NEW row, NEW evidence, Save(q, c, row, evidence),
             row.hash = candidate[c].hash, row.merged = candidate[c].merged
      PROVE  Heads'
  <2>1. candidate[c].merged => remote.head = candidate[c].hash
    BY DEF Heads
  <2> QED
    BY <1>0, <1>6, <2>1, HeadsWhenSaved
<1>7. ASSUME NEW c \in Candidates, PreparePacket(q, c) PROVE Heads'
  <2>1. PICK row : row = RowWithPr(c, "packet")
    OBVIOUS
  <2>2. row.hash = candidate[c].hash /\ row.merged = candidate[c].merged
    BY <1>0, <2>1 DEF TypeOK, Rows, RowWithPr
  <2> QED
    BY <1>6, <1>7, <2>1, <2>2 DEF PreparePacket
<1>8. ASSUME NEW c \in Candidates, NEW d, AssessFromEvidence(q, c, d) PROVE Heads'
  <2>1. PICK row : row = Assessed(c, d)
    OBVIOUS
  <2>2. row.hash = candidate[c].hash /\ row.merged = candidate[c].merged
    BY <1>0, <2>1 DEF TypeOK, Rows, Assessed
  <2> QED
    BY <1>6, <1>8, <2>1, <2>2 DEF AssessFromEvidence
<1> QED
  BY <1>2, <1>3, <1>5, <1>7, <1>8 DEF Ask

LEMMA HeadsOnTheWay ==
  ASSUME OneRequest, IInv, Heads, NEW q \in Requests,
         GitSteps(q) \/ GithubSteps(q) \/ Refuse(q)
  PROVE  Heads'
<1>0. /\ TypeOK /\ request[q] \in RequestStates /\ KnowsHead(request[q])
      /\ Sound(request[q]) /\ HeadCommit \in Nat
      /\ \A d \in Candidates : candidate[d].hash \in Nat /\ candidate[d].hash <= HeadCommit
  BY HeadType, BoundsAssumption
    DEF IInv, TypeOK, Heads, RecordsAreBacked, Backed, Rows, Commits
<1>1. UNCHANGED candidate
  BY DEF GitSteps, GithubSteps, Refuse, CheckTree, Add, Commit, RevParse, PushHead,
     PushStatus, PushBranch, ReusePr, NoPrYet, CreatePr, ReadyView, ReadySkipped,
     MergeView, MergePr, MergedView, Checked, RowsKept
<1>2. ASSUME NEW pc, Goto(q, pc)
      PROVE  /\ request'[q].pc = pc /\ request'[q].candidate = request[q].candidate
             /\ request'[q].commit = request[q].commit
  BY <1>0, <1>2 DEF Goto, TypeOK, RequestStates
<1>3. ASSUME KnowsHead(request[q])', remote'.head = remote.head PROVE Heads'
  BY <1>0, <1>1, <1>3, HeadsWhenMoving
<1>4. ASSUME NEW pc, Goto(q, pc), pc \notin HeadPcs, remote'.head = remote.head PROVE Heads'
  <2>1. KnowsHead(request[q])'
    BY <1>2, <1>4 DEF KnowsHead, HeadPcs
  <2> QED
    BY <1>3, <1>4, <2>1
<1>5. CASE \/ CheckTree(q) \/ Add(q) \/ PushHead(q) \/ PushStatus(q) \/ PushBranch(q)
           \/ ReusePr(q) \/ NoPrYet(q) \/ CreatePr(q) \/ ReadyView(q) \/ ReadySkipped(q)
  BY <1>0, <1>4, <1>5
    DEF CheckTree, Add, PushHead, PushStatus, PushBranch, ReusePr, NoPrYet, CreatePr,
        ReadyView, ReadySkipped, Checked, WorldKept, HeadPcs, TypeOK, Remotes
<1>6. CASE Refuse(q)
  <2>1. request'[q].pc = "idle"
    BY <1>0, <1>6 DEF Refuse, Wait, TypeOK, Idle
  <2>2. KnowsHead(request[q])'
    BY <2>1 DEF KnowsHead
  <2> QED
    BY <1>3, <1>6, <2>2 DEF Refuse, WorldKept
<1>7. CASE Commit(q)
  <2>1. request'[q].pc = "rev_parse" /\ UNCHANGED remote
    BY <1>2, <1>7 DEF Commit
  <2>2. repo' = [repo EXCEPT !.log = Append(repo.log, repo.index)]
    BY <1>7 DEF Commit
  <2>3. repo'.log = Append(repo.log, repo.index)
    BY <1>0, <2>2 DEF TypeOK, Repos
  <2>4. HeadCommit' = HeadCommit + 1
    BY <1>0, <2>3 DEF HeadCommit, TypeOK, Repos
  <2>5. KnowsHead(request[q])'
    BY <1>0, <1>1, <2>1, <2>4 DEF KnowsHead
  <2> QED
    BY <1>3, <2>1, <2>5
<1>8. CASE RevParse(q)
  <2>1. PICK s : s = [request[q] EXCEPT !.pc = "record_commit", !.commit = HeadCommit]
    OBVIOUS
  <2>2. s.pc = "record_commit" /\ s.commit = HeadCommit
    BY <1>0, <2>1 DEF RequestStates
  <2>3. request'[q] = s /\ UNCHANGED remote /\ request[q].pc = "rev_parse"
    BY <1>0, <1>8, <2>1 DEF RevParse, Wait, TypeOK, WorldKept, At
  <2>4. KnowsHead(request[q])'
    BY <1>0, <1>1, <2>2, <2>3 DEF KnowsHead
  <2> QED
    BY <1>3, <2>3, <2>4
<1>9. CASE MergeView(q)
  <2>1. /\ request'[q].pc = "merge" /\ request'[q].candidate = request[q].candidate
        /\ UNCHANGED remote /\ PrHead = request[q].commit /\ request[q].pc = "merge_view"
    BY <1>2, <1>9 DEF MergeView, Checked, Mergeable, WorldKept, At
  <2>2. PrHead' = PrHead
    BY <2>1 DEF PrHead
  <2>3. KnowsHead(request[q])'
    BY <1>0, <1>1, <2>1, <2>2 DEF KnowsHead
  <2> QED
    BY <1>3, <2>1, <2>3
<1>10. CASE MergePr(q)
  <2>1. /\ request'[q].pc = "merged_view" /\ request'[q].candidate = request[q].candidate
        /\ request[q].pc = "merge"
        /\ \/ remote.pr = "open" /\ remote' = Merged
           \/ remote.pr = "merged" /\ UNCHANGED remote
    BY <1>2, <1>10 DEF MergePr, At
  <2>2. remote'.head = PrHead
    BY <1>0, <2>1 DEF Merged, PrHead, TypeOK, Remotes
  <2>3. KnowsHead(request[q])'
    BY <1>0, <1>1, <2>1, <2>2 DEF KnowsHead
  <2>4. (\E c \in Candidates : candidate[c].merged) => remote'.head = remote.head
    BY <2>1 DEF IInv, RecordsAreBacked, Backed
  <2> QED
    BY <1>0, <1>1, <2>3, <2>4, HeadsWhenMoving
<1>11. CASE MergedView(q)
  <2>1. PICK sha \in {0, PrHead} :
          Wait(q, [request[q] EXCEPT !.pc = "record_merge", !.commit = sha])
    BY <1>11 DEF MergedView
  <2>2. request'[q].pc = "record_merge" /\ request'[q].candidate = request[q].candidate
    BY <1>0, <2>1 DEF Wait, TypeOK, RequestStates
  <2>3. UNCHANGED remote /\ request[q].pc = "merged_view"
    BY <1>11 DEF MergedView, WorldKept, At
  <2>4. KnowsHead(request[q])'
    BY <1>0, <1>1, <2>2, <2>3 DEF KnowsHead
  <2> QED
    BY <1>3, <2>3, <2>4
<1> QED
  BY <1>5, <1>6, <1>7, <1>8, <1>9, <1>10, <1>11 DEF GitSteps, GithubSteps

LEMMA HeadsKept ==
  ASSUME Undisturbed, IInv, Filed, Heads, [Next]_vars
  PROVE  Heads'
<1>0. TypeOK /\ RecordsAreBacked /\ OneRequest /\ \A q \in Requests : Sound(request[q])
  BY DEF IInv, Undisturbed
<1>1. CASE Crash
  <2>1. \A p \in Requests : request'[p].pc = "idle"
    BY <1>1 DEF Crash, Idle
  <2>2. \A p \in Requests : KnowsHead(request[p])'
    BY <2>1 DEF KnowsHead
  <2> QED
    BY <1>1, <2>2 DEF Crash, RowsKept, WorldKept, Heads
<1>2. ASSUME UNCHANGED <<candidate, request, remote>>, repo'.log = repo.log PROVE Heads'
  BY <1>0, <1>2, HeadsWhenOthersAct DEF HeadCommit, PrHead
<1>3. CASE GatesReport \/ RollbackPatch \/ UNCHANGED vars
  BY <1>0, <1>2, <1>3 DEF GatesReport, RollbackPatch, RowsKept, WorldKept, vars, TypeOK, Repos
<1>4. CASE OthersAct
  <2>1. UNCHANGED <<candidate, request>>
    BY <1>4 DEF OthersAct, RowsKept
  <2>2. ~CommitElse /\ ~PushElse
    BY DEF Undisturbed, CommitElse, PushElse
  <2>3. ASSUME NEW v, Edit(v) PROVE Heads'
    BY <1>0, <1>2, <2>1, <2>3 DEF Edit, TypeOK, Repos
  <2>4. CASE ClosePr \/ MergeElse
    <3>1. /\ remote.pr = "open" /\ remote'.pr # "open" /\ remote'.head = remote.branch
          /\ UNCHANGED repo
      BY <1>0, <2>4 DEF ClosePr, MergeElse, Merged, TypeOK, Remotes
    <3>2. PrHead' = PrHead /\ HeadCommit' = HeadCommit
      BY <3>1 DEF PrHead, HeadCommit
    <3> QED
      BY <1>0, <2>1, <3>1, <3>2, HeadsWhenOthersAct
  <2> QED
    BY <1>4, <2>2, <2>3, <2>4 DEF OthersAct
<1> QED
  BY <1>0, <1>1, <1>3, <1>4, HeadsAsked, HeadsOnTheWay, HeadsRecorded DEF Next

(* While the requests of the run come one at a time and nobody else        *)
(* commits or pushes, a merged candidate's own commit is the head that was *)
(* merged, and no other candidate is merged, whatever is edited, closed or *)
(* merged by others and whenever the server dies                           *)
(* (mergeGovernedPullRequestForRun).                                       *)
THEOREM MergedIsCandidates ==
  ASSUME Undisturbed PROVE Spec => []MergedCommitIsCandidates
<1>1. Init => Heads
  BY DEF Init, Heads, EmptyRow, KnowsHead, Idle
<1>2. IInv /\ Filed /\ Heads /\ [Next]_vars => IInv' /\ Filed' /\ Heads'
  BY Invariance, FiledKept, HeadsKept DEF Undisturbed
<1>3. IInv /\ Heads => MergedCommitIsCandidates
  <2> SUFFICES ASSUME IInv, Heads PROVE MergedCommitIsCandidates
    OBVIOUS
  <2>1. \A c \in Candidates : candidate[c].merged => candidate[c].hash # 0
    BY DEF IInv, Chain
  <2> QED
    BY <2>1 DEF Heads, MergedCommitIsCandidates
<1> QED
  BY <1>1, <1>2, <1>3, Start, FiledAtStart, PTL DEF Spec

-----------------------------------------------------------------------------
(* The panel of the candidates *)

PanelAnswers == [commit : Commits, push : BOOLEAN, pr : Modes, readiness : Decisions,
             merge : BOOLEAN]

(* Answers that a row bears out. *)
Matches(answers, row) ==
  /\ answers.commit \in {0, row.hash}
  /\ answers.push => row.pushed
  /\ answers.pr \in {"none", row.pr}
  /\ answers.readiness \in {"none", row.readiness}
  /\ answers.merge => row.merged

Only(c) == \A d \in Candidates \ {c} : candidate[d].status = "absent"

Shows ==
  /\ latest \in Candidates \cup {None}
  /\ own \in PanelAnswers
  /\ latest = None => own = Nothing /\ \A c \in Candidates : candidate[c].status = "absent"
  /\ latest # None => /\ candidate[latest].status # "absent"
                      /\ Only(latest) => Matches(own, candidate[latest])
  /\ own.commit # 0 => \E c \in Candidates : candidate[c].hash = own.commit

LEMMA NothingMatches ==
  /\ Nothing \in PanelAnswers /\ Nothing.commit = 0
  /\ \A row : Matches(Nothing, row)
  BY BoundsAssumption DEF Nothing, PanelAnswers, Commits, Modes, Decisions, Matches

LEMMA ShowsWhenSaved ==
  ASSUME TypeOK, Shows, NEW q \in Requests, NEW c \in Candidates, NEW row, NEW evidence,
         NEW answers \in PanelAnswers,
         Save(q, c, row, evidence), Keeps(c, answers),
         candidate[c].status # "absent", row.status # "absent",
         row.hash = candidate[c].hash \/ candidate[c].hash = 0,
         answers.commit \in {own.commit, row.hash},
         Matches(own, candidate[c]) => Matches(answers, row)
  PROVE  Shows'
<1>1. latest \in Candidates /\ latest' = latest /\ candidate[latest].status # "absent"
  BY NoneAssumption DEF Shows, Keeps
<1>2. \/ UNCHANGED candidate
      \/ /\ candidate'[c] = row
         /\ \A d \in Candidates \ {c} : candidate'[d] = candidate[d]
  BY DEF Save, TypeOK
<1>3. candidate'[latest].status # "absent"
  BY <1>1, <1>2
<1>4. CASE crashes' # crashes
  <2>1. own' = Nothing
    BY <1>4 DEF Keeps
  <2> QED
    BY <1>1, <1>3, <2>1, NothingMatches, NoneAssumption DEF Shows
<1>5. CASE crashes' = crashes
  <2>1. /\ candidate'[c] = row
        /\ \A d \in Candidates \ {c} : candidate'[d] = candidate[d]
    BY <1>5 DEF Save, TypeOK
  <2>2. CASE c = latest
    <3>1. own' = answers
      BY <1>5, <2>2 DEF Keeps
    <3>2. Only(latest)' => Only(latest)
      BY <2>1, <2>2 DEF Only, Keeps
    <3>3. Only(latest)' => Matches(own', candidate'[latest'])
      BY <1>1, <2>1, <2>2, <3>1, <3>2, NoneAssumption DEF Shows
    <3>4. own'.commit # 0 => \E d \in Candidates : candidate'[d].hash = own'.commit
      <4>1. CASE answers.commit = row.hash
        BY <2>1, <3>1, <4>1
      <4>2. CASE answers.commit = own.commit
        BY <2>1, <3>1, <4>2 DEF Shows
      <4> QED
        BY <4>1, <4>2
    <3> QED
      BY <1>1, <1>3, <3>1, <3>3, <3>4, NoneAssumption DEF Shows
  <2>3. CASE c # latest
    <3>1. own' = own
      BY <1>5, <2>3 DEF Keeps
    <3>2. ~Only(latest)'
      BY <1>1, <2>1, <2>3 DEF Only
    <3>3. own.commit # 0 => \E d \in Candidates : candidate'[d].hash = own.commit
      BY <2>1 DEF Shows
    <3> QED
      BY <1>1, <1>3, <3>1, <3>2, <3>3, NoneAssumption DEF Shows
  <2> QED
    BY <2>2, <2>3
<1> QED
  BY <1>4, <1>5

(* The columns a step records, in the answers it keeps. *)
LEMMA ShowsWhenPrepared ==
  ASSUME IInv, Shows, NEW q \in Requests, HandlePrepare(q)
  PROVE  Shows'
<1>0. /\ TypeOK /\ request[q] \in RequestStates /\ Sound(request[q])
      /\ request[q].pc = "prepare"
  BY DEF IInv, TypeOK, HandlePrepare, RecordCandidate, At
<1>1. PICK c : c = request[q].candidate
  OBVIOUS
<1>2. c \in Candidates /\ candidate[c].status = "absent" /\ candidate[c].hash = 0
  BY <1>0, <1>1 DEF Sound, RequestStates, IInv, Chain
<1>3. PICK row : row = [EmptyRow EXCEPT !.status = "commit_candidate_prepared",
                                 !.signoff = request[q].signoff,
                                 !.gates = request[q].gates,
                                 !.override = request[q].override]
  OBVIOUS
<1>4. row.status # "absent"
  BY <1>3 DEF EmptyRow
<1>5. /\ candidate'[c] = row
      /\ \A d \in Candidates \ {c} : candidate'[d] = candidate[d]
      /\ latest' = c /\ own' = own
  BY <1>0, <1>1, <1>2, <1>3 DEF HandlePrepare, RecordCandidate, TypeOK
<1>6. CASE latest = None
  BY <1>2, <1>4, <1>5, <1>6, NothingMatches, NoneAssumption DEF Shows
<1>7. CASE latest # None
  <2>1. latest \in Candidates \ {c} /\ candidate'[latest].status # "absent"
    BY <1>2, <1>5, <1>7 DEF Shows
  <2>2. ~Only(c)'
    BY <2>1 DEF Only
  <2>3. own.commit # 0 => \E d \in Candidates : candidate'[d].hash = own.commit
    BY <1>2, <1>5 DEF Shows
  <2> QED
    BY <1>2, <1>4, <1>5, <2>2, <2>3, NoneAssumption DEF Shows
<1> QED
  BY <1>6, <1>7

LEMMA ShowsWhenHandled ==
  ASSUME IInv, Filed, Shows, NEW q \in Requests, Handles(q)
  PROVE  Shows'
<1>0. /\ TypeOK /\ request[q] \in RequestStates /\ Sound(request[q]) /\ InPlace(request[q])
      /\ own \in PanelAnswers
  BY DEF IInv, TypeOK, Filed, Shows
<1>1. PICK c : c = request[q].candidate
  OBVIOUS
<1>2. request[q].pc \notin {"idle", "signoff", "prepare"} =>
        c \in Candidates /\ candidate[c].status # "absent"
  BY <1>0, <1>1 DEF Sound, RequestStates
<1>3. CASE HandleLocalCommit(q)
  <2>0. c \in Candidates /\ candidate[c] \in Rows /\ candidate[c].status # "absent"
    BY <1>0, <1>2, <1>3 DEF HandleLocalCommit, RecordCommit, At, TypeOK
  <2>1. PICK row : row = [candidate[c] EXCEPT !.status = "local_commit_created",
                                     !.hash = request[q].commit]
    OBVIOUS
  <2>2. PICK answers : answers = [own EXCEPT !.commit = request[q].commit]
    OBVIOUS
  <2>3. candidate[c].status = "commit_candidate_prepared" /\ candidate[c].hash = 0
    BY <1>0, <1>1, <1>3, <2>0 DEF HandleLocalCommit, RecordCommit, At, InPlace, CommitPcs, Filed, Form
  <2>4. /\ answers \in PanelAnswers /\ answers.commit = request[q].commit
        /\ answers.push = own.push /\ answers.pr = own.pr
        /\ answers.readiness = own.readiness /\ answers.merge = own.merge
    BY <1>0, <2>2 DEF PanelAnswers, RequestStates
  <2>5. /\ row.hash = request[q].commit /\ row.pushed = candidate[c].pushed
        /\ row.pr = candidate[c].pr /\ row.readiness = candidate[c].readiness
        /\ row.merged = candidate[c].merged /\ row.status = "local_commit_created"
    BY <2>0, <2>1 DEF Rows
  <2>6. Matches(own, candidate[c]) => Matches(answers, row)
    BY <2>4, <2>5 DEF Matches
  <2> QED
    BY <1>0, <1>1, <1>3, <2>0, <2>1, <2>2, <2>3, <2>4, <2>5, <2>6, ShowsWhenSaved
      DEF HandleLocalCommit, RecordCommit
<1>4. CASE HandlePushRemote(q)
  <2>0. c \in Candidates /\ candidate[c] \in Rows /\ candidate[c].status # "absent"
    BY <1>0, <1>2, <1>4 DEF HandlePushRemote, RecordPush, At, TypeOK
  <2>1. PICK row : row = [candidate[c] EXCEPT !.status = "remote_branch_pushed", !.pushed = TRUE]
    OBVIOUS
  <2>2. PICK answers : answers = [own EXCEPT !.push = TRUE]
    OBVIOUS
  <2>4. /\ answers \in PanelAnswers /\ answers.commit = own.commit
        /\ answers.push = TRUE /\ answers.pr = own.pr
        /\ answers.readiness = own.readiness /\ answers.merge = own.merge
    BY <1>0, <2>2 DEF PanelAnswers
  <2>5. /\ row.hash = candidate[c].hash /\ row.pushed = TRUE
        /\ row.pr = candidate[c].pr /\ row.readiness = candidate[c].readiness
        /\ row.merged = candidate[c].merged /\ row.status = "remote_branch_pushed"
    BY <2>0, <2>1 DEF Rows
  <2>6. Matches(own, candidate[c]) => Matches(answers, row)
    BY <2>4, <2>5 DEF Matches
  <2> QED
    BY <1>0, <1>1, <1>4, <2>0, <2>1, <2>2, <2>4, <2>5, <2>6, ShowsWhenSaved
      DEF HandlePushRemote, RecordPush
<1>5. ASSUME NEW d \in Candidates, candidate[d].status # "absent", NEW mode \in {"live", "packet"},
             NEW evidence, Save(q, d, RowWithPr(d, mode), evidence),
             Keeps(d, [own EXCEPT !.pr = mode])
      PROVE  Shows'
  <2>0. candidate[d] \in Rows
    BY <1>0 DEF TypeOK
  <2>1. PICK row : row = RowWithPr(d, mode)
    OBVIOUS
  <2>2. PICK answers : answers = [own EXCEPT !.pr = mode]
    OBVIOUS
  <2>4. /\ answers \in PanelAnswers /\ answers.commit = own.commit
        /\ answers.push = own.push /\ answers.pr = mode
        /\ answers.readiness = own.readiness /\ answers.merge = own.merge
    BY <1>0, <2>2 DEF PanelAnswers, Modes
  <2>5. /\ row.hash = candidate[d].hash /\ row.pushed = candidate[d].pushed
        /\ row.pr = mode /\ row.readiness = candidate[d].readiness
        /\ row.merged = candidate[d].merged /\ row.status # "absent"
    BY <2>0, <2>1 DEF Rows, RowWithPr
  <2>6. Matches(own, candidate[d]) => Matches(answers, row)
    BY <2>4, <2>5 DEF Matches
  <2> QED
    BY <1>0, <1>5, <2>1, <2>2, <2>4, <2>5, <2>6, ShowsWhenSaved
<1>6. CASE HandleCreatePr(q)
  <2>1. ASSUME NEW d \in Candidates, PreparePacket(q, d) PROVE candidate[d].status # "absent"
    BY <2>1 DEF PreparePacket, MayOpenPr
  <2> QED
    BY <1>1, <1>2, <1>5, <1>6, <2>1 DEF HandleCreatePr, RecordPr, PreparePacket, At
<1>7. ASSUME NEW d \in Candidates, candidate[d].status # "absent", NEW decision \in Decisions,
             NEW evidence, Save(q, d, Assessed(d, decision), evidence),
             Keeps(d, [own EXCEPT !.readiness = decision])
      PROVE  Shows'
  <2>0. candidate[d] \in Rows
    BY <1>0 DEF TypeOK
  <2>1. PICK row : row = Assessed(d, decision)
    OBVIOUS
  <2>2. PICK answers : answers = [own EXCEPT !.readiness = decision]
    OBVIOUS
  <2>4. /\ answers \in PanelAnswers /\ answers.commit = own.commit
        /\ answers.push = own.push /\ answers.pr = own.pr
        /\ answers.readiness = decision /\ answers.merge = own.merge
    BY <1>0, <2>2 DEF PanelAnswers
  <2>5. /\ row.hash = candidate[d].hash /\ row.pushed = candidate[d].pushed
        /\ row.pr = candidate[d].pr /\ row.readiness = decision
        /\ row.merged = candidate[d].merged /\ row.status # "absent"
    BY <2>0, <2>1 DEF Rows, Assessed
  <2>6. Matches(own, candidate[d]) => Matches(answers, row)
    BY <2>4, <2>5 DEF Matches
  <2> QED
    BY <1>0, <1>7, <2>1, <2>2, <2>4, <2>5, <2>6, ShowsWhenSaved
<1>8. CASE HandleMergeReadiness(q)
  <2>1. ASSUME NEW d \in Candidates, NEW decision \in {"ready", "not_ready"},
               AssessFromEvidence(q, d, decision)
        PROVE  candidate[d].status # "absent" /\ decision \in Decisions
    BY <2>1 DEF AssessFromEvidence, MayAssess, PrStatuses, Decisions
  <2>2. request[q].decision \in Decisions
    BY <1>0 DEF RequestStates
  <2> QED
    BY <1>1, <1>2, <1>7, <1>8, <2>1, <2>2
      DEF HandleMergeReadiness, RecordReadiness, AssessFromEvidence, At
<1>9. CASE HandleMergePr(q)
  <2>0. c \in Candidates /\ candidate[c] \in Rows /\ candidate[c].status # "absent"
    BY <1>0, <1>2, <1>9 DEF HandleMergePr, RecordMerge, At, TypeOK
  <2>1. PICK row : row = [candidate[c] EXCEPT !.status = "pull_request_merged",
                                     !.merged = TRUE, !.sha = request[q].commit]
    OBVIOUS
  <2>2. PICK answers : answers = [own EXCEPT !.merge = TRUE]
    OBVIOUS
  <2>4. /\ answers \in PanelAnswers /\ answers.commit = own.commit
        /\ answers.push = own.push /\ answers.pr = own.pr
        /\ answers.readiness = own.readiness /\ answers.merge = TRUE
    BY <1>0, <2>2 DEF PanelAnswers
  <2>5. /\ row.hash = candidate[c].hash /\ row.pushed = candidate[c].pushed
        /\ row.pr = candidate[c].pr /\ row.readiness = candidate[c].readiness
        /\ row.merged = TRUE /\ row.status = "pull_request_merged"
    BY <2>0, <2>1 DEF Rows
  <2>6. Matches(own, candidate[c]) => Matches(answers, row)
    BY <2>4, <2>5 DEF Matches
  <2> QED
    BY <1>0, <1>1, <1>9, <2>0, <2>1, <2>2, <2>4, <2>5, <2>6, ShowsWhenSaved
      DEF HandleMergePr, RecordMerge
<1> QED
  BY <1>3, <1>4, <1>6, <1>8, <1>9, ShowsWhenPrepared DEF Handles

LEMMA ShowsWhenUnrecorded ==
  ASSUME TypeOK, Shows, UNCHANGED <<candidate, latest>>, own' \in {own, Nothing}
  PROVE  Shows'
  BY NothingMatches DEF Shows, Only

(* A step of the panel is a step of the candidates. *)
LEMMA PanelStep ==
  ASSUME [PanelNext]_<<vars, shown>>
  PROVE  [Next]_vars
<1>1. ASSUME NEW q \in Requests, Handles(q) PROVE Next
  BY <1>1 DEF Handles, HandlePrepare, HandleLocalCommit, HandlePushRemote, HandleCreatePr,
     HandleMergeReadiness, HandleMergePr, Next, Ask, Records
<1>2. CASE Elsewhere
  BY <1>2 DEF Elsewhere, Next, Ask, Records
<1>3. CASE VisitEnds
  BY <1>3 DEF VisitEnds, Next
<1> QED
  BY <1>1, <1>2, <1>3 DEF PanelNext

LEMMA ShowsKept ==
  ASSUME IInv, Filed, Shows, [PanelNext]_<<vars, shown>>
  PROVE  Shows'
<1>0. TypeOK
  BY DEF IInv
<1>1. CASE Elsewhere
  <2>1. UNCHANGED candidate
    BY <1>1 DEF Elsewhere, SignOff, Prepare, RequestCommit, RequestPush, RequestPr,
       RequestAssessment, RequestMerge, Begin, GitSteps, GithubSteps, CheckTree, Add, Commit,
       RevParse, PushHead, PushStatus, PushBranch, ReusePr, NoPrYet, CreatePr, ReadyView,
       ReadySkipped, MergeView, MergePr, MergedView, Checked, RecordSignoff, Refuse,
       GatesReport, RollbackPatch, OthersAct, RowsKept
  <2> QED
    BY <1>0, <1>1, <2>1, ShowsWhenUnrecorded DEF Elsewhere, shown
<1>2. CASE VisitEnds
  BY <1>0, <1>2, ShowsWhenUnrecorded DEF VisitEnds, Crash, RowsKept
<1>3. CASE UNCHANGED <<vars, shown>>
  BY <1>0, <1>3, ShowsWhenUnrecorded DEF vars, shown
<1> QED
  BY <1>1, <1>2, <1>3, ShowsWhenHandled DEF PanelNext

LEMMA PanelAlways ==
  ASSUME OneRequest PROVE PanelSpec => [](IInv /\ Filed /\ Shows)
<1>1. PanelInit => IInv /\ Filed /\ Shows
  <2> SUFFICES ASSUME PanelInit PROVE Shows
    BY Start, FiledAtStart DEF PanelInit
  <2>1. \A c \in Candidates : candidate[c].status = "absent"
    BY DEF PanelInit, Init, EmptyRow
  <2> QED
    BY <2>1, NothingMatches DEF PanelInit, Shows
<1>2. IInv /\ Filed /\ Shows /\ [PanelNext]_<<vars, shown>> => IInv' /\ Filed' /\ Shows'
  BY PanelStep, Invariance, FiledKept, ShowsKept
<1> QED
  BY <1>1, <1>2, PTL DEF PanelSpec

(* While requests come one at a time, the forms of the panel are what the  *)
(* handlers accept, but for the reasons PanelOffersWhatIsAccepted names    *)
(* (CommitCandidatePanel).                                                 *)
THEOREM PanelOffersTheAccepted ==
  ASSUME OneRequest PROVE PanelSpec => []PanelOffersWhatIsAccepted
<1>1. IInv /\ Filed => PanelOffersWhatIsAccepted
  <2> SUFFICES ASSUME IInv, Filed, NEW c \in Candidates
               PROVE  LET Fits == SignoffStands(c) /\ DocumentedGates(c) /\ crashes = 0 IN
    /\ MayCommit(c) => LocalCommitSection(c).form
    /\ MayPush(c) => PushSection(c).form
    /\ MayOpenPr(c) => PrSection(c).form
    /\ MayAssess(c) => MergeReadinessSection(c).form
    /\ MayMerge(c) => MergeSection(c).form
    /\ Fits /\ LocalCommitSection(c).form => MayCommit(c)
    /\ Fits /\ PushSection(c).form => MayPush(c)
    /\ Fits /\ PrSection(c).form => MayOpenPr(c)
    /\ Fits /\ GatesOk(candidate[c].gates) =>
         /\ MergeReadinessSection(c).form => MayAssess(c)
         /\ MergeSection(c).form => MayMerge(c)
    BY DEF PanelOffersWhatIsAccepted
  <2>1. /\ Form(candidate[c]) /\ Chain(candidate[c]) /\ candidate[c] \in Rows
        /\ crashes = 0 => Evidenced(file[c], candidate[c])
    BY DEF IInv, TypeOK, Filed
  <2> QED
    BY <2>1
      DEF Form, Chain, Evidenced, LocalCommitSection, PushSection, PrSection,
          MergeReadinessSection, MergeSection, CanPrepare, CanLocalCommit, CanPushRemote,
          CanCreatePr, CanRecordMergeReadiness, CanMergePr, MayCommit, MayPush, MayOpenPr,
          MayAssess, MayMerge, Vetted, SignoffStands, PushEvidenceAgrees, PrStatuses
<1> QED
  BY <1>1, PanelAlways, PTL

(* Under the same condition, what the panel says of its steps is on the    *)
(* row of the run's only candidate, or on that of one of them (the results *)
(* CommitCandidatePanel keeps).                                            *)
THEOREM PanelSaysTheRecorded ==
  ASSUME OneRequest PROVE PanelSpec => []PanelSaysWhatIsRecorded
<1>1. IInv /\ Shows => PanelSaysWhatIsRecorded
  <2> SUFFICES ASSUME IInv, Shows PROVE PanelSaysWhatIsRecorded
    OBVIOUS
  <2>1. PrepareSection.says <=> \E c \in Candidates : candidate[c].status # "absent"
    BY DEF PrepareSection, Shows
  <2>2. ASSUME latest # None, Only(latest)
        PROVE  /\ LocalCommitSection(latest).says = candidate[latest].hash
               /\ PushSection(latest).says = candidate[latest].pushed
               /\ PrSection(latest).says = candidate[latest].pr
               /\ MergeReadinessSection(latest).says = candidate[latest].readiness
               /\ MergeSection(latest).says = candidate[latest].merged
    <3>1. Matches(own, candidate[latest]) /\ own \in PanelAnswers /\ candidate[latest] \in Rows
      BY <2>2 DEF Shows, IInv, TypeOK
    <3> QED
      BY <3>1 DEF Matches, PanelAnswers, Rows, Said, LocalCommitSection, PushSection, PrSection,
         MergeReadinessSection, MergeSection
  <2> QED
    BY <2>1, <2>2 DEF PanelSaysWhatIsRecorded, Only, Shows
<1> QED
  BY <1>1, PanelAlways, PTL

-----------------------------------------------------------------------------
(* The trail of the candidates *)

(* What the ledger says of the steps of a candidate. *)
Tolds == [commit : Commits, push : BOOLEAN, pr : Modes, readiness : Decisions, merge : BOOLEAN]

Agrees(c, step) ==
  /\ told[c][step] = Recorded(c)[step]
  /\ step = "push" => ((file[c].push # 0) = candidate[c].pushed)
  /\ step = "pr" => file[c].pr = candidate[c].pr
  /\ step = "readiness" => file[c].readiness = candidate[c].readiness

Shown ==
  /\ told \in [Candidates -> Tolds]
  /\ \A c \in Candidates, step \in StepNames : <<c, step>> \notin unanswered => Agrees(c, step)

LEMMA NamesOfSteps == StepNames = {"commit", "push", "pr", "readiness", "merge"}
  BY DEF StepNames, NothingTold

(* Each handler tells that it begins before it waits for anything. *)
LEMMA BegunIsOpen ==
  ASSUME NEW step \in StepNames
  PROVE  Open(Events[step].begun \o <<>>)
<1>1. Events[step].begun = Asked
  <2>1. /\ Events["commit"] = LocalCommitEvents /\ Events["push"] = RemoteBranchPushEvents
        /\ Events["pr"] = PullRequestEvents /\ Events["readiness"] = MergeReadinessEvents
        /\ Events["merge"] = GovernedPrMergeEvents
    BY DEF Events
  <2>2. /\ LocalCommitEvents.begun = Asked /\ RemoteBranchPushEvents.begun = Asked
        /\ PullRequestEvents.begun = Asked /\ MergeReadinessEvents.begun = Asked
        /\ GovernedPrMergeEvents.begun = Asked
    BY DEF LocalCommitEvents, RemoteBranchPushEvents, PullRequestEvents, MergeReadinessEvents,
       GovernedPrMergeEvents
  <2> QED
    BY <2>1, <2>2, NamesOfSteps
<1> DEFINE Words == {"requested", "validated"}
<1>2. Asked \in Seq(Words) /\ Len(Asked) = 2 /\ Asked[2] = "validated"
  BY DEF Asked
<1> HIDE DEF Words
<1>3. Asked \o <<>> = Asked /\ Asked # <<>>
  BY <1>2, ConcatEmptySeq, EmptySeq
<1> QED
  BY <1>1, <1>2, <1>3 DEF Open

(* Rows and files stay, and no step is told of. *)
LEMMA ShownWhenUntold ==
  ASSUME Shown, UNCHANGED told, unanswered \subseteq unanswered',
         \A c \in Candidates :
           /\ Recorded(c)' = Recorded(c) /\ file'[c] = file[c]
           /\ candidate'[c].pushed = candidate[c].pushed
           /\ candidate'[c].pr = candidate[c].pr
           /\ candidate'[c].readiness = candidate[c].readiness
  PROVE  Shown'
  BY DEF Shown, Agrees

(* A step is recorded, and the ledger told. *)
LEMMA ShownWhenReached ==
  ASSUME TypeOK, Shown, NEW q \in Requests, NEW c \in Candidates, NEW step \in StepNames, NEW answer,
         NEW row \in Rows, NEW evidence \in Files,
         Save(q, c, row, evidence), Reaches(c, step, answer),
         IF step = "commit" THEN row.hash = answer ELSE row.hash = candidate[c].hash,
         IF step = "push" THEN row.pushed = answer ELSE row.pushed = candidate[c].pushed,
         IF step = "pr" THEN row.pr = answer ELSE row.pr = candidate[c].pr,
         IF step = "readiness" THEN row.readiness = answer
                               ELSE row.readiness = candidate[c].readiness,
         IF step = "merge" THEN row.merged = answer ELSE row.merged = candidate[c].merged,
         IF step = "push" THEN (evidence.push # 0) = answer ELSE evidence.push = file[c].push,
         IF step = "pr" THEN evidence.pr = answer ELSE evidence.pr = file[c].pr,
         IF step = "readiness" THEN evidence.readiness = answer
                               ELSE evidence.readiness = file[c].readiness
  PROVE  Shown'
<1>0. /\ file'[c] = evidence
      /\ \A d \in Candidates \ {c} : file'[d] = file[d]
      /\ unanswered \subseteq unanswered'
  BY DEF Save, TypeOK, Reaches
<1>1. \/ UNCHANGED candidate
      \/ /\ candidate'[c] = row
         /\ \A d \in Candidates \ {c} : candidate'[d] = candidate[d]
  BY DEF Save, TypeOK
<1>2. \A d \in Candidates \ {c} : candidate'[d] = candidate[d]
  BY <1>1
<1>3. /\ candidate'[c] \in {candidate[c], row}
  BY <1>1
<1>4. \A s \in StepNames \ {step} : Recorded(c)'[s] = Recorded(c)[s]
  BY <1>3, NamesOfSteps DEF Recorded
<1>5. CASE Dead
  <2>1. told' = told /\ <<c, step>> \in unanswered'
    BY <1>5, BegunIsOpen DEF Reaches, LeftBy
  <2>2. ASSUME NEW s \in StepNames \ {step}, Agrees(c, s) PROVE Agrees(c, s)'
    BY <1>0, <1>3, <1>4, <2>1, <2>2 DEF Agrees
  <2>3. \A d \in Candidates \ {c}, s \in StepNames : Agrees(d, s) => Agrees(d, s)'
    BY <1>0, <1>2, <2>1 DEF Agrees, Recorded
  <2> QED
    BY <1>0, <2>1, <2>2, <2>3 DEF Shown
<1>6. CASE ~Dead
  <2>1. told' = [told EXCEPT ![c][step] = answer]
    BY <1>6 DEF Reaches
  <2>2. candidate'[c] = row
    BY <1>6 DEF Dead, Save, TypeOK, BoundsAssumption
  <2>3. /\ \A d \in Candidates \ {c} : told'[d] = told[d]
        /\ told'[c] = [told[c] EXCEPT ![step] = answer]
    BY <2>1 DEF Shown
  <2>4. /\ told'[c][step] = answer
        /\ \A s \in StepNames \ {step} : told'[c][s] = told[c][s]
        /\ told'[c] \in Tolds
    <3>1. told[c] \in Tolds
      BY DEF Shown
    <3>2. CASE step = "commit"
      <4>1. answer \in Commits
        BY <3>2 DEF Rows
      <4> QED
        BY <2>3, <3>1, <3>2, <4>1, NamesOfSteps DEF Tolds
    <3>3. CASE step = "push"
      <4>1. answer \in BOOLEAN
        BY <3>3 DEF Rows
      <4> QED
        BY <2>3, <3>1, <3>3, <4>1, NamesOfSteps DEF Tolds
    <3>4. CASE step = "pr"
      <4>1. answer \in Modes
        BY <3>4 DEF Rows
      <4> QED
        BY <2>3, <3>1, <3>4, <4>1, NamesOfSteps DEF Tolds
    <3>5. CASE step = "readiness"
      <4>1. answer \in Decisions
        BY <3>5 DEF Rows
      <4> QED
        BY <2>3, <3>1, <3>5, <4>1, NamesOfSteps DEF Tolds
    <3>6. CASE step = "merge"
      <4>1. answer \in BOOLEAN
        BY <3>6 DEF Rows
      <4> QED
        BY <2>3, <3>1, <3>6, <4>1, NamesOfSteps DEF Tolds
    <3> QED
      BY <3>2, <3>3, <3>4, <3>5, <3>6, NamesOfSteps
  <2>5. Recorded(c)'[step] = answer
    BY <2>2, NamesOfSteps DEF Recorded
  <2>6. Agrees(c, step)'
    BY <1>0, <2>2, <2>4, <2>5 DEF Agrees
  <2>7. ASSUME NEW s \in StepNames \ {step}, Agrees(c, s) PROVE Agrees(c, s)'
    BY <1>0, <1>4, <2>2, <2>4, <2>7 DEF Agrees
  <2>8. \A d \in Candidates \ {c}, s \in StepNames : Agrees(d, s) => Agrees(d, s)'
    BY <1>0, <1>2, <2>3 DEF Agrees, Recorded
  <2>9. told' \in [Candidates -> Tolds]
    BY <2>1, <2>3, <2>4 DEF Shown
  <2> QED
    BY <1>0, <2>6, <2>7, <2>8, <2>9 DEF Shown
<1> QED
  BY <1>5, <1>6

LEMMA ShownWhenAnswered ==
  ASSUME IInv, Shown, NEW q \in Requests, Answers(q)
  PROVE  Shown'
<1>0. /\ TypeOK /\ request[q] \in RequestStates /\ Sound(request[q])
  BY DEF IInv, TypeOK
<1>1. PICK c : c = request[q].candidate
  OBVIOUS
<1>2. request[q].pc \notin {"idle", "signoff", "prepare"} => c \in Candidates
  BY <1>0, <1>1 DEF Sound, RequestStates
<1>3. \A d \in Candidates : candidate[d] \in Rows /\ file[d] \in Files
  BY <1>0 DEF TypeOK
<1>4. CASE RecordCommit(q) /\ Reaches(c, "commit", request[q].commit)
  <2>0. c \in Candidates
    BY <1>2, <1>4 DEF RecordCommit, At
  <2>1. PICK row : row = [candidate[c] EXCEPT !.status = "local_commit_created",
                                     !.hash = request[q].commit]
    OBVIOUS
  <2>2. /\ row.hash = request[q].commit /\ row.pushed = candidate[c].pushed
        /\ row.pr = candidate[c].pr /\ row.readiness = candidate[c].readiness
        /\ row.merged = candidate[c].merged /\ row \in Rows
    BY <1>0, <1>3, <2>0, <2>1 DEF Rows, Status, RequestStates
  <2> QED
    BY <1>0, <1>1, <1>3, <1>4, <2>0, <2>1, <2>2, ShownWhenReached, NamesOfSteps DEF RecordCommit
<1>5. CASE RecordPush(q) /\ Reaches(c, "push", TRUE)
  <2>0. c \in Candidates /\ request[q].commit # 0
    BY <1>0, <1>2, <1>5 DEF RecordPush, At, Sound, PushPcs
  <2>1. PICK row : row = [candidate[c] EXCEPT !.status = "remote_branch_pushed", !.pushed = TRUE]
    OBVIOUS
  <2>2. /\ row.hash = candidate[c].hash /\ row.pushed = TRUE
        /\ row.pr = candidate[c].pr /\ row.readiness = candidate[c].readiness
        /\ row.merged = candidate[c].merged /\ row \in Rows
    BY <1>0, <1>3, <2>0, <2>1 DEF Rows, Status
  <2>3. PICK evidence : evidence = [file[c] EXCEPT !.push = request[q].commit]
    OBVIOUS
  <2>4. /\ (evidence.push # 0) = TRUE /\ evidence.pr = file[c].pr
        /\ evidence.readiness = file[c].readiness /\ evidence \in Files
    BY <1>0, <1>3, <2>0, <2>3 DEF Files, RequestStates
  <2> QED
    BY <1>0, <1>1, <1>5, <2>0, <2>1, <2>2, <2>3, <2>4, ShownWhenReached, NamesOfSteps DEF RecordPush
<1>6. ASSUME NEW d \in Candidates, NEW mode \in {"live", "packet"},
             Save(q, d, RowWithPr(d, mode), [file[d] EXCEPT !.pr = mode]), Reaches(d, "pr", mode)
      PROVE  Shown'
  <2>1. PICK row : row = RowWithPr(d, mode)
    OBVIOUS
  <2>2. /\ row.hash = candidate[d].hash /\ row.pushed = candidate[d].pushed
        /\ row.pr = mode /\ row.readiness = candidate[d].readiness
        /\ row.merged = candidate[d].merged /\ row \in Rows
    BY <1>3, <2>1 DEF Rows, Status, RowWithPr, Modes
  <2>3. PICK evidence : evidence = [file[d] EXCEPT !.pr = mode]
    OBVIOUS
  <2>4. /\ evidence.push = file[d].push /\ evidence.pr = mode
        /\ evidence.readiness = file[d].readiness /\ evidence \in Files
    BY <1>3, <2>3 DEF Files, Modes
  <2> QED
    BY <1>0, <1>6, <2>1, <2>2, <2>3, <2>4, ShownWhenReached, NamesOfSteps
<1>7. ASSUME NEW d \in Candidates, NEW decision \in Decisions,
             Save(q, d, Assessed(d, decision), [file[d] EXCEPT !.readiness = decision]),
             Reaches(d, "readiness", decision)
      PROVE  Shown'
  <2>1. PICK row : row = Assessed(d, decision)
    OBVIOUS
  <2>2. /\ row.hash = candidate[d].hash /\ row.pushed = candidate[d].pushed
        /\ row.pr = candidate[d].pr /\ row.readiness = decision
        /\ row.merged = candidate[d].merged /\ row \in Rows
    BY <1>3, <2>1 DEF Rows, Status, Assessed
  <2>3. PICK evidence : evidence = [file[d] EXCEPT !.readiness = decision]
    OBVIOUS
  <2>4. /\ evidence.push = file[d].push /\ evidence.pr = file[d].pr
        /\ evidence.readiness = decision /\ evidence \in Files
    BY <1>3, <2>3 DEF Files
  <2> QED
    BY <1>0, <1>7, <2>1, <2>2, <2>3, <2>4, ShownWhenReached, NamesOfSteps
<1>8. CASE RecordPr(q) /\ Reaches(c, "pr", "live")
  BY <1>1, <1>2, <1>6, <1>8 DEF RecordPr, At
<1>9. CASE RecordReadiness(q) /\ Reaches(c, "readiness", request[q].decision)
  BY <1>0, <1>1, <1>2, <1>7, <1>9 DEF RecordReadiness, At, RequestStates
<1>10. CASE RecordMerge(q) /\ Reaches(c, "merge", TRUE)
  <2>0. c \in Candidates
    BY <1>2, <1>10 DEF RecordMerge, At
  <2>1. PICK row : row = [candidate[c] EXCEPT !.status = "pull_request_merged",
                                     !.merged = TRUE, !.sha = request[q].commit]
    OBVIOUS
  <2>2. /\ row.hash = candidate[c].hash /\ row.pushed = candidate[c].pushed
        /\ row.pr = candidate[c].pr /\ row.readiness = candidate[c].readiness
        /\ row.merged = TRUE /\ row \in Rows
    BY <1>0, <1>3, <2>0, <2>1 DEF Rows, Status, RequestStates
  <2> QED
    BY <1>0, <1>1, <1>3, <1>10, <2>0, <2>1, <2>2, ShownWhenReached, NamesOfSteps DEF RecordMerge
<1>11. ASSUME NEW d \in Candidates, PreparePacket(q, d), Reaches(d, "pr", "packet")
       PROVE  Shown'
  BY <1>6, <1>11 DEF PreparePacket
<1>12. ASSUME NEW d \in Candidates, NEW decision \in {"ready", "not_ready"},
              AssessFromEvidence(q, d, decision), Reaches(d, "readiness", decision)
       PROVE  Shown'
  BY <1>7, <1>12 DEF AssessFromEvidence, Decisions
<1> QED
  BY <1>1, <1>4, <1>5, <1>8, <1>9, <1>10, <1>11, <1>12 DEF Answers

LEMMA ShownWhenGoingOn ==
  ASSUME IInv, Shown, GoesOn, Silent
  PROVE  Shown'
<1>0. UNCHANGED told /\ unanswered \subseteq unanswered'
  BY DEF Silent
<1>1. ASSUME UNCHANGED <<candidate, file>> PROVE Shown'
  BY <1>0, <1>1, ShownWhenUntold DEF Recorded
<1>2. ASSUME NEW q \in Requests, RecordCandidate(q) PROVE Shown'
  <2>1. PICK c : c = request[q].candidate
    OBVIOUS
  <2>2. c \in Candidates /\ candidate[c].status = "absent" /\ Chain(candidate[c])
        /\ candidate[c] \in Rows
    BY <1>2, <2>1 DEF RecordCandidate, At, IInv, TypeOK, Sound, RequestStates
  <2>3. /\ candidate[c].hash = 0 /\ candidate[c].pushed = FALSE /\ candidate[c].pr = "none"
        /\ candidate[c].readiness = "none" /\ candidate[c].merged = FALSE
    BY <2>2 DEF Chain, Rows
  <2>4. PICK row : row = [EmptyRow EXCEPT !.status = "commit_candidate_prepared",
                                 !.signoff = request[q].signoff,
                                 !.gates = request[q].gates,
                                 !.override = request[q].override]
    OBVIOUS
  <2>5. /\ row.hash = 0 /\ row.pushed = FALSE /\ row.pr = "none"
        /\ row.readiness = "none" /\ row.merged = FALSE
    BY <2>4 DEF EmptyRow
  <2>6. /\ candidate'[c] = row /\ UNCHANGED file
        /\ \A d \in Candidates \ {c} : candidate'[d] = candidate[d]
    BY <1>2, <2>1, <2>2, <2>4 DEF RecordCandidate, IInv, TypeOK
  <2> QED
    BY <1>0, <2>3, <2>5, <2>6, ShownWhenUntold DEF Recorded
<1>3. GoesOn => UNCHANGED <<candidate, file>> \/ \E q \in Requests : RecordCandidate(q)
  BY DEF GoesOn, SignOff, Prepare, RequestCommit, RequestPush, RequestPr,
     RequestAssessment, RequestMerge, Begin, GitSteps, GithubSteps, CheckTree, Add, Commit,
     RevParse, PushHead, PushStatus, PushBranch, ReusePr, NoPrYet, CreatePr, ReadyView,
     ReadySkipped, MergeView, MergePr, MergedView, Checked, RecordSignoff,
     GatesReport, RollbackPatch, Crash, OthersAct, RowsKept
<1> QED
  BY <1>1, <1>2, <1>3

(* A step of the trail is a step of the candidates. *)
LEMMA TrailStep ==
  ASSUME [TrailNext]_<<vars, trail>>
  PROVE  [Next]_vars
<1>1. ASSUME NEW q \in Requests, Answers(q) \/ RefusalTold(q) PROVE Next
  BY <1>1 DEF Answers, RefusalTold, Next, Ask, Records
<1>2. CASE GoesOn
  BY <1>2 DEF GoesOn, Next, Ask, Records
<1> QED
  BY <1>1, <1>2 DEF TrailNext

LEMMA ShownKept ==
  ASSUME IInv, Shown, [TrailNext]_<<vars, trail>>
  PROVE  Shown'
<1>1. ASSUME NEW q \in Requests, RefusalTold(q) PROVE Shown'
  BY <1>1, ShownWhenUntold DEF RefusalTold, Refuse, RowsKept, Recorded
<1>2. CASE UNCHANGED <<vars, trail>>
  BY <1>2, ShownWhenUntold DEF vars, trail, Recorded
<1> QED
  BY <1>1, <1>2, ShownWhenAnswered, ShownWhenGoingOn DEF TrailNext

(* Whatever requests overlap or die, where the ledger or the evidence of a *)
(* candidate differ from its row, a request about it has no answer (the    *)
(* events of the commit candidate handlers around their effects).          *)
THEOREM InterruptionsAreShown == TrailSpec => []InterruptionsShow
<1>1. TrailInit => IInv /\ Shown
  <2> SUFFICES ASSUME TrailInit PROVE Shown
    BY Start DEF TrailInit
  <2>1. NothingTold \in Tolds
    BY BoundsAssumption DEF NothingTold, Tolds, Commits, Modes, Decisions
  <2>2. \A c \in Candidates, step \in StepNames : Agrees(c, step)
    BY NamesOfSteps DEF TrailInit, Init, Agrees, Recorded, EmptyRow, NothingTold
  <2> QED
    BY <2>1, <2>2 DEF TrailInit, Shown
<1>2. IInv /\ Shown /\ [TrailNext]_<<vars, trail>> => IInv' /\ Shown'
  BY TrailStep, Invariance, ShownKept
<1>3. Shown => InterruptionsShow
  BY NamesOfSteps DEF Shown, Agrees, InterruptionsShow, Documented
<1> QED
  BY <1>1, <1>2, <1>3, PTL DEF TrailSpec

=============================================================================
