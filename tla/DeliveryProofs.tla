--------------------------- MODULE DeliveryProofs ---------------------------
(***************************************************************************)
(* Proofs about Delivery, for any number of requests and crashes: a        *)
(* candidate passes the steps of its delivery in their order, a run that a *)
(* closeout completed belongs to a closed candidate, an interruption shows *)
(* in the ledger, and the panel offers what is accepted and says what is   *)
(* recorded; undisturbed, a run is closed over what still works.           *)
(***************************************************************************)
EXTENDS DeliveryTrail, FiniteSetTheorems, SequenceTheorems, TLAPS

(* The columns are filled from the left, and the status that stands in for *)
(* a staging that worked is only there when staging was deployed.          *)
Chain(columns) ==
  /\ columns.closed => columns.completion # "none"
  /\ columns.completion # "none" => columns.production # "none"
  /\ columns.production # "none" => columns.prodPacket
  /\ columns.prodPacket => columns.prodReady # "none"
  /\ columns.prodReady # "none" => columns.staging # "none"
  /\ columns.status = "production_readiness_recorded" => columns.staging # "none"
  /\ columns.staging # "none" => columns.packet
  /\ columns.packet => columns.deploy # "none"

(* What a waiting request may rely on, whatever ran since it began.        *)
Sound(s) ==
  /\ s.pc \in {"deploy_view", "staging_check", "production_check"} =>
       s.decision # "none"
  /\ s.pc \in {"staging_ended", "production_ended"} => s.outcome # "none"
  /\ s.pc \in {"staging_script", "staging_ended"} => row.packet
  /\ s.pc = "staging_check" => row.staging # "none"
  /\ s.pc \in {"production_script", "production_ended"} => row.prodPacket
  /\ s.pc = "production_check" => row.production # "none"

IInv ==
  /\ TypeOK
  /\ Chain(row)
  /\ RunFollowsCandidate
  /\ \A q \in Requests : Sound(request[q])

-----------------------------------------------------------------------------
(* What the kinds of steps keep *)

LEMMA IdleSound == Idle \in RequestStates /\ Sound(Idle)
  BY DEF Idle, RequestStates, Sound, Decisions, Outcomes

(* Columns that keep what earlier ones had.                                *)
Extends(columns, old) ==
  /\ old.packet => columns.packet
  /\ old.staging # "none" => columns.staging # "none"
  /\ old.prodPacket => columns.prodPacket
  /\ old.production # "none" => columns.production # "none"

LEMMA StillSound ==
  ASSUME NEW s, Sound(s), Extends(row', row)
  PROVE  Sound(s)'
  BY DEF Sound, Extends

(* A request moves on and the rest of the requests wait.                   *)
LEMMA Moving ==
  ASSUME IInv, NEW q \in Requests, NEW s \in RequestStates, Sound(s),
         request' = [request EXCEPT ![q] = s],
         UNCHANGED <<row, file, run, crashes>>, vetted' \in BOOLEAN,
         world' \in Worlds, disturbed' \in BOOLEAN
  PROVE  IInv'
<1>1. TypeOK'
  BY DEF IInv, TypeOK
<1>2. \A p \in Requests : request'[p] = IF p = q THEN s ELSE request[p]
  BY DEF IInv, TypeOK
<1>3. (\A p \in Requests : Sound(request[p]))'
  BY <1>2 DEF IInv, Sound
<1>4. QED
  BY <1>1, <1>3 DEF IInv, Chain, RunFollowsCandidate

(* The server dies after a step wrote its file, its row, or nothing.       *)
LEMMA Dying ==
  ASSUME IInv, Dies, row' \in Rows, Chain(row'), file' \in Files, run' \in Runs,
         RunFollowsCandidate', UNCHANGED <<vetted, world>>
  PROVE  IInv'
<1>1. TypeOK'
  BY IdleSound, CrashAssumption DEF IInv, TypeOK, Dies
<1>2. (\A p \in Requests : Sound(request[p]))'
  BY DEF Dies, Idle, Sound
<1>3. QED
  BY <1>1, <1>2 DEF IInv, Chain

(* A step is recorded: its file and its row, or its file and a crash.      *)
LEMMA Saving ==
  ASSUME IInv, NEW q \in Requests, NEW columns \in Rows, NEW evidence \in Files,
         Save(q, columns, evidence),
         Chain(columns), Extends(columns, row), columns.closed = row.closed
  PROVE  IInv'
<1>1. CASE /\ row' = columns
           /\ request' = [request EXCEPT ![q] = Idle]
           /\ UNCHANGED <<crashes, disturbed>>
  <2>1. TypeOK' /\ RunFollowsCandidate' /\ Chain(row)'
    BY <1>1, IdleSound DEF Save, IInv, TypeOK, RunFollowsCandidate, Chain
  <2>2. ASSUME NEW p \in Requests PROVE Sound(request[p])'
    <3>1. request'[p] = IF p = q THEN Idle ELSE request[p]
      BY <1>1 DEF IInv, TypeOK
    <3>2. PICK s : s = IF p = q THEN Idle ELSE request[p]
      OBVIOUS
    <3>3. Sound(s)
      BY <3>2, IdleSound DEF IInv
    <3>4. Sound(s)'
      BY <1>1, <3>3, StillSound
    <3>5. QED
      BY <3>1, <3>2, <3>4 DEF Sound
  <2>3. QED
    BY <2>1, <2>2 DEF IInv
<1>2. ASSUME Dies, row' \in {row, columns} PROVE IInv'
  <2>1. row' \in Rows /\ Chain(row')
    BY <1>2 DEF IInv, TypeOK, Chain
  <2>2. file' \in Files /\ run' \in Runs /\ RunFollowsCandidate'
    BY <1>2 DEF Save, IInv, TypeOK, RunFollowsCandidate
  <2>3. QED
    BY <1>2, <2>1, <2>2, Dying DEF Save
<1>3. QED
  BY <1>1, <1>2 DEF Save

-----------------------------------------------------------------------------
(* The steps of the delivery are recorded in their order *)

(* A step of this module is a step of GovernedSteps, or none.              *)
Advances == Reached' \in {Reached, Reached + 1}

(* The columns a step records hold one column more, or none: the one after *)
(* the columns that were filled.                                           *)
OneMore(columns, old) ==
  \/ /\ columns.deploy # "none"
     /\ columns.packet = old.packet /\ columns.staging = old.staging
     /\ columns.prodReady = old.prodReady /\ columns.prodPacket = old.prodPacket
     /\ columns.production = old.production /\ columns.completion = old.completion
     /\ columns.closed = old.closed
  \/ /\ old.deploy # "none" /\ columns.packet
     /\ columns.deploy = old.deploy /\ columns.staging = old.staging
     /\ columns.prodReady = old.prodReady /\ columns.prodPacket = old.prodPacket
     /\ columns.production = old.production /\ columns.completion = old.completion
     /\ columns.closed = old.closed
  \/ /\ old.packet /\ columns.staging # "none"
     /\ columns.deploy = old.deploy /\ columns.packet = old.packet
     /\ columns.prodReady = old.prodReady /\ columns.prodPacket = old.prodPacket
     /\ columns.production = old.production /\ columns.completion = old.completion
     /\ columns.closed = old.closed
  \/ /\ old.staging # "none" /\ columns.prodReady # "none"
     /\ columns.deploy = old.deploy /\ columns.packet = old.packet
     /\ columns.staging = old.staging /\ columns.prodPacket = old.prodPacket
     /\ columns.production = old.production /\ columns.completion = old.completion
     /\ columns.closed = old.closed
  \/ /\ old.prodReady # "none" /\ columns.prodPacket
     /\ columns.deploy = old.deploy /\ columns.packet = old.packet
     /\ columns.staging = old.staging /\ columns.prodReady = old.prodReady
     /\ columns.production = old.production /\ columns.completion = old.completion
     /\ columns.closed = old.closed
  \/ /\ old.prodPacket /\ columns.production # "none"
     /\ columns.deploy = old.deploy /\ columns.packet = old.packet
     /\ columns.staging = old.staging /\ columns.prodReady = old.prodReady
     /\ columns.prodPacket = old.prodPacket /\ columns.completion = old.completion
     /\ columns.closed = old.closed
  \/ /\ old.production # "none" /\ columns.completion # "none"
     /\ columns.deploy = old.deploy /\ columns.packet = old.packet
     /\ columns.staging = old.staging /\ columns.prodReady = old.prodReady
     /\ columns.prodPacket = old.prodPacket /\ columns.production = old.production
     /\ columns.closed = old.closed

(* The columns of a step that follows its predecessor extend the row, keep *)
(* the chain and reach at most one step further.                           *)
LEMMA NextColumn ==
  ASSUME NEW old \in Rows, Chain(old), NEW columns \in Rows, OneMore(columns, old),
         columns.status = "production_readiness_recorded" => columns.staging # "none"
  PROVE  Chain(columns) /\ Extends(columns, old) /\ columns.closed = old.closed
  BY DEF Rows, Chain, Extends, OneMore

LEMMA NextReached ==
  ASSUME IInv, NEW columns \in Rows, OneMore(columns, row), row' = columns
  PROVE  Advances
  BY DEF IInv, TypeOK, Rows, Chain, OneMore, Advances, Reached

(* What every step that is recorded keeps.                                 *)
LEMMA Recording ==
  ASSUME IInv, NEW q \in Requests, NEW columns \in Rows, NEW evidence \in Files,
         Save(q, columns, evidence), OneMore(columns, row),
         columns.status = "production_readiness_recorded" => columns.staging # "none"
  PROVE  IInv' /\ Advances
<1>1. row \in Rows /\ Chain(row)
  BY DEF IInv, TypeOK
<1>2. IInv'
  BY <1>1, NextColumn, Saving
<1>3. ASSUME row' = columns PROVE Advances
  BY <1>3, NextReached
<1>4. ASSUME UNCHANGED row PROVE Advances
  BY <1>4 DEF Advances, Reached
<1>5. QED
  BY <1>2, <1>3, <1>4 DEF Save

-----------------------------------------------------------------------------
(* Every action keeps the invariant and the order *)

LEMMA ReadinessKeeps ==
  ASSUME IInv, NEW q \in Requests,
         \/ RecordDeployReadiness(q) \/ RecordProductionReadiness(q)
         \/ RecordCompletionReadiness(q)
  PROVE  IInv' /\ Advances
<1>1. row \in Rows /\ file \in Files /\ Chain(row)
  BY DEF IInv, TypeOK
<1>2. PICK s \in RequestStates : s = request[q]
  BY DEF IInv, TypeOK
<1>3. Sound(s) /\ s.decision \in Decisions
  BY <1>2 DEF IInv, RequestStates
<1>4. CASE RecordDeployReadiness(q)
  <2>1. PICK columns \in Rows : columns = Other([row EXCEPT !.deploy = s.decision])
    BY <1>1, <1>3 DEF Rows, Other
  <2>2. PICK evidence \in Files : evidence = [file EXCEPT !.deploy = s.decision]
    BY <1>1, <1>3 DEF Files
  <2>3. Save(q, columns, evidence) /\ s.decision # "none"
    BY <1>2, <1>3, <1>4, <2>1, <2>2 DEF RecordDeployReadiness, At, Sound
  <2>4. OneMore(columns, row) /\ columns.status = "other"
    BY <1>1, <2>1, <2>3 DEF Rows, Other, OneMore
  <2>5. QED
    BY <2>3, <2>4, Recording
<1>5. CASE RecordProductionReadiness(q)
  <2>1. PICK columns \in Rows :
          columns = [row EXCEPT !.prodReady = s.decision,
                                !.status = "production_readiness_recorded"]
    BY <1>1, <1>3 DEF Rows
  <2>2. PICK evidence \in Files : evidence = [file EXCEPT !.prodReady = s.decision]
    BY <1>1, <1>3 DEF Files
  <2>3. Save(q, columns, evidence) /\ s.decision # "none" /\ row.staging # "none"
    BY <1>2, <1>3, <1>5, <2>1, <2>2 DEF RecordProductionReadiness, At, Sound
  <2>4. OneMore(columns, row) /\ columns.staging # "none"
    BY <1>1, <2>1, <2>3 DEF Rows, OneMore
  <2>5. QED
    BY <2>3, <2>4, Recording
<1>6. CASE RecordCompletionReadiness(q)
  <2>1. PICK columns \in Rows : columns = Other([row EXCEPT !.completion = s.decision])
    BY <1>1, <1>3 DEF Rows, Other
  <2>2. PICK evidence \in Files : evidence = [file EXCEPT !.completion = s.decision]
    BY <1>1, <1>3 DEF Files
  <2>3. Save(q, columns, evidence) /\ s.decision # "none" /\ row.production # "none"
    BY <1>2, <1>3, <1>6, <2>1, <2>2 DEF RecordCompletionReadiness, At, Sound
  <2>4. OneMore(columns, row) /\ columns.status = "other"
    BY <1>1, <2>1, <2>3 DEF Rows, Other, OneMore
  <2>5. QED
    BY <2>3, <2>4, Recording
<1>7. QED
  BY <1>4, <1>5, <1>6

LEMMA DeploymentKeeps ==
  ASSUME IInv, NEW q \in Requests, RecordStaging(q) \/ RecordProduction(q)
  PROVE  IInv' /\ Advances
<1>1. row \in Rows /\ file \in Files /\ Chain(row)
  BY DEF IInv, TypeOK
<1>2. PICK s \in RequestStates : s = request[q]
  BY DEF IInv, TypeOK
<1>3. Sound(s) /\ s.outcome \in Outcomes
  BY <1>2 DEF IInv, RequestStates
<1>4. CASE RecordStaging(q)
  <2>1. PICK columns \in Rows : columns = Other([row EXCEPT !.staging = s.outcome])
    BY <1>1, <1>3 DEF Rows, Other
  <2>2. PICK evidence \in Files : evidence = [file EXCEPT !.staging = s.outcome]
    BY <1>1, <1>3 DEF Files
  <2>3. Save(q, columns, evidence) /\ s.outcome # "none" /\ row.packet
    BY <1>2, <1>3, <1>4, <2>1, <2>2 DEF RecordStaging, At, Sound
  <2>4. OneMore(columns, row) /\ columns.status = "other"
    BY <1>1, <2>1, <2>3 DEF Rows, Other, OneMore
  <2>5. QED
    BY <2>3, <2>4, Recording
<1>5. CASE RecordProduction(q)
  <2>1. PICK columns \in Rows : columns = Other([row EXCEPT !.production = s.outcome])
    BY <1>1, <1>3 DEF Rows, Other
  <2>2. PICK evidence \in Files : evidence = [file EXCEPT !.production = s.outcome]
    BY <1>1, <1>3 DEF Files
  <2>3. Save(q, columns, evidence) /\ s.outcome # "none" /\ row.prodPacket
    BY <1>2, <1>3, <1>5, <2>1, <2>2 DEF RecordProduction, At, Sound
  <2>4. OneMore(columns, row) /\ columns.status = "other"
    BY <1>1, <2>1, <2>3 DEF Rows, Other, OneMore
  <2>5. QED
    BY <2>3, <2>4, Recording
<1>6. QED
  BY <1>4, <1>5

LEMMA PacketKeeps ==
  ASSUME IInv, NEW q \in Requests, PreparePacket(q) \/ PrepareProductionPacket(q)
  PROVE  IInv' /\ Advances
<1>1. row \in Rows /\ file \in Files /\ Chain(row)
  BY DEF IInv, TypeOK
<1>2. CASE PreparePacket(q)
  <2>1. PICK columns \in Rows : columns = Other([row EXCEPT !.packet = TRUE])
    BY <1>1 DEF Rows, Other
  <2>2. Save(q, columns, file) /\ row.deploy # "none"
    BY <1>2, <2>1 DEF PreparePacket, MayPack, DeployReady
  <2>3. OneMore(columns, row) /\ columns.status = "other"
    BY <1>1, <2>1, <2>2 DEF Rows, Other, OneMore
  <2>4. QED
    BY <1>1, <2>2, <2>3, Recording
<1>3. CASE PrepareProductionPacket(q)
  <2>1. PICK columns \in Rows : columns = Other([row EXCEPT !.prodPacket = TRUE])
    BY <1>1 DEF Rows, Other
  <2>2. Save(q, columns, file) /\ row.prodReady # "none"
    BY <1>3, <2>1 DEF PrepareProductionPacket, MayPackProduction, ProductionReady
  <2>3. OneMore(columns, row) /\ columns.status = "other"
    BY <1>1, <2>1, <2>2 DEF Rows, Other, OneMore
  <2>4. QED
    BY <1>1, <2>2, <2>3, Recording
<1>4. QED
  BY <1>2, <1>3

(* The closeout marks the candidate and then the run: a crash in between   *)
(* leaves a closed candidate and an open run, never the other way round.   *)
LEMMA CloseOutKeeps ==
  ASSUME IInv, NEW q \in Requests, CloseOut(q)
  PROVE  IInv' /\ Advances
<1>1. row \in Rows /\ Chain(row) /\ row.completion # "none" /\ ~row.closed
  BY DEF IInv, TypeOK, CloseOut, MayClose
<1>2. PICK columns \in Rows : columns = ClosedRow
  BY <1>1 DEF Rows, ClosedRow, Other
<1>3. /\ columns.closed /\ columns.status = "other" /\ columns.packet = row.packet
      /\ columns.deploy = row.deploy /\ columns.staging = row.staging
      /\ columns.prodReady = row.prodReady /\ columns.prodPacket = row.prodPacket
      /\ columns.production = row.production /\ columns.completion = row.completion
  BY <1>1, <1>2 DEF Rows, ClosedRow, Other
<1>4. row' = columns /\ Chain(columns) /\ Extends(columns, row)
  BY <1>1, <1>2, <1>3 DEF CloseOut, Chain, Extends
<1>5. Advances
  BY <1>1, <1>3, <1>4 DEF Advances, Reached
<1>6. RunFollowsCandidate' /\ run' \in Runs /\ file' \in Files
  BY <1>3, <1>4 DEF CloseOut, RunFollowsCandidate, IInv, TypeOK, Runs
<1>7. ASSUME Dies PROVE IInv'
  BY <1>4, <1>6, <1>7, Dying DEF CloseOut
<1>8. ASSUME run' = "governed_run_completed", UNCHANGED <<request, crashes, disturbed>>
      PROVE  IInv'
  <2>1. TypeOK'
    BY <1>4, <1>6, <1>8 DEF CloseOut, IInv, TypeOK
  <2>2. ASSUME NEW p \in Requests PROVE Sound(request[p])'
    <3>1. PICK s : s = request[p] /\ s = request'[p]
      BY <1>8
    <3>2. Sound(s)'
      BY <3>1, <1>4, StillSound DEF IInv
    <3>3. QED
      BY <3>1, <3>2 DEF Sound
  <2>3. QED
    BY <1>4, <1>6, <2>1, <2>2 DEF IInv
<1>9. QED
  BY <1>5, <1>7, <1>8 DEF CloseOut

(* A request that passed its validation may wait at pc.                    *)
LEMMA Beginning ==
  ASSUME IInv, NEW q \in Requests, NEW pc, NEW d \in Decisions, Begin(q, pc, d),
         \/ pc = "deploy_view" /\ d # "none"
         \/ pc = "staging_script" /\ row.packet
         \/ pc = "staging_check" /\ row.staging # "none" /\ d # "none"
         \/ pc = "production_script" /\ row.prodPacket
         \/ pc = "production_check" /\ row.production # "none" /\ d # "none"
  PROVE  IInv'
<1>1. PICK s \in RequestStates : s = [Idle EXCEPT !.pc = pc, !.decision = d]
  BY IdleSound DEF Idle, RequestStates
<1>2. Sound(s)
  BY <1>1 DEF Idle, Sound
<1>3. disturbed' \in BOOLEAN /\ vetted' \in BOOLEAN /\ world' \in Worlds
  BY DEF Begin, IInv, TypeOK
<1>4. QED
  BY <1>1, <1>2, <1>3, Moving DEF Begin

LEMMA RequestsKeep ==
  ASSUME IInv, NEW q \in Requests,
         \/ \E d \in {"ready", "not_ready"} : \/ RequestDeployReadiness(q, d)
                                              \/ RequestProductionReadiness(q, d)
                                              \/ RequestCompletionReadiness(q, d)
         \/ RequestStaging(q) \/ RequestProduction(q)
  PROVE  IInv' /\ Advances
<1>1. Chain(row)
  BY DEF IInv
<1>2. ASSUME NEW d \in {"ready", "not_ready"},
             \/ RequestDeployReadiness(q, d) \/ RequestProductionReadiness(q, d)
             \/ RequestCompletionReadiness(q, d)
      PROVE  IInv'
  <2>1. d \in Decisions /\ d # "none"
    BY DEF Decisions
  <2>2. CASE RequestDeployReadiness(q, d)
    BY <2>1, <2>2, Beginning DEF RequestDeployReadiness
  <2>3. CASE RequestProductionReadiness(q, d)
    <3>1. row.staging # "none"
      BY <1>1, <2>3 DEF Chain, RequestProductionReadiness, MayAttestProduction
    <3>2. QED
      BY <2>1, <2>3, <3>1, Beginning DEF RequestProductionReadiness
  <2>4. CASE RequestCompletionReadiness(q, d)
    <3>1. row.production # "none"
      BY <2>4 DEF RequestCompletionReadiness, MayAttestCompletion
    <3>2. QED
      BY <2>1, <2>4, <3>1, Beginning DEF RequestCompletionReadiness
  <2>5. QED
    BY <1>2, <2>2, <2>3, <2>4
<1>3. ASSUME RequestStaging(q) PROVE IInv'
  BY <1>3, Beginning DEF RequestStaging, MayStage, Decisions
<1>4. ASSUME RequestProduction(q) PROVE IInv'
  BY <1>4, Beginning DEF RequestProduction, MayProduce, Decisions
<1>5. UNCHANGED row
  BY DEF RequestDeployReadiness, RequestProductionReadiness, RequestCompletionReadiness,
     RequestStaging, RequestProduction, Begin
<1>6. QED
  BY <1>2, <1>3, <1>4, <1>5 DEF Advances, Reached

LEMMA ScriptKeeps ==
  ASSUME IInv, NEW q \in Requests, NEW outcome \in {"deployed", "failed"},
         StagingEnds(q, outcome) \/ ProductionEnds(q, outcome)
  PROVE  IInv' /\ Advances
<1>1. PICK t \in RequestStates : t = request[q]
  BY DEF IInv, TypeOK
<1>2. Sound(t) /\ outcome \in Outcomes
  BY <1>1 DEF IInv, Outcomes
<1>3. CASE StagingEnds(q, outcome)
  <2>1. PICK s \in RequestStates :
          s = [t EXCEPT !.pc = "staging_ended", !.outcome = outcome]
    BY <1>2 DEF RequestStates
  <2>2. request' = [request EXCEPT ![q] = s] /\ t.pc = "staging_script"
    BY <1>1, <1>3, <2>1 DEF StagingEnds, At, IInv, TypeOK, RequestStates
  <2>3. Sound(s)
    BY <1>2, <2>1, <2>2 DEF Sound, RequestStates
  <2>4. world' \in Worlds /\ UNCHANGED <<row, file, run, vetted, crashes, disturbed>>
    BY <1>2, <1>3 DEF StagingEnds, IInv, TypeOK, Worlds
  <2>5. QED
    BY <2>2, <2>3, <2>4, Moving DEF IInv, TypeOK, Advances, Reached
<1>4. CASE ProductionEnds(q, outcome)
  <2>1. PICK s \in RequestStates :
          s = [t EXCEPT !.pc = "production_ended", !.outcome = outcome]
    BY <1>2 DEF RequestStates
  <2>2. request' = [request EXCEPT ![q] = s] /\ t.pc = "production_script"
    BY <1>1, <1>4, <2>1 DEF ProductionEnds, At, IInv, TypeOK, RequestStates
  <2>3. Sound(s)
    BY <1>2, <2>1, <2>2 DEF Sound, RequestStates
  <2>4. world' \in Worlds /\ UNCHANGED <<row, file, run, vetted, crashes, disturbed>>
    BY <1>2, <1>4 DEF ProductionEnds, IInv, TypeOK, Worlds
  <2>5. QED
    BY <2>2, <2>3, <2>4, Moving DEF IInv, TypeOK, Advances, Reached
<1>5. QED
  BY <1>3, <1>4

LEMMA OthersKeep ==
  ASSUME IInv,
         \/ \E q \in Requests : Refuse(q)
         \/ Withdraw \/ (\E status \in {"open", "completed"} : Orchestrate(status))
         \/ Crash \/ UNCHANGED vars
  PROVE  IInv' /\ Advances
<1>1. UNCHANGED row
  BY DEF Refuse, Withdraw, Orchestrate, Crash, vars
<1>2. ASSUME NEW q \in Requests, Refuse(q) PROVE IInv'
  BY <1>2, IdleSound, Moving DEF Refuse, IInv, TypeOK
<1>3. ASSUME Crash PROVE IInv'
  <2>1. row' \in Rows /\ Chain(row') /\ file' \in Files /\ run' \in Runs
        /\ RunFollowsCandidate'
    BY <1>3 DEF Crash, IInv, TypeOK, RunFollowsCandidate, Chain
  <2>2. QED
    BY <1>3, <2>1, Dying DEF Crash
<1>4. ASSUME UNCHANGED <<file, world, request, crashes, disturbed>>,
             vetted' \in BOOLEAN, run' \in Runs,
             run' \in {run, "open", "completed"}
      PROVE  IInv'
  <2>1. TypeOK' /\ RunFollowsCandidate' /\ Chain(row)'
    BY <1>1, <1>4 DEF IInv, TypeOK, RunFollowsCandidate, Chain
  <2>2. (\A q \in Requests : Sound(request[q]))'
    BY <1>1, <1>4 DEF IInv, Sound
  <2>3. QED
    BY <2>1, <2>2 DEF IInv
<1>5. ASSUME Withdraw \/ UNCHANGED vars PROVE IInv'
  BY <1>4, <1>5 DEF Withdraw, vars, IInv, TypeOK
<1>6. ASSUME NEW status \in {"open", "completed"}, Orchestrate(status) PROVE IInv'
  BY <1>4, <1>6 DEF Orchestrate, IInv, TypeOK, Runs
<1>7. QED
  BY <1>1, <1>2, <1>3, <1>5, <1>6 DEF Advances, Reached

LEMMA Start == Init => IInv
<1> SUFFICES ASSUME Init PROVE IInv
  OBVIOUS
<1>1. TypeOK
  <2>1. row \in Rows
    BY DEF Init, Rows, Decisions, Outcomes
  <2>2. file \in Files /\ world \in Worlds
    BY DEF Init, Files, Worlds, Decisions, Outcomes
  <2>3. request \in [Requests -> RequestStates]
    BY IdleSound DEF Init
  <2>4. crashes \in 0..MaxCrashes
    BY CrashAssumption DEF Init
  <2>5. QED
    BY <2>1, <2>2, <2>3, <2>4 DEF Init, TypeOK, Runs
<1>2. Chain(row) /\ RunFollowsCandidate
  BY DEF Init, Chain, RunFollowsCandidate
<1>3. \A q \in Requests : Sound(request[q])
  BY IdleSound DEF Init
<1>4. QED
  BY <1>1, <1>2, <1>3 DEF IInv

LEMMA StepKeeps == IInv /\ [Next]_vars => IInv' /\ Advances
<1> SUFFICES ASSUME IInv, [Next]_vars PROVE IInv' /\ Advances
  OBVIOUS
<1>1. ASSUME NEW q \in Requests, Ask(q) PROVE IInv' /\ Advances
  BY <1>1, RequestsKeep, PacketKeeps, CloseOutKeeps DEF Ask
<1>2. ASSUME NEW q \in Requests, Continue(q) PROVE IInv' /\ Advances
  BY <1>2, ReadinessKeeps, DeploymentKeeps, ScriptKeeps, OthersKeep DEF Continue
<1>3. CASE \/ Withdraw \/ (\E status \in {"open", "completed"} : Orchestrate(status))
           \/ Crash \/ UNCHANGED vars
  BY <1>3, OthersKeep
<1>4. QED
  BY <1>1, <1>2, <1>3 DEF Next

THEOREM InductiveInvariant == Spec => []IInv
<1>1. IInv /\ [Next]_vars => IInv'
  BY StepKeeps
<1>2. QED
  BY Start, <1>1, PTL DEF Spec

(* Every variable of the delivery keeps its shape.                         *)
THEOREM TypeCorrect == Spec => []TypeOK
<1>1. IInv => TypeOK
  BY DEF IInv
<1>2. QED
  BY <1>1, InductiveInvariant, PTL

(* A run is completed by a closeout only after its candidate is closed, at *)
(* whatever point the server dies (completeGovernedRunForRun).             *)
THEOREM FollowsCandidate == Spec => []RunFollowsCandidate
<1>1. IInv => RunFollowsCandidate
  BY DEF IInv
<1>2. QED
  BY <1>1, InductiveInvariant, PTL

(* However requests overlap, repeat or die, the delivery of a candidate    *)
(* passes its eight steps one at a time and loses none.                    *)
THEOREM StepsImplemented == Spec => StepsInOrder
<1> DEFINE reached == [c \in {"candidate"} |-> Reached]
<1>1. Init => Steps!Init
  BY DEF Init, Steps!Init, Reached
<1>2. IInv /\ [Next]_vars => [Steps!Next]_reached
  <2> SUFFICES ASSUME IInv, [Next]_vars PROVE [Steps!Next]_reached
    OBVIOUS
  <2>1. CASE Reached' = Reached
    BY <2>1
  <2>2. CASE Reached' = Reached + 1
    <3>1. Reached \in 0..8 /\ Reached' \in 0..8
      BY DEF Reached
    <3>2. Reached < 8
      BY <2>2, <3>1
    <3>3. reached' = [reached EXCEPT !["candidate"] = @ + 1]
      BY <2>2
    <3>4. QED
      BY <3>2, <3>3 DEF Steps!Next, Steps!Advance
  <2>3. QED
    BY <2>1, <2>2, StepKeeps DEF Advances
<1>3. QED
  BY <1>1, <1>2, InductiveInvariant, PTL DEF Spec, StepsInOrder, Steps!Spec

-----------------------------------------------------------------------------
(* The environments, while requests come one at a time *)

(* An environment is as its column says, unless its script has just ended; *)
(* its request knows how.                                                  *)
Known(env, column, ended) ==
  /\ env = column \/ \E q \in Requests : At(q, ended)
  /\ \A q \in Requests : At(q, ended) => request[q].outcome = env

Undisturbed ==
  ~disturbed =>
    /\ \A p, q \in Requests : Free(p) \/ Free(q) \/ p = q
    /\ Known(world.staging, row.staging, "staging_ended")
    /\ Known(world.production, row.production, "production_ended")

(* A step that leaves the environments and what is said of them. *)
LEMMA StaysKnown ==
  ASSUME Undisturbed, disturbed => disturbed',
         world' = world, row'.staging = row.staging, row'.production = row.production,
         \A q \in Requests :
           \/ request'[q] = request[q]
           \/ /\ request[q].pc \notin {"staging_ended", "production_ended"}
              /\ request'[q].pc \notin {"staging_ended", "production_ended"},
         ~disturbed' => \A p, q \in Requests : Free(p)' \/ Free(q)' \/ p = q
  PROVE  Undisturbed'
<1> SUFFICES ASSUME ~disturbed'
             PROVE  /\ Known(world.staging, row.staging, "staging_ended")'
                    /\ Known(world.production, row.production, "production_ended")'
  BY DEF Undisturbed
<1>1. /\ Known(world.staging, row.staging, "staging_ended")
      /\ Known(world.production, row.production, "production_ended")
  BY DEF Undisturbed
<1>2. ASSUME NEW q \in Requests, NEW pc \in {"staging_ended", "production_ended"}
      PROVE  At(q, pc)' <=> At(q, pc)
  BY <1>2 DEF At
<1>3. ASSUME NEW q \in Requests, NEW pc \in {"staging_ended", "production_ended"}, At(q, pc)'
      PROVE  request'[q].outcome = request[q].outcome
  BY <1>3 DEF At
<1> QED
  BY <1>1, <1>2, <1>3 DEF Known

LEMMA OneMoves ==
  ASSUME TypeOK, NEW q \in Requests, NEW s, request' = [request EXCEPT ![q] = s]
  PROVE  request'[q] = s /\ \A p \in Requests \ {q} : request'[p] = request[p]
  BY DEF TypeOK

LEMMA KnownWhenBegun ==
  ASSUME TypeOK, Undisturbed, NEW q \in Requests, NEW pc, NEW d, Begin(q, pc, d),
         pc \notin {"staging_ended", "production_ended"}
  PROVE  Undisturbed'
<1> DEFINE s == [Idle EXCEPT !.pc = pc, !.decision = d]
<1>1. s.pc = pc /\ request' = [request EXCEPT ![q] = s] /\ request[q].pc = "idle"
  BY DEF Begin, Idle, Free
<1> HIDE DEF s
<1>2. request'[q] = s /\ \A p \in Requests \ {q} : request'[p] = request[p]
  BY <1>1, OneMoves
<1>3. (disturbed => disturbed') /\ UNCHANGED <<world, row>>
      /\ (~disturbed' => \A p \in Requests : Free(p))
  BY DEF Begin
<1>4. ~disturbed' => \A p, r \in Requests : Free(p)' \/ Free(r)' \/ p = r
  BY <1>2, <1>3 DEF Free
<1> QED
  BY <1>1, <1>2, <1>3, <1>4, StaysKnown

LEMMA KnownWhenDying ==
  ASSUME Dies
  PROVE  Undisturbed'
  BY DEF Dies, Undisturbed

(* A step is recorded that is not about the environments. *)
LEMMA KnownWhenSaved ==
  ASSUME TypeOK, Undisturbed, NEW q \in Requests, NEW columns, NEW evidence,
         Save(q, columns, evidence),
         columns.staging = row.staging, columns.production = row.production,
         request[q].pc \notin {"staging_ended", "production_ended"}
  PROVE  Undisturbed'
<1>1. CASE Dies
  BY <1>1, KnownWhenDying
<1>2. CASE /\ row' = columns
           /\ request' = [request EXCEPT ![q] = Idle]
           /\ UNCHANGED <<crashes, disturbed>>
  <2>1. request'[q] = Idle /\ \A p \in Requests \ {q} : request'[p] = request[p]
    BY <1>2, OneMoves
  <2>2. ~disturbed' => \A p, r \in Requests : Free(p)' \/ Free(r)' \/ p = r
    BY <1>2, <2>1 DEF Free, Idle, Undisturbed
  <2>3. world' = world
    BY DEF Save
  <2> QED
    BY <1>2, <2>1, <2>2, <2>3, StaysKnown DEF Idle
<1> QED
  BY <1>1, <1>2 DEF Save

LEMMA KnownWhenRecorded ==
  ASSUME TypeOK, Undisturbed, NEW q \in Requests, RecordStaging(q) \/ RecordProduction(q)
  PROVE  Undisturbed'
<1>0. row \in Rows /\ world \in Worlds
  BY DEF TypeOK
<1>1. CASE Dies
  BY <1>1, KnownWhenDying
<1>2. CASE ~Dies
  <2>1. /\ request' = [request EXCEPT ![q] = Idle]
        /\ UNCHANGED <<crashes, disturbed, world>>
    BY <1>2 DEF RecordStaging, RecordProduction, Save
  <2>2. request'[q] = Idle /\ \A p \in Requests \ {q} : request'[p] = request[p]
    BY <2>1, OneMoves
  <2> SUFFICES ASSUME ~disturbed
               PROVE  /\ \A p, r \in Requests : Free(p)' \/ Free(r)' \/ p = r
                      /\ Known(world.staging, row.staging, "staging_ended")'
                      /\ Known(world.production, row.production, "production_ended")'
    BY <2>1 DEF Undisturbed
  <2>3. ~Free(q)
    BY DEF RecordStaging, RecordProduction, At, Free
  <2>4. \A p \in Requests : Free(p)'
    BY <2>2, <2>3 DEF Undisturbed, Free, Idle
  <2>5. /\ Known(world.staging, row.staging, "staging_ended")
        /\ Known(world.production, row.production, "production_ended")
    BY DEF Undisturbed
  <2>6. CASE RecordStaging(q)
    <3>1. row'.staging = request[q].outcome /\ row'.production = row.production
      BY <1>0, <1>2, <2>6 DEF RecordStaging, Save, Other, Rows
    <3>2. request[q].outcome = world.staging
      BY <2>5, <2>6 DEF RecordStaging, Known
    <3>3. \A p \in Requests : ~At(p, "production_ended")
      BY <2>3, <2>6 DEF Undisturbed, RecordStaging, At, Free
    <3>4. row.production = world.production
      BY <2>5, <3>3 DEF Known
    <3> QED
      BY <2>1, <2>4, <3>1, <3>2, <3>4 DEF Known, At, Free
  <2>7. CASE RecordProduction(q)
    <3>1. row'.production = request[q].outcome /\ row'.staging = row.staging
      BY <1>0, <1>2, <2>7 DEF RecordProduction, Save, Other, Rows
    <3>2. request[q].outcome = world.production
      BY <2>5, <2>7 DEF RecordProduction, Known
    <3>3. \A p \in Requests : ~At(p, "staging_ended")
      BY <2>3, <2>7 DEF Undisturbed, RecordProduction, At, Free
    <3>4. row.staging = world.staging
      BY <2>5, <3>3 DEF Known
    <3> QED
      BY <2>1, <2>4, <3>1, <3>2, <3>4 DEF Known, At, Free
  <2> QED
    BY <2>6, <2>7
<1> QED
  BY <1>1, <1>2

(* A script ends; it was the only request under way. *)
LEMMA KnownWhenEnded ==
  ASSUME TypeOK, Undisturbed, NEW q \in Requests, NEW outcome,
         StagingEnds(q, outcome) \/ ProductionEnds(q, outcome)
  PROVE  Undisturbed'
<1>0. world \in Worlds /\ request \in [Requests -> RequestStates] /\ request[q] \in RequestStates
  BY DEF TypeOK
<1> SUFFICES ASSUME ~disturbed
             PROVE  /\ \A p, r \in Requests : Free(p)' \/ Free(r)' \/ p = r
                    /\ Known(world.staging, row.staging, "staging_ended")'
                    /\ Known(world.production, row.production, "production_ended")'
  BY DEF StagingEnds, ProductionEnds, Undisturbed
<1>1. /\ request'[q].outcome = outcome /\ row' = row
      /\ \A p \in Requests \ {q} : request'[p] = request[p]
  BY <1>0 DEF StagingEnds, ProductionEnds, RequestStates
<1>2. ~Free(q)
  BY DEF StagingEnds, ProductionEnds, At, Free
<1>3. \A p \in Requests \ {q} : request[p].pc = "idle" /\ request'[p].pc = "idle"
  BY <1>1, <1>2 DEF Undisturbed, Free
<1>4. /\ Known(world.staging, row.staging, "staging_ended")
      /\ Known(world.production, row.production, "production_ended")
  BY DEF Undisturbed
<1>5. CASE StagingEnds(q, outcome)
  <2>1. /\ request[q].pc = "staging_script" /\ request'[q].pc = "staging_ended"
        /\ world'.staging = outcome /\ world'.production = world.production
    BY <1>0, <1>5 DEF StagingEnds, At, Worlds, RequestStates
  <2>2. world.production = row.production
    BY <1>3, <1>4, <2>1 DEF Known, At
  <2> QED
    BY <1>1, <1>3, <2>1, <2>2 DEF Known, At, Free
<1>6. CASE ProductionEnds(q, outcome)
  <2>1. /\ request[q].pc = "production_script" /\ request'[q].pc = "production_ended"
        /\ world'.production = outcome /\ world'.staging = world.staging
    BY <1>0, <1>6 DEF ProductionEnds, At, Worlds, RequestStates
  <2>2. world.staging = row.staging
    BY <1>3, <1>4, <2>1 DEF Known, At
  <2> QED
    BY <1>1, <1>3, <2>1, <2>2 DEF Known, At, Free
<1> QED
  BY <1>5, <1>6

LEMMA KnownStays ==
  ASSUME TypeOK, Undisturbed, [Next]_vars
  PROVE  Undisturbed'
<1>0. row \in Rows
  BY DEF TypeOK
<1>1. ASSUME NEW q \in Requests, Ask(q) PROVE Undisturbed'
  <2>1. CASE PreparePacket(q) \/ PrepareProductionPacket(q)
    <3>1. PICK columns \in {Other([row EXCEPT !.packet = TRUE]),
                            Other([row EXCEPT !.prodPacket = TRUE])} : Save(q, columns, file)
      BY <2>1 DEF PreparePacket, PrepareProductionPacket
    <3>2. columns.staging = row.staging /\ columns.production = row.production
      BY <1>0 DEF Other, Rows
    <3>3. request[q].pc = "idle"
      BY <2>1 DEF PreparePacket, PrepareProductionPacket, Free
    <3> QED
      BY <3>1, <3>2, <3>3, KnownWhenSaved
  <2>2. CASE CloseOut(q)
    <3>1. CASE Dies
      BY <3>1, KnownWhenDying
    <3>2. CASE UNCHANGED <<request, crashes, disturbed>>
      <4>1. /\ row'.staging = row.staging /\ row'.production = row.production
            /\ world' = world
        BY <1>0, <2>2 DEF CloseOut, ClosedRow, Other, Rows
      <4> QED
        BY <3>2, <4>1 DEF Undisturbed, Known, Free, At
    <3> QED
      BY <2>2, <3>1, <3>2 DEF CloseOut
  <2>3. CASE \E pc, d : Begin(q, pc, d) /\ pc \notin {"staging_ended", "production_ended"}
    BY <2>3, KnownWhenBegun
  <2> QED
    BY <1>1, <2>1, <2>2, <2>3
      DEF Ask, RequestDeployReadiness, RequestProductionReadiness,
          RequestCompletionReadiness, RequestStaging, RequestProduction
<1>2. ASSUME NEW q \in Requests, Continue(q) PROVE Undisturbed'
  <2>1. CASE RecordDeployReadiness(q)
    <3>1. PICK columns : columns = Other([row EXCEPT !.deploy = request[q].decision])
      OBVIOUS
    <3>2. columns.staging = row.staging /\ columns.production = row.production
      BY <1>0, <3>1 DEF Other, Rows
    <3> QED
      BY <2>1, <3>1, <3>2, KnownWhenSaved DEF RecordDeployReadiness, At
  <2>2. CASE RecordProductionReadiness(q)
    <3>1. PICK columns : columns = [row EXCEPT !.prodReady = request[q].decision,
                                              !.status = "production_readiness_recorded"]
      OBVIOUS
    <3>2. columns.staging = row.staging /\ columns.production = row.production
      BY <1>0, <3>1 DEF Rows
    <3> QED
      BY <2>2, <3>1, <3>2, KnownWhenSaved DEF RecordProductionReadiness, At
  <2>3. CASE RecordCompletionReadiness(q)
    <3>1. PICK columns : columns = Other([row EXCEPT !.completion = request[q].decision])
      OBVIOUS
    <3>2. columns.staging = row.staging /\ columns.production = row.production
      BY <1>0, <3>1 DEF Other, Rows
    <3> QED
      BY <2>3, <3>1, <3>2, KnownWhenSaved DEF RecordCompletionReadiness, At
  <2>4. CASE Refuse(q)
    <3>1. /\ request' = [request EXCEPT ![q] = Idle] /\ UNCHANGED <<row, world, disturbed>>
          /\ request[q].pc \notin {"staging_ended", "production_ended"}
      BY <2>4 DEF Refuse
    <3>2. request'[q] = Idle /\ \A p \in Requests \ {q} : request'[p] = request[p]
      BY <3>1, OneMoves
    <3>3. ~disturbed' => \A p, r \in Requests : Free(p)' \/ Free(r)' \/ p = r
      BY <3>1, <3>2 DEF Free, Idle, Undisturbed
    <3> QED
      BY <3>1, <3>2, <3>3, StaysKnown DEF Idle
  <2> QED
    BY <1>2, <2>1, <2>2, <2>3, <2>4, KnownWhenRecorded, KnownWhenEnded DEF Continue
<1>3. CASE Crash
  BY <1>3, KnownWhenDying DEF Crash
<1>4. CASE UNCHANGED <<row, world, request, disturbed>>
  BY <1>4 DEF Undisturbed, Known, Free, At
<1> QED
  BY <1>1, <1>2, <1>3, <1>4 DEF Next, Withdraw, Orchestrate, vars

LEMMA AlwaysKnown == Spec => [](IInv /\ Undisturbed)
<1>1. Init => Undisturbed
  BY DEF Init, Undisturbed, Known, Free, Idle, At
<1>2. IInv /\ Undisturbed /\ [Next]_vars => Undisturbed'
  BY KnownStays DEF IInv
<1> QED
  BY <1>1, <1>2, InductiveInvariant, PTL DEF Spec

(* While requests come one at a time and the server lives, a run is closed *)
(* out over environments whose last script succeeded, although both can be *)
(* deployed again after the attestation (completeGovernedRunForRun).       *)
THEOREM ClosesOverWorking == Spec => ClosesOnWorkingDeployments
<1>1. IInv /\ Undisturbed /\ [Next]_vars =>
        [~disturbed /\ (\A q \in Requests : Free(q)) /\ row'.closed /\ ~row.closed =>
           world = [staging |-> "deployed", production |-> "deployed"]]_vars
  <2> SUFFICES ASSUME IInv, Undisturbed, Next, ~disturbed, \A q \in Requests : Free(q),
                      row'.closed, ~row.closed
               PROVE  world = [staging |-> "deployed", production |-> "deployed"]
    OBVIOUS
  <2>0. row \in Rows /\ world \in Worlds
    BY DEF IInv, TypeOK
  <2>1. PICK q \in Requests : PreparePacket(q) \/ PrepareProductionPacket(q) \/ CloseOut(q)
    <3>1. ~(UNCHANGED row)
      OBVIOUS
    <3>2. \A q \in Requests : \A pc : request[q].pc = pc => pc = "idle"
      BY DEF Free
    <3> QED
      BY <3>1, <3>2
        DEF Next, Ask, Continue, RequestDeployReadiness, RequestProductionReadiness,
            RequestCompletionReadiness, RequestStaging, RequestProduction, Begin,
            RecordDeployReadiness, RecordProductionReadiness, RecordCompletionReadiness,
            StagingEnds, ProductionEnds, RecordStaging, RecordProduction, Refuse, Withdraw,
            Orchestrate, Crash, At
  <2>2. CloseOut(q)
    <3>1. Other([row EXCEPT !.packet = TRUE]).closed = row.closed
          /\ Other([row EXCEPT !.prodPacket = TRUE]).closed = row.closed
      BY <2>0 DEF Other, Rows
    <3> QED
      BY <2>1, <3>1 DEF PreparePacket, PrepareProductionPacket, Save
  <2>3. row.staging = "deployed" /\ row.production = "deployed"
    BY <2>2 DEF CloseOut, MayClose, MayAttestCompletion
  <2>4. world.staging = "deployed" /\ world.production = "deployed"
    BY <2>3 DEF Undisturbed, Known, At, Free
  <2> QED
    BY <2>0, <2>4 DEF Worlds
<1> QED
  BY <1>1, AlwaysKnown, PTL DEF Spec, ClosesOnWorkingDeployments

(* Under the same conditions a production script starts over a staging     *)
(* that works (deployToProductionForRun).                                  *)
THEOREM ProducesOverWorking == Spec => ProductionOverWorkingStaging
<1>1. IInv /\ Undisturbed /\ [Next]_vars =>
        [\A q \in Requests :
           ~disturbed' /\ ~At(q, "production_script") /\ request'[q].pc = "production_script"
             => world.staging = "deployed"]_vars
  <2> SUFFICES ASSUME IInv, Undisturbed, Next, NEW q \in Requests, ~disturbed',
                      ~At(q, "production_script"), request'[q].pc = "production_script"
               PROVE  world.staging = "deployed"
    OBVIOUS
  <2>0. TypeOK /\ request \in [Requests -> RequestStates]
    BY DEF IInv, TypeOK
  <2>1. \A p \in Requests : request'[p] = request[p] => p # q
    BY DEF At
  <2>2. ASSUME NEW p \in Requests, NEW s, request' = [request EXCEPT ![p] = s]
        PROVE  p = q /\ s.pc = "production_script"
    BY <2>0, <2>1, <2>2, OneMoves
  <2>10. ASSUME NEW p \in Requests, request' = [request EXCEPT ![p] = Idle] PROVE FALSE
    <3>1. Idle.pc = "production_script"
      BY <2>2, <2>10
    <3> QED
      BY <3>1 DEF Idle
  <2>3. ASSUME NEW p \in Requests, Continue(p) PROVE FALSE
    <3>1. CASE Dies
      BY <3>1 DEF Dies, Idle
    <3>2. CASE request' = [request EXCEPT ![p] = Idle]
      BY <2>10, <3>2
    <3>3. ASSUME NEW outcome, StagingEnds(p, outcome) \/ ProductionEnds(p, outcome) PROVE FALSE
      BY <2>0, <2>1, <3>3 DEF StagingEnds, ProductionEnds, RequestStates
    <3> QED
      BY <2>3, <3>1, <3>2, <3>3
        DEF Continue, RecordDeployReadiness, RecordProductionReadiness,
            RecordCompletionReadiness, RecordStaging, RecordProduction, Refuse, Save
  <2>4. ASSUME NEW p \in Requests, Ask(p) PROVE RequestProduction(p)
    <3>1. ASSUME NEW pc, NEW d, Begin(p, pc, d) PROVE pc = "production_script"
      <4>1. PICK s : s = [Idle EXCEPT !.pc = pc, !.decision = d]
        OBVIOUS
      <4>2. s.pc = pc
        BY <4>1 DEF Idle
      <4>3. s.pc = "production_script"
        BY <2>2, <3>1, <4>1 DEF Begin
      <4> QED
        BY <4>2, <4>3
    <3>2. ~Dies
      BY DEF Dies, Idle
    <3>3. ~(UNCHANGED request)
      BY <2>1
    <3>4. ASSUME request' = [request EXCEPT ![p] = Idle] PROVE FALSE
      BY <2>10, <3>4
    <3> QED
      BY <2>4, <3>1, <3>2, <3>3, <3>4
        DEF Ask, RequestDeployReadiness, RequestProductionReadiness,
            RequestCompletionReadiness, RequestStaging, PreparePacket,
            PrepareProductionPacket, CloseOut, Save
  <2>5. PICK p \in Requests : RequestProduction(p)
    <3>1. ~(UNCHANGED request)
      BY <2>1
    <3>2. ~Dies
      BY DEF Dies, Idle
    <3> QED
      BY <2>3, <2>4, <3>1, <3>2 DEF Next, Withdraw, Orchestrate, Crash
  <2>6. row.staging = "deployed" /\ ~disturbed /\ \A r \in Requests : Free(r)
    BY <2>5 DEF RequestProduction, MayProduce, StagingWorked, Begin
  <2> QED
    BY <2>6 DEF Undisturbed, Known, At, Free
<1> QED
  BY <1>1, AlwaysKnown, PTL DEF Spec, ProductionOverWorkingStaging

-----------------------------------------------------------------------------
(* What an answered request does, whichever step it is about *)

(* Where the request of a step stands when it is answered. *)
AnsweredAt ==
  [deploy |-> "deploy_view", packet |-> "idle", staging |-> "staging_ended",
   prodReady |-> "staging_check", prodPacket |-> "idle",
   production |-> "production_ended", completion |-> "production_check",
   closeout |-> "idle"]

(* The step is written, here and in its evidence, and nothing else is; or  *)
(* the server dies over it.                                                *)
Written(q, step, answer) ==
  /\ \A s \in StepNames \ {step} :
       Recorded'[s] = Recorded[s] /\ (s \in DOMAIN file => file'[s] = file[s])
  /\ world' = world
  /\ request[q].pc = AnsweredAt[step]
  /\ step \in Scripts => answer = request[q].outcome
  /\ \/ /\ crashes' = crashes
        /\ Recorded'[step] = answer
        /\ step \in DOMAIN file => file'[step] = answer
        /\ request'[q].pc = "idle"
        /\ \A p \in Requests \ {q} : request'[p] = request[p]
     \/ Dies

RecordedIn(columns) ==
  [deploy |-> columns.deploy, packet |-> Prepared(columns.packet),
   staging |-> columns.staging, prodReady |-> columns.prodReady,
   prodPacket |-> Prepared(columns.prodPacket), production |-> columns.production,
   completion |-> columns.completion, closeout |-> Prepared(columns.closed)]

LEMMA RecordedInRow == Recorded = RecordedIn(row)
  BY DEF Recorded, RecordedIn

(* The columns that fill one step. *)
Fills(columns, step, answer) ==
  /\ RecordedIn(columns)[step] = answer
  /\ \A s \in StepNames \ {step} : RecordedIn(columns)[s] = RecordedIn(row)[s]

LEMMA Freed ==
  ASSUME TypeOK, NEW q \in Requests, request' = [request EXCEPT ![q] = Idle]
  PROVE  request'[q].pc = "idle" /\ \A p \in Requests \ {q} : request'[p] = request[p]
  BY DEF TypeOK, Idle

LEMMA SavedIsWritten ==
  ASSUME TypeOK, NEW q \in Requests, NEW columns, NEW evidence,
         NEW step \in StepNames, NEW answer,
         Save(q, columns, evidence), Fills(columns, step, answer),
         \A s \in DOMAIN file \ {step} : evidence[s] = file[s],
         step \in DOMAIN file => evidence[step] = answer,
         request[q].pc = AnsweredAt[step],
         step \in Scripts => answer = request[q].outcome
  PROVE  Written(q, step, answer)
<1>1. Recorded = RecordedIn(row) /\ Recorded' = RecordedIn(row')
  BY DEF Recorded, RecordedIn
<1>2. \A s \in StepNames \ {step} : Recorded'[s] = Recorded[s]
  BY <1>1 DEF Save, Fills
<1>3. CASE row' = columns /\ request' = [request EXCEPT ![q] = Idle] /\ UNCHANGED crashes
  <2>1. Recorded'[step] = answer
    BY <1>1, <1>3 DEF Fills
  <2> QED
    BY <1>2, <1>3, <2>1, Freed DEF Save, Written
<1>4. CASE Dies
  BY <1>2, <1>4 DEF Save, Written
<1> QED
  BY <1>3, <1>4 DEF Save

LEMMA DeployWritten ==
  ASSUME TypeOK, NEW q \in Requests, RecordDeployReadiness(q)
  PROVE  Written(q, "deploy", request[q].decision)
<1>1. row \in Rows /\ file \in Files
  BY DEF TypeOK
<1>2. PICK columns : columns = Other([row EXCEPT !.deploy = request[q].decision])
  OBVIOUS
<1>3. /\ columns.deploy = request[q].decision
      /\ columns.packet = row.packet /\ columns.staging = row.staging
      /\ columns.prodReady = row.prodReady /\ columns.prodPacket = row.prodPacket
      /\ columns.production = row.production /\ columns.completion = row.completion
      /\ columns.closed = row.closed
  BY <1>1, <1>2 DEF Other, Rows
<1>4. Fills(columns, "deploy", request[q].decision)
  BY <1>3 DEF Fills, RecordedIn, StepNames, Prepared
<1>5. PICK evidence : evidence = [file EXCEPT !.deploy = request[q].decision]
  OBVIOUS
<1>6. /\ evidence["deploy"] = request[q].decision
      /\ \A s \in DOMAIN file \ {"deploy"} : evidence[s] = file[s]
  BY <1>1, <1>5 DEF Files
<1>7. Save(q, columns, evidence) /\ request[q].pc = AnsweredAt["deploy"]
  BY <1>2, <1>5 DEF RecordDeployReadiness, At, Free, AnsweredAt
<1> QED
  BY <1>4, <1>6, <1>7, SavedIsWritten DEF StepNames, Scripts

LEMMA PacketWritten ==
  ASSUME TypeOK, NEW q \in Requests, PreparePacket(q)
  PROVE  Written(q, "packet", "prepared")
<1>1. row \in Rows /\ file \in Files
  BY DEF TypeOK
<1>2. PICK columns : columns = Other([row EXCEPT !.packet = TRUE])
  OBVIOUS
<1>3. /\ columns.packet = TRUE
      /\ columns.deploy = row.deploy /\ columns.staging = row.staging
      /\ columns.prodReady = row.prodReady /\ columns.prodPacket = row.prodPacket
      /\ columns.production = row.production /\ columns.completion = row.completion
      /\ columns.closed = row.closed
  BY <1>1, <1>2 DEF Other, Rows
<1>4. Fills(columns, "packet", "prepared")
  BY <1>3 DEF Fills, RecordedIn, StepNames, Prepared
<1>5. PICK evidence : evidence = file
  OBVIOUS
<1>6. "packet" \notin DOMAIN file /\ \A s \in DOMAIN file \ {"packet"} : evidence[s] = file[s]
  BY <1>1, <1>5 DEF Files
<1>7. Save(q, columns, evidence) /\ request[q].pc = AnsweredAt["packet"]
  BY <1>2, <1>5 DEF PreparePacket, At, Free, AnsweredAt
<1> QED
  BY <1>4, <1>6, <1>7, SavedIsWritten DEF StepNames, Scripts

LEMMA StagingWritten ==
  ASSUME TypeOK, NEW q \in Requests, RecordStaging(q)
  PROVE  Written(q, "staging", request[q].outcome)
<1>1. row \in Rows /\ file \in Files
  BY DEF TypeOK
<1>2. PICK columns : columns = Other([row EXCEPT !.staging = request[q].outcome])
  OBVIOUS
<1>3. /\ columns.staging = request[q].outcome
      /\ columns.deploy = row.deploy /\ columns.packet = row.packet
      /\ columns.prodReady = row.prodReady /\ columns.prodPacket = row.prodPacket
      /\ columns.production = row.production /\ columns.completion = row.completion
      /\ columns.closed = row.closed
  BY <1>1, <1>2 DEF Other, Rows
<1>4. Fills(columns, "staging", request[q].outcome)
  BY <1>3 DEF Fills, RecordedIn, StepNames, Prepared
<1>5. PICK evidence : evidence = [file EXCEPT !.staging = request[q].outcome]
  OBVIOUS
<1>6. /\ evidence["staging"] = request[q].outcome
      /\ \A s \in DOMAIN file \ {"staging"} : evidence[s] = file[s]
  BY <1>1, <1>5 DEF Files
<1>7. Save(q, columns, evidence) /\ request[q].pc = AnsweredAt["staging"]
  BY <1>2, <1>5 DEF RecordStaging, At, Free, AnsweredAt
<1> QED
  BY <1>4, <1>6, <1>7, SavedIsWritten DEF StepNames, Scripts

LEMMA ProdReadyWritten ==
  ASSUME TypeOK, NEW q \in Requests, RecordProductionReadiness(q)
  PROVE  Written(q, "prodReady", request[q].decision)
<1>1. row \in Rows /\ file \in Files
  BY DEF TypeOK
<1>2. PICK columns : columns = [row EXCEPT !.prodReady = request[q].decision,
                                        !.status = "production_readiness_recorded"]
  OBVIOUS
<1>3. /\ columns.prodReady = request[q].decision
      /\ columns.deploy = row.deploy /\ columns.packet = row.packet
      /\ columns.staging = row.staging /\ columns.prodPacket = row.prodPacket
      /\ columns.production = row.production /\ columns.completion = row.completion
      /\ columns.closed = row.closed
  BY <1>1, <1>2 DEF Other, Rows
<1>4. Fills(columns, "prodReady", request[q].decision)
  BY <1>3 DEF Fills, RecordedIn, StepNames, Prepared
<1>5. PICK evidence : evidence = [file EXCEPT !.prodReady = request[q].decision]
  OBVIOUS
<1>6. /\ evidence["prodReady"] = request[q].decision
      /\ \A s \in DOMAIN file \ {"prodReady"} : evidence[s] = file[s]
  BY <1>1, <1>5 DEF Files
<1>7. Save(q, columns, evidence) /\ request[q].pc = AnsweredAt["prodReady"]
  BY <1>2, <1>5 DEF RecordProductionReadiness, At, Free, AnsweredAt
<1> QED
  BY <1>4, <1>6, <1>7, SavedIsWritten DEF StepNames, Scripts

LEMMA ProdPacketWritten ==
  ASSUME TypeOK, NEW q \in Requests, PrepareProductionPacket(q)
  PROVE  Written(q, "prodPacket", "prepared")
<1>1. row \in Rows /\ file \in Files
  BY DEF TypeOK
<1>2. PICK columns : columns = Other([row EXCEPT !.prodPacket = TRUE])
  OBVIOUS
<1>3. /\ columns.prodPacket = TRUE
      /\ columns.deploy = row.deploy /\ columns.packet = row.packet
      /\ columns.staging = row.staging /\ columns.prodReady = row.prodReady
      /\ columns.production = row.production /\ columns.completion = row.completion
      /\ columns.closed = row.closed
  BY <1>1, <1>2 DEF Other, Rows
<1>4. Fills(columns, "prodPacket", "prepared")
  BY <1>3 DEF Fills, RecordedIn, StepNames, Prepared
<1>5. PICK evidence : evidence = file
  OBVIOUS
<1>6. "prodPacket" \notin DOMAIN file /\ \A s \in DOMAIN file \ {"prodPacket"} : evidence[s] = file[s]
  BY <1>1, <1>5 DEF Files
<1>7. Save(q, columns, evidence) /\ request[q].pc = AnsweredAt["prodPacket"]
  BY <1>2, <1>5 DEF PrepareProductionPacket, At, Free, AnsweredAt
<1> QED
  BY <1>4, <1>6, <1>7, SavedIsWritten DEF StepNames, Scripts

LEMMA ProductionWritten ==
  ASSUME TypeOK, NEW q \in Requests, RecordProduction(q)
  PROVE  Written(q, "production", request[q].outcome)
<1>1. row \in Rows /\ file \in Files
  BY DEF TypeOK
<1>2. PICK columns : columns = Other([row EXCEPT !.production = request[q].outcome])
  OBVIOUS
<1>3. /\ columns.production = request[q].outcome
      /\ columns.deploy = row.deploy /\ columns.packet = row.packet
      /\ columns.staging = row.staging /\ columns.prodReady = row.prodReady
      /\ columns.prodPacket = row.prodPacket /\ columns.completion = row.completion
      /\ columns.closed = row.closed
  BY <1>1, <1>2 DEF Other, Rows
<1>4. Fills(columns, "production", request[q].outcome)
  BY <1>3 DEF Fills, RecordedIn, StepNames, Prepared
<1>5. PICK evidence : evidence = [file EXCEPT !.production = request[q].outcome]
  OBVIOUS
<1>6. /\ evidence["production"] = request[q].outcome
      /\ \A s \in DOMAIN file \ {"production"} : evidence[s] = file[s]
  BY <1>1, <1>5 DEF Files
<1>7. Save(q, columns, evidence) /\ request[q].pc = AnsweredAt["production"]
  BY <1>2, <1>5 DEF RecordProduction, At, Free, AnsweredAt
<1> QED
  BY <1>4, <1>6, <1>7, SavedIsWritten DEF StepNames, Scripts

LEMMA CompletionWritten ==
  ASSUME TypeOK, NEW q \in Requests, RecordCompletionReadiness(q)
  PROVE  Written(q, "completion", request[q].decision)
<1>1. row \in Rows /\ file \in Files
  BY DEF TypeOK
<1>2. PICK columns : columns = Other([row EXCEPT !.completion = request[q].decision])
  OBVIOUS
<1>3. /\ columns.completion = request[q].decision
      /\ columns.deploy = row.deploy /\ columns.packet = row.packet
      /\ columns.staging = row.staging /\ columns.prodReady = row.prodReady
      /\ columns.prodPacket = row.prodPacket /\ columns.production = row.production
      /\ columns.closed = row.closed
  BY <1>1, <1>2 DEF Other, Rows
<1>4. Fills(columns, "completion", request[q].decision)
  BY <1>3 DEF Fills, RecordedIn, StepNames, Prepared
<1>5. PICK evidence : evidence = [file EXCEPT !.completion = request[q].decision]
  OBVIOUS
<1>6. /\ evidence["completion"] = request[q].decision
      /\ \A s \in DOMAIN file \ {"completion"} : evidence[s] = file[s]
  BY <1>1, <1>5 DEF Files
<1>7. Save(q, columns, evidence) /\ request[q].pc = AnsweredAt["completion"]
  BY <1>2, <1>5 DEF RecordCompletionReadiness, At, Free, AnsweredAt
<1> QED
  BY <1>4, <1>6, <1>7, SavedIsWritten DEF StepNames, Scripts

LEMMA CloseOutWritten ==
  ASSUME TypeOK, NEW q \in Requests, CloseOut(q)
  PROVE  Written(q, "closeout", "prepared")
<1>1. row \in Rows /\ file \in Files
  BY DEF TypeOK
<1>2. PICK columns : columns = ClosedRow
  OBVIOUS
<1>3. /\ columns.closed = TRUE
      /\ columns.deploy = row.deploy /\ columns.packet = row.packet
      /\ columns.staging = row.staging /\ columns.prodReady = row.prodReady
      /\ columns.prodPacket = row.prodPacket /\ columns.production = row.production
      /\ columns.completion = row.completion
  BY <1>1, <1>2 DEF ClosedRow, Other, Rows
<1>4. Fills(columns, "closeout", "prepared")
  BY <1>3 DEF Fills, RecordedIn, StepNames, Prepared
<1>5. Recorded = RecordedIn(row) /\ Recorded' = RecordedIn(columns) /\ file' = file
  BY <1>2 DEF CloseOut, Recorded, RecordedIn
<1>6. "closeout" \notin DOMAIN file
  BY <1>1 DEF Files
<1> QED
  BY <1>4, <1>5, <1>6 DEF CloseOut, Written, Fills, AnsweredAt, Free, Scripts

-----------------------------------------------------------------------------
(* The panel, the trail and the environments *)

(* While the server lives, an answer the panel keeps, and the evidence of  *)
(* every step, are what the row says.                                      *)
PanelKnows ==
  crashes = 0 => \A s \in StepNames :
                   /\ own[s] \in {"none", Recorded[s]}
                   /\ s \in DOMAIN file => file[s] = Recorded[s]

(* So is what the ledger says, of a step that was never left unanswered.   *)
Shown(s) ==
  s \notin irregular => /\ told[s] = Recorded[s]
                        /\ s \in DOMAIN file => file[s] = Recorded[s]

(* An environment with such a step is as its column says, unless its       *)
(* script has just ended; its request, then the only one, knows how.       *)
Accounted(s) ==
  s \notin irregular =>
    /\ orphans[s] = 0
    /\ \A p, q \in Requests : IsAbout(request[p], s) /\ IsAbout(request[q], s) => p = q
    /\ world[s] = Recorded[s] \/ \E q \in Requests : At(q, AnsweredAt[s])
    /\ \A q \in Requests : At(q, AnsweredAt[s]) => request[q].outcome = world[s]

TrailKnows ==
  /\ DOMAIN own = StepNames /\ DOMAIN told = StepNames /\ DOMAIN orphans = Scripts
  /\ PanelKnows
  /\ \A s \in StepNames : Shown(s)
  /\ \A s \in Scripts : Accounted(s)

LEMMA AboutScripts ==
  ASSUME NEW s
  PROVE  /\ s.pc \in {"staging_script", "staging_ended"} => IsAbout(s, "staging")
         /\ s.pc \in {"production_script", "production_ended"} => IsAbout(s, "production")
  BY DEF IsAbout, StepOf

Words == {"requested", "validated", "started"}

(* Each handler tells that it begins before it waits for anything. *)
LEMMA BegunIsOpen ==
  ASSUME NEW step \in StepNames
  PROVE  Open(Events[step].begun \o <<>>)
<1>1. Events[step].begun \in {Asked, Started}
  <2>1. /\ Events["deploy"] = DeployReadinessEvents /\ Events["packet"] = PacketEvents
        /\ Events["staging"] = StagingEvents /\ Events["prodReady"] = ProductionReadinessEvents
        /\ Events["prodPacket"] = ProductionPacketEvents
        /\ Events["production"] = ProductionEvents
        /\ Events["completion"] = CompletionReadinessEvents
        /\ Events["closeout"] = RunCompletionEvents
    BY DEF Events
  <2>2. /\ DeployReadinessEvents.begun = Asked /\ PacketEvents.begun = Asked
        /\ ProductionReadinessEvents.begun = Asked /\ ProductionPacketEvents.begun = Asked
        /\ CompletionReadinessEvents.begun = Asked /\ RunCompletionEvents.begun = Asked
    BY DEF DeployReadinessEvents, PacketEvents, ProductionReadinessEvents,
           ProductionPacketEvents, CompletionReadinessEvents, RunCompletionEvents
  <2>3. StagingEvents.begun = Started /\ ProductionEvents.begun = Started
    BY DEF StagingEvents, ProductionEvents
  <2> QED
    BY <2>1, <2>2, <2>3 DEF StepNames
<1>2. Asked \in Seq(Words) /\ Asked # <<>> /\ Asked[Len(Asked)] = "validated"
  <2>1. Len(Asked) = 2 /\ Asked[2] = "validated"
    BY DEF Asked
  <2>2. Asked \in Seq(Words)
    BY DEF Asked, Words
  <2> QED
    BY <2>1, <2>2, EmptySeq DEF Words
<1>3. Started \in Seq(Words) /\ Started # <<>> /\ Started[Len(Started)] = "started"
  <2>1. PICK last : last = <<"started">>
    OBVIOUS
  <2>2. last \in Seq(Words) /\ Len(last) = 1 /\ last[1] = "started"
    BY <2>1 DEF Words
  <2>3. Started = Asked \o last /\ Asked \in Seq(Words) /\ Len(Asked) = 2
    BY <1>2, <2>1 DEF Started, Asked
  <2>4. Started \in Seq(Words) /\ Len(Started) = 3
    BY <2>2, <2>3, ConcatProperties
  <2>5. Started[3] = last[1]
    BY <2>2, <2>3, <2>4, ConcatProperties
  <2> QED
    BY <2>2, <2>4, <2>5, EmptySeq
<1>4. ASSUME NEW s \in Seq(Words), s # <<>>, s[Len(s)] \in {"validated", "started"}
      PROVE  Open(s \o <<>>)
  <2>1. s \o <<>> = s
    BY <1>4, ConcatEmptySeq
  <2> QED
    BY <1>4, <2>1 DEF Open
<1> QED
  BY <1>1, <1>2, <1>3, <1>4

LEMMA DeadIsLost ==
  ASSUME Dead, NEW left, Watches(left), NEW step \in StepNames, step \notin irregular'
  PROVE  \A q \in Requests : ~IsAbout(request[q], step)
  BY BegunIsOpen DEF Watches, Lost, LeftBy

LEMMA OneAbout ==
  ASSUME Together \subseteq irregular', NEW s \in Scripts, s \notin irregular',
         NEW p \in Requests, NEW q \in Requests,
         IsAbout(request'[p], s), IsAbout(request'[q], s)
  PROVE  p = q
<1> SUFFICES ASSUME p # q PROVE FALSE
  OBVIOUS
<1> DEFINE S == {r \in Requests : IsAbout(request'[r], s)}
<1>1. IsFiniteSet(S) /\ {p, q} \subseteq S
  BY RequestsAssumption, FS_Subset
<1>2. Cardinality({p, q}) <= Cardinality(S)
  BY <1>1, FS_Subset
<1>3. Cardinality({p, q}) = 2
  <2>1. IsFiniteSet({p}) /\ Cardinality({p}) = 1
    BY FS_Singleton
  <2>2. {p} \cup {q} = {p, q} /\ q \notin {p}
    OBVIOUS
  <2> QED
    BY <2>1, <2>2, FS_AddElement
<1>4. Cardinality(S) \in Nat
  BY <1>1, FS_CardinalityType
<1>5. Cardinality(S) > 1
  BY <1>2, <1>3, <1>4
<1>6. s \in Together
  BY <1>5 DEF Together
<1> QED
  BY <1>6

-----------------------------------------------------------------------------
(* What the kinds of steps keep *)

(* A request begins, or is refused, or nothing happens to any. *)
LEMMA QuietKnows ==
  ASSUME TypeOK, TrailKnows,
         UNCHANGED <<row, file, world, crashes, own, told>>,
         irregular \cup Together \subseteq irregular', orphans' = [s \in Scripts |-> orphans[s]],
         \A q \in Requests :
           \/ request'[q] = request[q]
           \/ /\ request[q].pc \notin {"staging_ended", "production_ended"}
              /\ request'[q].pc \notin {"staging_ended", "production_ended"}
  PROVE  TrailKnows'
<1>1. Recorded' = Recorded
  BY DEF Recorded
<1>2. PanelKnows' /\ \A s \in StepNames : Shown(s)'
  BY <1>1 DEF TrailKnows, PanelKnows, Shown
<1>3. ASSUME NEW s \in Scripts PROVE Accounted(s)'
  <2>1. AnsweredAt[s] \in {"staging_ended", "production_ended"}
    BY DEF Scripts, AnsweredAt
  <2>2. \A q \in Requests : At(q, AnsweredAt[s])' <=> At(q, AnsweredAt[s])
    BY <2>1 DEF At
  <2>3. \A q \in Requests : At(q, AnsweredAt[s]) => request'[q] = request[q]
    BY <2>1 DEF At
  <2>4. s \notin irregular' => Accounted(s) /\ s \notin irregular
    BY DEF TrailKnows
  <2> QED
    BY <1>1, <2>2, <2>3, <2>4, OneAbout DEF Accounted
<1> QED
  BY <1>2, <1>3 DEF TrailKnows

(* A script ends, and its request waits no longer. *)
LEMMA EndKnows ==
  ASSUME TypeOK, TrailKnows, NEW q \in Requests, NEW s \in Scripts, NEW outcome,
         At(q, RunsAt[s]),
         UNCHANGED <<row, file, crashes, own, told>>,
         irregular \cup Together \subseteq irregular', orphans' = [t \in Scripts |-> orphans[t]],
         world' = [world EXCEPT ![s] = outcome],
         request'[q].pc = AnsweredAt[s], request'[q].outcome = outcome,
         \A p \in Requests \ {q} : request'[p] = request[p]
  PROVE  TrailKnows'
<1>1. Recorded' = Recorded
  BY DEF Recorded
<1>2. PanelKnows' /\ \A t \in StepNames : Shown(t)'
  BY <1>1 DEF TrailKnows, PanelKnows, Shown
<1>3. world'[s] = outcome /\ \A t \in Scripts \ {s} : world'[t] = world[t]
  BY DEF TypeOK, Worlds, Scripts
<1>4. ASSUME s \notin irregular' PROVE Accounted(s)'
  <2>1. IsAbout(request'[q], s)
    BY AboutScripts DEF Scripts, AnsweredAt
  <2>2. \A p \in Requests : At(p, AnsweredAt[s])' => IsAbout(request'[p], s)
    BY AboutScripts DEF Scripts, AnsweredAt, At
  <2>3. \A p \in Requests : At(p, AnsweredAt[s])' => p = q
    BY <1>4, <2>1, <2>2, OneAbout
  <2>4. orphans'[s] = 0
    BY <1>4 DEF TrailKnows, Accounted
  <2> QED
    BY <1>3, <1>4, <2>3, <2>4, OneAbout DEF Accounted, At
<1>5. ASSUME NEW t \in Scripts \ {s}, t \notin irregular' PROVE Accounted(t)'
  <2>1. ~At(q, AnsweredAt[t]) /\ ~At(q, AnsweredAt[t])'
    BY DEF Scripts, AnsweredAt, At, RunsAt
  <2>2. \A p \in Requests : At(p, AnsweredAt[t])' <=> At(p, AnsweredAt[t])
    BY <2>1 DEF At
  <2>3. Accounted(t) /\ t \notin irregular
    BY <1>5 DEF TrailKnows
  <2> QED
    BY <1>1, <1>3, <1>5, <2>1, <2>2, <2>3, OneAbout DEF Accounted, At
<1> QED
  BY <1>2, <1>4, <1>5 DEF TrailKnows, Accounted

(* A script whose server died ends. *)
LEMMA OrphanKnows ==
  ASSUME TypeOK, TrailKnows, NEW s \in Scripts, NEW outcome, OrphanEnds(s, outcome)
  PROVE  TrailKnows'
<1>1. /\ UNCHANGED <<row, file, crashes, own, told, request, irregular>>
      /\ orphans[s] > 0
      /\ orphans' = [orphans EXCEPT ![s] = @ - 1]
      /\ world' = [world EXCEPT ![s] = outcome]
  BY DEF OrphanEnds
<1>2. Recorded' = Recorded
  BY <1>1 DEF Recorded
<1>3. s \in irregular
  BY <1>1 DEF TrailKnows, Accounted
<1>4. DOMAIN orphans' = Scripts
      /\ \A t \in Scripts \ {s} : orphans'[t] = orphans[t] /\ world'[t] = world[t]
  BY <1>1 DEF TrailKnows, TypeOK, Worlds, Scripts
<1>5. ASSUME NEW t \in Scripts PROVE Accounted(t)'
  BY <1>1, <1>2, <1>3, <1>4 DEF TrailKnows, Accounted, At
<1> QED
  BY <1>1, <1>2, <1>4, <1>5 DEF TrailKnows, PanelKnows, Shown

(* The server dies, over the step that is written or over none. *)
LEMMA DeathKnows ==
  ASSUME TypeOK, TrailKnows, Dies, NEW left, Watches(left), told' = told, own' = Silence,
         world' = world,
         \A s \in StepNames : s \notin irregular' =>
           Recorded'[s] = Recorded[s] /\ (s \in DOMAIN file => file'[s] = file[s]),
         DOMAIN file' = DOMAIN file
  PROVE  TrailKnows'
<1>1. crashes' = crashes + 1 /\ crashes \in Nat /\ Dead /\ crashes' # 0
  BY CrashAssumption DEF Dies, TypeOK, Dead
<1>2. PanelKnows'
  BY <1>1 DEF PanelKnows
<1>3. irregular \subseteq irregular'
  BY DEF Watches
<1>4. \A s \in StepNames : Shown(s)'
  BY <1>3 DEF TrailKnows, Shown
<1>5. \A q \in Requests : request'[q].pc = "idle"
  BY DEF Dies, Idle
<1>6. ASSUME NEW s \in Scripts, s \notin irregular' PROVE Accounted(s)'
  <2>1. s \in StepNames /\ Accounted(s) /\ s \notin irregular
    BY <1>3, <1>6 DEF TrailKnows, Scripts, StepNames
  <2>2. \A q \in Requests : ~IsAbout(request[q], s)
    BY <1>1, <1>6, <2>1, DeadIsLost
  <2>3. \A q \in Requests : ~At(q, AnsweredAt[s]) /\ ~At(q, RunsAt[s])
    BY <2>2, AboutScripts DEF Scripts, AnsweredAt, At, RunsAt
  <2>4. {q \in Requests : At(q, RunsAt[s])} = {}
    BY <2>3
  <2>5. orphans'[s] = orphans[s] + Cardinality({q \in Requests : At(q, RunsAt[s])})
    BY <1>1 DEF Watches
  <2>6. orphans'[s] = 0
    BY <2>1, <2>4, <2>5, FS_EmptySet DEF Accounted
  <2>7. \A q \in Requests : ~At(q, AnsweredAt[s])'
    BY <1>5 DEF At, Scripts, AnsweredAt
  <2>8. \A q \in Requests : ~IsAbout(request'[q], s)
    BY <1>5 DEF IsAbout
  <2> QED
    BY <1>6, <2>1, <2>3, <2>6, <2>7, <2>8 DEF Accounted
<1>7. DOMAIN own' = StepNames /\ DOMAIN told' = StepNames /\ DOMAIN orphans' = Scripts
  BY DEF Silence, Watches, TrailKnows
<1> QED
  BY <1>2, <1>4, <1>6, <1>7 DEF TrailKnows, Accounted

(* A step is answered. *)
LEMMA AnswerKnows ==
  ASSUME TypeOK, TypeOK', TrailKnows, NEW q \in Requests, NEW step \in StepNames, NEW answer,
         Written(q, step, answer), Keeps(step, answer), Reaches(step, answer)
  PROVE  TrailKnows'
<1>0. /\ DOMAIN file' = DOMAIN file /\ crashes \in Nat
      /\ \A s \in StepNames \ {step} :
           Recorded'[s] = Recorded[s] /\ (s \in DOMAIN file => file'[s] = file[s])
      /\ world' = world /\ request[q].pc = AnsweredAt[step]
      /\ step \in Scripts => answer = request[q].outcome
  BY CrashAssumption DEF TypeOK, Files, Written
<1>1. CASE Dies
  <2>1. Dead /\ crashes' # 0
    BY <1>0, <1>1 DEF Dies, Dead
  <2>2. told' = told /\ Watches(LeftBy({step}, <<>>))
    BY <2>1 DEF Reaches
  <2>3. step \in irregular'
    BY <2>2, BegunIsOpen DEF Watches, LeftBy
  <2>4. own' = Silence
    BY <2>1 DEF Keeps, VisitGoesOn
  <2> QED
    BY <1>0, <1>1, <2>2, <2>3, <2>4, DeathKnows
<1>2. CASE /\ crashes' = crashes
           /\ Recorded'[step] = answer
           /\ step \in DOMAIN file => file'[step] = answer
           /\ request'[q].pc = "idle"
           /\ \A p \in Requests \ {q} : request'[p] = request[p]
  <2>1. ~Dead
    BY <1>2 DEF Dead
  <2>2. /\ told' = [told EXCEPT ![step] = answer]
        /\ irregular \cup Together \subseteq irregular'
        /\ orphans' = [s \in Scripts |-> orphans[s]]
    BY <2>1 DEF Reaches, Watches
  <2>3. /\ DOMAIN told' = StepNames /\ told'[step] = answer
        /\ \A s \in StepNames \ {step} : told'[s] = told[s]
    BY <2>2 DEF TrailKnows
  <2>4. \A s \in StepNames : Shown(s)'
    BY <1>0, <1>2, <2>2, <2>3 DEF TrailKnows, Shown
  <2>5. DOMAIN own' = StepNames /\ PanelKnows'
    <3>1. CASE crashes' = 0
      <4>1. own' = [own EXCEPT ![step] = answer]
        BY <3>1 DEF Keeps, VisitGoesOn
      <4>2. /\ DOMAIN own' = StepNames /\ own'[step] = answer
            /\ \A s \in StepNames \ {step} : own'[s] = own[s]
        BY <4>1 DEF TrailKnows
      <4> QED
        BY <1>0, <1>2, <3>1, <4>2 DEF TrailKnows, PanelKnows
    <3>2. CASE crashes' # 0
      BY <3>2 DEF Keeps, VisitGoesOn, Silence, PanelKnows
    <3> QED
      BY <3>1, <3>2
  <2>6. \A s \in Scripts \ {step}, p \in Requests :
          At(p, AnsweredAt[s])' <=> At(p, AnsweredAt[s])
    <3>1. ASSUME NEW s \in Scripts \ {step} PROVE ~At(q, AnsweredAt[s]) /\ ~At(q, AnsweredAt[s])'
      BY <1>0, <1>2 DEF Scripts, StepNames, AnsweredAt, At
    <3> QED
      BY <1>2, <3>1 DEF At
  <2>7. ASSUME NEW s \in Scripts, s \notin irregular', s # step PROVE Accounted(s)'
    <3>1. s \in StepNames /\ Accounted(s) /\ s \notin irregular
      BY <2>2, <2>7 DEF TrailKnows, Scripts, StepNames
    <3>2. Recorded'[s] = Recorded[s]
      BY <1>0, <2>7, <3>1
    <3>3. \A p \in Requests : At(p, AnsweredAt[s]) => request'[p] = request[p]
      BY <1>0, <1>2, <2>7 DEF Scripts, StepNames, AnsweredAt, At
    <3> QED
      BY <1>0, <2>2, <2>6, <2>7, <3>1, <3>2, <3>3, OneAbout DEF Accounted
  <2>8. ASSUME step \in Scripts, step \notin irregular' PROVE Accounted(step)'
    <3>1. Accounted(step) /\ step \notin irregular
      BY <2>2, <2>8 DEF TrailKnows
    <3>2. At(q, AnsweredAt[step]) /\ world'[step] = answer
      BY <1>0, <2>8, <3>1 DEF At, Accounted
    <3>3. \A p \in Requests : At(p, AnsweredAt[step]) => IsAbout(request[p], step)
      BY <2>8, AboutScripts DEF Scripts, AnsweredAt, At
    <3>4. \A p \in Requests : At(p, AnsweredAt[step]) => p = q
      BY <3>1, <3>2, <3>3 DEF Accounted
    <3>5. \A p \in Requests : ~At(p, AnsweredAt[step])'
      BY <1>2, <2>8, <3>4 DEF At, Scripts, AnsweredAt
    <3> QED
      BY <1>2, <2>2, <2>8, <3>1, <3>2, <3>5, OneAbout DEF Accounted
  <2> QED
    BY <2>2, <2>3, <2>4, <2>5, <2>7, <2>8 DEF TrailKnows, Accounted
<1> QED
  BY <1>1, <1>2 DEF Written

LEMMA AnswersKnow ==
  ASSUME TypeOK, TypeOK', TrailKnows, NEW q \in Requests, Answers(q)
  PROVE  TrailKnows'
<1>1. ASSUME NEW step \in StepNames, NEW answer,
             Written(q, step, answer), Keeps(step, answer), Reaches(step, answer)
      PROVE  TrailKnows'
  BY <1>1, AnswerKnows
<1>2. CASE HandleDeployReadiness(q) /\ Reaches("deploy", request[q].decision)
  BY <1>1, <1>2, DeployWritten DEF HandleDeployReadiness, StepNames
<1>3. CASE HandlePrepareDeploymentPacket(q) /\ Reaches("packet", "prepared")
  BY <1>1, <1>3, PacketWritten DEF HandlePrepareDeploymentPacket, StepNames
<1>4. CASE HandleDeployToStaging(q) /\ Reaches("staging", request[q].outcome)
  BY <1>1, <1>4, StagingWritten DEF HandleDeployToStaging, StepNames
<1>5. CASE HandleProductionReadiness(q) /\ Reaches("prodReady", request[q].decision)
  BY <1>1, <1>5, ProdReadyWritten DEF HandleProductionReadiness, StepNames
<1>6. CASE HandlePrepareProductionPacket(q) /\ Reaches("prodPacket", "prepared")
  BY <1>1, <1>6, ProdPacketWritten DEF HandlePrepareProductionPacket, StepNames
<1>7. CASE HandleDeployToProduction(q) /\ Reaches("production", request[q].outcome)
  BY <1>1, <1>7, ProductionWritten DEF HandleDeployToProduction, StepNames
<1>8. CASE HandleCompletionReadiness(q) /\ Reaches("completion", request[q].decision)
  BY <1>1, <1>8, CompletionWritten DEF HandleCompletionReadiness, StepNames
<1>9. CASE HandleCompleteGovernedRun(q) /\ Reaches("closeout", "prepared")
  BY <1>1, <1>9, CloseOutWritten DEF HandleCompleteGovernedRun, StepNames
<1> QED
  BY <1>2, <1>3, <1>4, <1>5, <1>6, <1>7, <1>8, <1>9 DEF Answers

LEMMA BeginKnows ==
  ASSUME TypeOK, TrailKnows, NEW q \in Requests, NEW pc, NEW d, Begin(q, pc, d),
         UNCHANGED own, Silent,
         pc \notin {"staging_ended", "production_ended"}
  PROVE  TrailKnows'
<1>1. PICK s : s = [Idle EXCEPT !.pc = pc, !.decision = d]
  OBVIOUS
<1>2. s.pc = pc /\ request' = [request EXCEPT ![q] = s] /\ request[q].pc = "idle"
  BY <1>1 DEF Begin, Idle, Free
<1>3. request'[q] = s /\ \A p \in Requests \ {q} : request'[p] = request[p]
  BY <1>2, OneMoves
<1>4. /\ UNCHANGED <<row, file, world, crashes, told>>
      /\ irregular \cup Together \subseteq irregular'
      /\ orphans' = [t \in Scripts |-> orphans[t]]
  BY DEF Begin, Silent, Watches, Dead
<1> QED
  BY <1>2, <1>3, <1>4, QuietKnows

LEMMA ElsewhereKnows ==
  ASSUME TypeOK, TrailKnows, Elsewhere, Silent
  PROVE  TrailKnows'
<1>0. UNCHANGED own
  BY DEF Elsewhere
<1>1. ASSUME NEW q \in Requests, NEW d,
             \/ RequestDeployReadiness(q, d) \/ RequestProductionReadiness(q, d)
             \/ RequestCompletionReadiness(q, d) \/ RequestStaging(q) \/ RequestProduction(q)
      PROVE  TrailKnows'
  BY <1>0, <1>1, BeginKnows
    DEF RequestDeployReadiness, RequestProductionReadiness, RequestCompletionReadiness,
        RequestStaging, RequestProduction
<1>2. ASSUME NEW q \in Requests, NEW outcome,
             StagingEnds(q, outcome) \/ ProductionEnds(q, outcome)
      PROVE  TrailKnows'
  <2>1. /\ UNCHANGED <<row, file, crashes, told>>
        /\ irregular \cup Together \subseteq irregular'
        /\ orphans' = [t \in Scripts |-> orphans[t]]
    BY <1>2 DEF StagingEnds, ProductionEnds, Silent, Watches, Dead
  <2>2. CASE StagingEnds(q, outcome)
    <3>1. At(q, RunsAt["staging"]) /\ world' = [world EXCEPT !["staging"] = outcome]
      BY <2>2 DEF StagingEnds, RunsAt
    <3>2. /\ request'[q].pc = AnsweredAt["staging"] /\ request'[q].outcome = outcome
          /\ \A p \in Requests \ {q} : request'[p] = request[p]
      BY <2>2 DEF StagingEnds, AnsweredAt, TypeOK, RequestStates
    <3>3. "staging" \in Scripts
      BY DEF Scripts
    <3> QED
      BY <1>0, <2>1, <3>1, <3>2, <3>3, EndKnows
  <2>3. CASE ProductionEnds(q, outcome)
    <3>1. At(q, RunsAt["production"]) /\ world' = [world EXCEPT !["production"] = outcome]
      BY <2>3 DEF ProductionEnds, RunsAt
    <3>2. /\ request'[q].pc = AnsweredAt["production"] /\ request'[q].outcome = outcome
          /\ \A p \in Requests \ {q} : request'[p] = request[p]
      BY <2>3 DEF ProductionEnds, AnsweredAt, TypeOK, RequestStates
    <3>3. "production" \in Scripts
      BY DEF Scripts
    <3> QED
      BY <1>0, <2>1, <3>1, <3>2, <3>3, EndKnows
  <2> QED
    BY <1>2, <2>2, <2>3
<1>3. ASSUME NEW q \in Requests, Refuse(q) PROVE TrailKnows'
  <2>1. request'[q].pc = "idle" /\ \A p \in Requests \ {q} : request'[p] = request[p]
    BY <1>3, Freed DEF Refuse
  <2>2. /\ UNCHANGED <<row, file, world, crashes, told>>
        /\ irregular \cup Together \subseteq irregular'
        /\ orphans' = [t \in Scripts |-> orphans[t]]
    BY <1>3 DEF Refuse, Silent, Watches, Dead
  <2>3. request[q].pc \notin {"staging_ended", "production_ended"}
    BY <1>3 DEF Refuse
  <2> QED
    BY <1>0, <2>1, <2>2, <2>3, QuietKnows
<1>4. CASE Withdraw \/ \E status \in {"open", "completed"} : Orchestrate(status)
  <2>1. /\ UNCHANGED <<row, file, world, request, crashes, told>>
        /\ irregular \cup Together \subseteq irregular'
        /\ orphans' = [t \in Scripts |-> orphans[t]]
    BY <1>4 DEF Withdraw, Orchestrate, Silent, Watches, Dead
  <2> QED
    BY <1>0, <2>1, QuietKnows
<1> QED
  BY <1>1, <1>2, <1>3, <1>4 DEF Elsewhere

LEMMA RefusalKnows ==
  ASSUME TypeOK, TrailKnows, NEW q \in Requests, RefusalTold(q)
  PROVE  TrailKnows'
<1>1. request'[q].pc = "idle" /\ \A p \in Requests \ {q} : request'[p] = request[p]
  BY Freed DEF RefusalTold, Refuse
<1>2. /\ UNCHANGED <<row, file, world, crashes, own, told>>
      /\ irregular \cup Together \subseteq irregular'
      /\ orphans' = [t \in Scripts |-> orphans[t]]
  BY DEF RefusalTold, Refuse, Watches, Dead
<1>3. request[q].pc \notin {"staging_ended", "production_ended"}
  BY DEF RefusalTold, Refuse
<1> QED
  BY <1>1, <1>2, <1>3, QuietKnows

LEMMA VisitKnows ==
  ASSUME TypeOK, TrailKnows, VisitEnds, Silent
  PROVE  TrailKnows'
<1>1. Dies /\ UNCHANGED <<row, file, world, told>> /\ own' = Silence /\ Watches({})
  BY DEF VisitEnds, Crash, Silent
<1>2. Recorded' = Recorded
  BY <1>1 DEF Recorded
<1> QED
  BY <1>1, <1>2, DeathKnows

(* A step of the trail is a step of the delivery, or an orphan ends. *)
LEMMA TrailStep ==
  ASSUME IInv, [TrailNext]_<<vars, own, trail>>
  PROVE  IInv'
<1>1. ASSUME NEW q \in Requests, Answers(q) \/ RefusalTold(q) PROVE Next
  BY <1>1 DEF Answers, RefusalTold, HandleDeployReadiness, HandlePrepareDeploymentPacket,
       HandleDeployToStaging, HandleProductionReadiness, HandlePrepareProductionPacket,
       HandleDeployToProduction, HandleCompletionReadiness, HandleCompleteGovernedRun,
       Next, Ask, Continue
<1>2. CASE Elsewhere \/ VisitEnds
  <2>1. Next
    BY <1>2 DEF Elsewhere, VisitEnds, Next, Ask, Continue
  <2> QED
    BY <2>1, StepKeeps
<1>3. ASSUME NEW script \in Scripts, NEW outcome \in {"deployed", "failed"},
             OrphanEnds(script, outcome)
      PROVE  IInv'
  <2>1. /\ UNCHANGED <<row, file, run, vetted, request, crashes, disturbed>>
        /\ world' = [world EXCEPT ![script] = outcome]
    BY <1>3 DEF OrphanEnds
  <2>2. world' \in Worlds
    BY <2>1 DEF IInv, TypeOK, Worlds, Outcomes, Scripts
  <2> QED
    BY <2>1, <2>2 DEF IInv, TypeOK, Chain, RunFollowsCandidate, Sound
<1>4. CASE UNCHANGED <<vars, own, trail>>
  BY <1>4, StepKeeps
<1> QED
  BY <1>1, <1>2, <1>3, <1>4, StepKeeps DEF TrailNext

LEMMA TrailKept ==
  ASSUME IInv, TrailKnows, [TrailNext]_<<vars, own, trail>>
  PROVE  IInv' /\ TrailKnows'
<1>1. IInv' /\ TypeOK /\ TypeOK'
  BY TrailStep DEF IInv
<1>2. CASE UNCHANGED <<vars, own, trail>>
  <2>1. UNCHANGED <<row, file, world, request, crashes, own, told, irregular, orphans>>
    BY <1>2 DEF vars, trail
  <2>2. Recorded' = Recorded
    BY <2>1 DEF Recorded
  <2>3. \A s \in StepNames : Shown(s)'
    BY <2>1, <2>2 DEF TrailKnows, Shown
  <2>4. \A s \in Scripts : Accounted(s)'
    BY <2>1, <2>2 DEF TrailKnows, Accounted, At
  <2>5. PanelKnows'
    BY <2>1, <2>2 DEF TrailKnows, PanelKnows
  <2> QED
    BY <1>1, <2>1, <2>3, <2>4, <2>5 DEF TrailKnows
<1> QED
  BY <1>1, <1>2, AnswersKnow, RefusalKnows, ElsewhereKnows, VisitKnows, OrphanKnows
    DEF TrailNext

LEMMA TrailStart == TrailInit => IInv /\ TrailKnows
<1> SUFFICES ASSUME TrailInit PROVE IInv /\ TrailKnows
  OBVIOUS
<1>1. Init /\ own = Silence /\ told = Silence
  BY DEF TrailInit, PanelInit
<1>2. Recorded = Silence /\ \A s \in StepNames : s \in DOMAIN file => file[s] = "none"
  BY <1>1 DEF Init, Recorded, Silence, Prepared, StepNames
<1>3. PanelKnows /\ \A s \in StepNames : Shown(s)
  BY <1>1, <1>2 DEF PanelKnows, Shown, Silence
<1>4. \A s \in Scripts : Accounted(s)
  BY <1>1, <1>2 DEF TrailInit, Init, Accounted, Scripts, Silence, StepNames, Idle, IsAbout, At, AnsweredAt
<1> QED
  BY <1>1, <1>3, <1>4, Start DEF TrailKnows, Silence, TrailInit

LEMMA TrailAlways == TrailSpec => [](IInv /\ TrailKnows)
<1>1. IInv /\ TrailKnows /\ [TrailNext]_<<vars, own, trail>> => IInv' /\ TrailKnows'
  BY TrailKept
<1> QED
  BY <1>1, TrailStart, PTL DEF TrailSpec

(* A step whose ledger events, evidence or environment differ from its     *)
(* column has a request that is open, or a death or an overlap the ledger  *)
(* shows (the events of the delivery handlers around their effects).       *)
THEOREM InterruptionsAreShown == TrailSpec => []InterruptionsShow
<1>1. IInv /\ TrailKnows => InterruptionsShow
  <2> SUFFICES ASSUME TrailKnows, NEW step \in StepNames, step \notin irregular,
                      \A q \in Requests : ~IsAbout(request[q], step)
               PROVE  /\ told[step] = Recorded[step]
                      /\ step \in DOMAIN file => file[step] = Recorded[step]
                      /\ step \in Scripts => world[step] = Recorded[step]
    BY DEF InterruptionsShow
  <2>1. ASSUME step \in Scripts PROVE world[step] = Recorded[step]
    BY <2>1, AboutScripts DEF TrailKnows, Accounted, At, Scripts, AnsweredAt
  <2> QED
    BY <2>1 DEF TrailKnows, Shown
<1> QED
  BY <1>1, TrailAlways, PTL

(* The forms of the panel are the validations of the handlers, but for the *)
(* reasons PanelOffersWhatIsAccepted names (CommitCandidatePanel).         *)
THEOREM PanelOffersTheAccepted == TrailSpec => []PanelOffersWhatIsAccepted
<1>1. IInv /\ TrailKnows => PanelOffersWhatIsAccepted
  <2> SUFFICES ASSUME IInv, TrailKnows, crashes = 0 PROVE PanelOffersWhatIsAccepted
    BY DEF PanelOffersWhatIsAccepted
  <2>1. row \in Rows /\ file \in Files
    BY DEF IInv, TypeOK
  <2>2. /\ file.deploy = row.deploy /\ file.staging = row.staging
        /\ file.prodReady = row.prodReady /\ file.production = row.production
        /\ file.completion = row.completion
    <3>1. \A s \in StepNames : s \in DOMAIN file => file[s] = Recorded[s]
      BY DEF TrailKnows, PanelKnows
    <3> QED
      BY <2>1, <3>1 DEF Files, StepNames, Recorded
  <2> QED
    BY <2>1, <2>2
      DEF PanelOffersWhatIsAccepted, PacketSection, StagingSection, ProductionReadinessSection,
          ProductionPacketSection, ProductionSection, CompletionSection, CloseoutSection,
          CanPrepareDeploymentPacket, CanDeployToStaging, CanRecordProductionReadiness,
          CanPrepareProductionPacket, CanDeployToProduction, CanRecordCompletionReadiness,
          CanCompleteGovernedRun, MayPack, MayStage, MayAttestProduction, MayPackProduction,
          MayProduce, MayAttestCompletion, MayClose, DeployReady, StagingWorked,
          ProductionReady, Rows, Outcomes
<1> QED
  BY <1>1, TrailAlways, PTL

(* However steps are repeated, the panel says of each what the row and its *)
(* evidence say (the results CommitCandidatePanel keeps).                  *)
THEOREM PanelSaysTheRecorded == TrailSpec => []PanelSaysWhatIsRecorded
<1>1. IInv /\ TrailKnows => PanelSaysWhatIsRecorded
  <2> SUFFICES ASSUME IInv, TrailKnows, crashes = 0 PROVE PanelSaysWhatIsRecorded
    BY DEF PanelSaysWhatIsRecorded
  <2>1. row \in Rows /\ file \in Files
    BY DEF IInv, TypeOK
  <2>2. \A s \in StepNames : /\ Said(s, Recorded[s]) = Recorded[s]
                             /\ s \in DOMAIN file => file[s] = Recorded[s]
    BY DEF TrailKnows, PanelKnows, Said
  <2>3. /\ Said("deploy", row.deploy) = row.deploy
        /\ Said("packet", Prepared(row.packet)) = Prepared(row.packet)
        /\ Said("staging", row.staging) = row.staging
        /\ Said("prodReady", row.prodReady) = row.prodReady
        /\ Said("prodPacket", Prepared(row.prodPacket)) = Prepared(row.prodPacket)
        /\ Said("production", row.production) = row.production
        /\ Said("completion", row.completion) = row.completion
        /\ Said("closeout", Prepared(row.closed)) = Prepared(row.closed)
    BY <2>2 DEF StepNames, Recorded
  <2>4. file = [deploy |-> row.deploy, staging |-> row.staging, prodReady |-> row.prodReady,
                production |-> row.production, completion |-> row.completion]
    BY <2>1, <2>2 DEF Files, StepNames, Recorded
  <2> QED
    BY <2>3, <2>4
      DEF PanelSaysWhatIsRecorded, DeployReadinessSection, PacketSection, StagingSection,
          ProductionReadinessSection, ProductionPacketSection, ProductionSection,
          CompletionSection, CloseoutSection
<1> QED
  BY <1>1, TrailAlways, PTL

=============================================================================
