------------------------- MODULE RunLifecycleProofs -------------------------
(***************************************************************************)
(* Proofs about RunLifecycle for every number of runs, handlers, requests  *)
(* and crashes: what completes a run, what an approval in flight relies on,*)
(* what a death among the writes of a step leaves and what it may not      *)
(* leave, what the run page may offer; and of SpecOnePerRun, in which no   *)
(* two requests on one run overlap, that a run that waits passed its gates,*)
(* was reviewed when it is approved, is shown by its bundle and mirrored   *)
(* by its task.                                                            *)
(***************************************************************************)
EXTENDS RunPage, FiniteSetTheorems, TLAPS

-----------------------------------------------------------------------------
(* What the rules and the writes do to the rows of a run *)

(* The fields that most of them leave alone. *)
Alike(row, new) ==
  /\ new.status = row.status /\ new.risk = row.risk /\ new.gates = row.gates
  /\ new.report = row.report /\ new.replay = row.replay /\ new.plan = row.plan
  /\ new.decisions = row.decisions

(* Every change set has a risk. *)
LEMMA RiskType == ASSUME NEW files PROVE RiskOf(files) \in Risks \ {"none"}
BY DEF RiskOf, Risks

LEMMA EvaluateRow ==
  ASSUME NEW row \in Rows
  PROVE  /\ Evaluate(row) \in Rows /\ Alike(row, Evaluate(row))
         /\ Evaluate(row).stage = row.stage /\ Evaluate(row).evidence = row.evidence
         /\ Evaluate(row).policy.status = PolicyStatus(row)
         /\ Evaluate(row).policy.status # "none"
         /\ Evaluate(row).owed = row.owed \ {"policy"}
<1> DEFINE p == [status |-> PolicyStatus(row), migration |-> "migration" \in row.report.files]
           o == row.owed \ {"policy"}
<1>1. PolicyStatus(row) \in {"passed", "warning", "requires_review", "blocked"}
  BY DEF PolicyStatus
<1>2. p \in Policies /\ p.status = PolicyStatus(row) /\ p.status # "none"
  BY <1>1 DEF Policies
<1>3. o \in SUBSET Writes
  BY DEF Rows
<1>4. Evaluate(row) = [row EXCEPT !.policy = p, !.owed = o]
  BY DEF Evaluate
<1> HIDE DEF p, o
<1>5. Evaluate(row) \in Rows
  BY <1>2, <1>3, <1>4 DEF Rows
<1>6. Evaluate(row).policy = p /\ Evaluate(row).owed = o
  BY <1>4 DEF Rows
<1>7. /\ Alike(row, Evaluate(row))
      /\ Evaluate(row).stage = row.stage /\ Evaluate(row).evidence = row.evidence
  BY <1>4 DEF Rows, Alike
<1> QED BY <1>2, <1>5, <1>6, <1>7 DEF o

LEMMA ReconcileRow ==
  ASSUME NEW row \in Rows, NEW some
  PROVE  LET new == ReconcileOnly(row, some) IN
         /\ new \in Rows /\ Alike(row, new)
         /\ new.evidence = row.evidence /\ new.policy = row.policy
         /\ new.owed = row.owed
         /\ \A s \in Stages : row.stage[s] # "absent" => new.stage[s] = row.stage[s]
BY DEF ReconcileOnly, Rows, StageStates, Alike

LEMMA SnapshotType ==
  ASSUME NEW row \in Rows PROVE SnapshotOf(row) \in Snapshots
BY DEF SnapshotOf, Snapshots, Rows

LEMMA UpsertRow ==
  ASSUME NEW row \in Rows, NEW was \in Snapshots
  PROVE  LET new == Upsert(row, was) IN
         /\ new \in Rows /\ Alike(row, new)
         /\ new.stage = row.stage /\ new.policy = row.policy
         /\ new.evidence.present /\ new.evidence.status = was.status
         /\ new.owed = row.owed \ {"evidence"}
<1>1. BundleRisk(row, was) \in Risks
  BY RiskType DEF BundleRisk, Snapshots
<1>2. Upsert(row, was) \in Rows
  BY <1>1 DEF Upsert, Rows, Bundles, Snapshots
<1> QED BY <1>2 DEF Upsert, Rows, Alike

LEMMA OwingRow ==
  ASSUME NEW row \in Rows, NEW writes \in SUBSET Writes
  PROVE  LET new == Owing(row, writes) IN
         /\ new \in Rows /\ Alike(row, new)
         /\ new.stage = row.stage /\ new.policy = row.policy
         /\ new.evidence = row.evidence
         /\ new.owed = row.owed \cup writes
BY DEF Owing, Rows, Alike

LEMMA ToldRow ==
  ASSUME NEW row \in Rows
  PROVE  /\ TaskTold(row) \in Rows /\ Alike(row, TaskTold(row))
         /\ TaskTold(row).stage = row.stage /\ TaskTold(row).policy = row.policy
         /\ TaskTold(row).evidence = row.evidence
         /\ TaskTold(row).owed = row.owed \ {"task"}
BY DEF TaskTold, Rows, Alike

(* The status of a run, and of its plan, told on the way. *)
LEMMA StatusRow ==
  ASSUME NEW row \in Rows, NEW st \in RunStatus, NEW plan \in Plans
  PROVE  /\ LET new == [row EXCEPT !.status = st] IN
            /\ new \in Rows /\ new.status = st /\ new.plan = row.plan
            /\ new.risk = row.risk /\ new.gates = row.gates /\ new.report = row.report
            /\ new.replay = row.replay /\ new.decisions = row.decisions
            /\ new.stage = row.stage /\ new.policy = row.policy
            /\ new.evidence = row.evidence /\ new.owed = row.owed
         /\ LET new == [row EXCEPT !.status = st, !.plan = plan] IN
            /\ new \in Rows /\ new.status = st /\ new.plan = plan
            /\ new.risk = row.risk /\ new.gates = row.gates /\ new.report = row.report
            /\ new.replay = row.replay /\ new.decisions = row.decisions
            /\ new.stage = row.stage /\ new.policy = row.policy
            /\ new.evidence = row.evidence /\ new.owed = row.owed
BY DEF Rows

LEMMA AddGatesType ==
  ASSUME NEW g \in Gates, NEW result \in Outcomes
  PROVE  /\ AddGates(g, result) \in Gates
         /\ g.failed = 0 => AddGates(g, result).failed = result.failed
         /\ result.failed \in Nat
BY OutcomeAssumption DEF AddGates, Gates, GateOutcomes, NoGates

(* The first writes of the block a pipeline ends in: gates, ... *)
LEMMA GatedRow ==
  ASSUME NEW row \in Rows, NEW result \in Outcomes
  PROVE  LET new == SaveGates(row, result) IN
         /\ new \in Rows /\ new.gates = AddGates(row.gates, result)
         /\ new.status = row.status /\ new.risk = row.risk /\ new.report = row.report
         /\ new.replay = row.replay /\ new.plan = row.plan
         /\ new.decisions = row.decisions /\ new.stage = row.stage
         /\ new.policy = row.policy /\ new.evidence = row.evidence
         /\ new.owed = row.owed
<1>1. AddGates(row.gates, result) \in Gates
  BY AddGatesType DEF Rows
<1> QED BY <1>1 DEF SaveGates, Rows

(* ... status and risk, ... *)
LEMMA SavedRow ==
  ASSUME NEW row \in Rows, NEW files \in SUBSET FileKinds, NEW result \in Outcomes
  PROVE  LET new == SaveStatus(row, files, result) IN
         /\ new \in Rows /\ new.status = FinalStatus(files, result)
         /\ new.status \in {"failed", "waiting_for_approval"}
         /\ new.status = "waiting_for_approval" => result.failed = 0 /\ new.risk # "blocked"
         /\ new.risk = RiskOf(files) /\ new.gates = row.gates /\ new.report = row.report
         /\ new.replay = row.replay /\ new.plan = row.plan
         /\ new.decisions = row.decisions /\ new.stage = row.stage
         /\ new.policy = row.policy /\ new.evidence = row.evidence
         /\ new.owed = row.owed
<1>1. FinalStatus(files, result) \in RunStatus
  BY DEF FinalStatus, RunStatus
<1>2. /\ FinalStatus(files, result) \in {"failed", "waiting_for_approval"}
      /\ FinalStatus(files, result) = "waiting_for_approval" =>
           result.failed = 0 /\ RiskOf(files) # "blocked"
  <2>1. result.failed \in Nat
    BY OutcomeAssumption DEF GateOutcomes, NoGates
  <2> QED BY <2>1 DEF FinalStatus
<1>3. LET new == SaveStatus(row, files, result) IN
      /\ new.status = FinalStatus(files, result) /\ new.risk = RiskOf(files)
      /\ new.gates = row.gates /\ new.report = row.report
      /\ new.replay = row.replay /\ new.plan = row.plan
      /\ new.decisions = row.decisions /\ new.stage = row.stage
      /\ new.policy = row.policy /\ new.evidence = row.evidence
      /\ new.owed = row.owed
  BY DEF SaveStatus, Rows
<1>4. SaveStatus(row, files, result) \in Rows
  BY <1>1, RiskType DEF SaveStatus, Rows
<1> QED BY <1>2, <1>3, <1>4

(* ... and the report. *)
LEMMA ReportedRow ==
  ASSUME NEW row \in Rows, NEW files \in SUBSET FileKinds, NEW result \in Outcomes
  PROVE  LET new == Reported(row, files, result) IN
         /\ new \in Rows /\ new.status = FinalStatus(files, result)
         /\ new.status \in {"failed", "waiting_for_approval"}
         /\ new.report.made /\ (new.report.can => new.gates.failed = 0)
         /\ row.gates.failed = 0 /\ new.status = "waiting_for_approval" =>
              new.gates.failed = 0 /\ new.risk # "blocked" /\ new.report.can
         /\ new.replay = row.replay /\ new.plan = row.plan
         /\ new.decisions = row.decisions /\ new.stage = row.stage
         /\ new.policy = row.policy /\ new.evidence = row.evidence
         /\ new.owed = row.owed \ {"report"}
<1> DEFINE gated == SaveGates(row, result)
           saved == SaveStatus(gated, files, result)
           rep   == ReportOf(files, saved.status, saved.gates)
           o     == saved.owed \ {"report"}
<1>1. /\ gated \in Rows /\ gated.gates = AddGates(row.gates, result)
      /\ gated.replay = row.replay /\ gated.plan = row.plan
      /\ gated.decisions = row.decisions /\ gated.stage = row.stage
      /\ gated.policy = row.policy /\ gated.evidence = row.evidence
      /\ gated.owed = row.owed
  BY GatedRow
<1> HIDE DEF gated
<1>2. /\ saved \in Rows /\ saved.status = FinalStatus(files, result)
      /\ saved.status \in {"failed", "waiting_for_approval"}
      /\ saved.status = "waiting_for_approval" => result.failed = 0 /\ saved.risk # "blocked"
      /\ saved.risk = RiskOf(files) /\ saved.gates = gated.gates
      /\ saved.replay = gated.replay /\ saved.plan = gated.plan
      /\ saved.decisions = gated.decisions /\ saved.stage = gated.stage
      /\ saved.policy = gated.policy /\ saved.evidence = gated.evidence
      /\ saved.owed = gated.owed
  BY <1>1, SavedRow
<1>3. row.gates.failed = 0 => saved.gates.failed = result.failed
  BY <1>1, <1>2, AddGatesType DEF Rows
<1> HIDE DEF saved
<1>4. /\ rep \in Reports /\ rep.made
      /\ rep.can = (RiskOf(files) # "blocked" /\ saved.gates.failed = 0
                      /\ saved.status = "waiting_for_approval")
  BY DEF ReportOf, Reports
<1>5. o \in SUBSET Writes
  BY <1>2 DEF Rows
<1>6. Reported(row, files, result) = [saved EXCEPT !.report = rep, !.owed = o]
  BY DEF Reported, SaveReport, saved, gated
<1> HIDE DEF rep, o
<1>7. Reported(row, files, result) \in Rows
  BY <1>2, <1>4, <1>5, <1>6 DEF Rows
<1>8. LET new == Reported(row, files, result) IN
      /\ new.report = rep /\ new.owed = o /\ new.status = saved.status
      /\ new.risk = saved.risk /\ new.gates = saved.gates
      /\ new.replay = saved.replay /\ new.plan = saved.plan
      /\ new.decisions = saved.decisions /\ new.stage = saved.stage
      /\ new.policy = saved.policy /\ new.evidence = saved.evidence
  BY <1>2, <1>6 DEF Rows
<1> QED BY <1>1, <1>2, <1>3, <1>4, <1>7, <1>8 DEF o

(* What the policy adds to a reported row, and the rest of the block. *)
LEMMA JudgedRow ==
  ASSUME NEW row \in Rows, NEW files \in SUBSET FileKinds, NEW result \in Outcomes
  PROVE  LET new == Evaluate(Reported(row, files, result)) IN
         /\ new \in Rows /\ Alike(Reported(row, files, result), new)
         /\ new.policy.status # "none" /\ new.evidence = row.evidence
         /\ new.stage = row.stage
         /\ new.owed = row.owed \ {"report", "policy"}
<1> DEFINE reported == Reported(row, files, result)
<1>1. /\ reported \in Rows /\ reported.evidence = row.evidence
      /\ reported.stage = row.stage /\ reported.owed = row.owed \ {"report"}
  BY ReportedRow
<1> HIDE DEF reported
<1>2. LET new == Evaluate(reported) IN
      /\ new \in Rows /\ Alike(reported, new) /\ new.policy.status # "none"
      /\ new.evidence = row.evidence /\ new.stage = row.stage
      /\ new.owed = row.owed \ {"report", "policy"}
  BY <1>1, EvaluateRow
<1> QED BY <1>2 DEF reported

LEMMA FinalizeRow ==
  ASSUME NEW row \in Rows, NEW files \in SUBSET FileKinds, NEW result \in Outcomes
  PROVE  LET new == Finalize(row, files, result) IN
         /\ new \in Rows /\ Alike(Reported(row, files, result), new)
         /\ new.policy.status # "none" /\ new.evidence.present
         /\ new.owed = row.owed \ Writes
         /\ \A s \in Stages : row.stage[s] # "absent" => new.stage[s] = row.stage[s]
<1> DEFINE reported == Reported(row, files, result)
           judged == Evaluate(reported)
           staged == ReconcileOnly(judged, Stages)
           final == Upsert(staged, SnapshotOf(staged))
<1>0. Finalize(row, files, result) = TaskTold(final)
  BY DEF Finalize, Reconcile
<1>1. /\ judged \in Rows /\ Alike(reported, judged)
      /\ judged.policy.status # "none"
      /\ judged.stage = row.stage
      /\ judged.owed = row.owed \ {"report", "policy"}
  BY JudgedRow
<1> HIDE DEF judged
<1>2. /\ staged \in Rows /\ Alike(judged, staged)
      /\ staged.policy = judged.policy /\ staged.owed = judged.owed
      /\ \A s \in Stages : judged.stage[s] # "absent" => staged.stage[s] = judged.stage[s]
  BY <1>1, ReconcileRow
<1> HIDE DEF staged
<1>3. /\ final \in Rows /\ Alike(staged, final) /\ final.stage = staged.stage
      /\ final.policy = staged.policy /\ final.evidence.present
      /\ final.owed = staged.owed \ {"evidence"}
  BY <1>2, SnapshotType, UpsertRow
<1> HIDE DEF final
<1>4. /\ TaskTold(final) \in Rows /\ Alike(final, TaskTold(final))
      /\ TaskTold(final).stage = final.stage /\ TaskTold(final).policy = final.policy
      /\ TaskTold(final).evidence = final.evidence
      /\ TaskTold(final).owed = final.owed \ {"task"}
  BY <1>3, ToldRow
<1>5. Alike(reported, TaskTold(final))
  BY <1>1, <1>2, <1>3, <1>4 DEF Alike
<1>6. TaskTold(final).owed = row.owed \ Writes
  BY <1>1, <1>2, <1>3, <1>4 DEF Writes
<1> HIDE DEF reported
<1>7. LET new == TaskTold(final) IN
      /\ new \in Rows /\ Alike(reported, new)
      /\ new.policy.status # "none" /\ new.evidence.present
      /\ new.owed = row.owed \ Writes
      /\ \A s \in Stages : row.stage[s] # "absent" => new.stage[s] = row.stage[s]
  BY <1>1, <1>2, <1>3, <1>4, <1>5, <1>6
<1> QED BY <1>0, <1>7 DEF reported

Record(row, action, seen) ==
  [action |-> action, can |-> row.report.can, existing |-> Existing(row),
   unreviewed |-> Unapproved(row), seen |-> seen]

LEMMA RecordType ==
  ASSUME NEW row \in Rows, NEW action \in Actions, NEW seen \in SUBSET Stages
  PROVE  /\ Record(row, action, seen) \in Decisions
         /\ Record(row, action, seen).action = action
         /\ Record(row, action, seen).seen = seen
         /\ Record(row, action, seen).unreviewed = Unapproved(row)
BY DEF Record, Decisions, Rows, Reports, Existing, Unapproved

LEMMA DecideRow ==
  ASSUME NEW row \in Rows, NEW action \in Actions, NEW seen \in SUBSET Stages
  PROVE  LET new == Decide(row, action, seen) IN
         /\ new \in Rows
         /\ new.status = row.status /\ new.risk = row.risk /\ new.gates = row.gates
         /\ new.report = row.report /\ new.replay = row.replay /\ new.plan = row.plan
         /\ new.stage = row.stage /\ new.policy = row.policy /\ new.owed = row.owed
         /\ new.evidence.present = row.evidence.present
         /\ new.evidence.status = row.evidence.status
         /\ new.decisions = Append(row.decisions, Record(row, action, seen))
<1> DEFINE d == Record(row, action, seen)
<1>1. d \in Decisions
  BY RecordType
<1>2. Append(row.decisions, d) \in Seq(Decisions)
  BY <1>1 DEF Rows
<1>3. /\ [row.evidence EXCEPT !.late = FALSE] \in Bundles
      /\ [row.evidence EXCEPT !.late = FALSE].present = row.evidence.present
      /\ [row.evidence EXCEPT !.late = FALSE].status = row.evidence.status
  BY DEF Rows, Bundles
<1> HIDE DEF d
<1>4. Decide(row, action, seen) =
        [row EXCEPT !.decisions = Append(row.decisions, d),
                    !.evidence = [row.evidence EXCEPT !.late = FALSE]]
  BY DEF Decide, d, Record, Rows
<1>5. Decide(row, action, seen) \in Rows
  BY <1>2, <1>3, <1>4 DEF Rows
<1>6. LET new == Decide(row, action, seen) IN
      /\ new.status = row.status /\ new.risk = row.risk /\ new.gates = row.gates
      /\ new.report = row.report /\ new.replay = row.replay /\ new.plan = row.plan
      /\ new.stage = row.stage /\ new.policy = row.policy /\ new.owed = row.owed
      /\ new.evidence = [row.evidence EXCEPT !.late = FALSE]
      /\ new.decisions = Append(row.decisions, d)
  BY <1>4 DEF Rows
<1> QED BY <1>1, <1>3, <1>5, <1>6 DEF d

LEMMA ReplayRow ==
  ASSUME NEW row \in Rows
  PROVE  LET new == [row EXCEPT !.replay = ReplayStatus(row)] IN
         /\ new \in Rows /\ new.status = row.status /\ new.risk = row.risk
         /\ new.gates = row.gates /\ new.report = row.report /\ new.plan = row.plan
         /\ new.decisions = row.decisions /\ new.stage = row.stage
         /\ new.policy = row.policy /\ new.evidence = row.evidence
         /\ new.owed = row.owed
BY DEF ReplayStatus, Rows

-----------------------------------------------------------------------------
(* Type correctness *)

LEMMA IdleType == Idle \in HandlerStates
BY DEF Idle, HandlerStates, Snapshots, RunStatus, Risks, Actions

LEMMA EmptyRowType == EmptyRow \in Rows
<1>1. EmptyRow.gates \in Gates BY DEF EmptyRow, NoGates, Gates
<1>2. EmptyRow.evidence \in Bundles
  BY DEF EmptyRow, NoGates, Gates, Bundles, RunStatus, Risks
<1>3. EmptyRow.policy \in Policies /\ EmptyRow.plan \in Plans /\ EmptyRow.report \in Reports
  BY DEF EmptyRow, Policies, Plans, Reports
<1>4. EmptyRow.decisions \in Seq(Decisions)
  BY DEF EmptyRow
<1> QED BY <1>1, <1>2, <1>3, <1>4 DEF EmptyRow, Rows, RunStatus, Risks, StageStates, Writes

(* A handler that waits waits for a run that exists in the database. *)
LEMMA WaitingRow ==
  ASSUME TypeOK, NEW h \in Handlers, handler[h].pc # "idle"
  PROVE  /\ handler[h].run \in Runs
         /\ RowOf(h) \in Rows
         /\ handler[h] \in HandlerStates
BY DEF TypeOK, HandlerStates, RowOf

LEMMA RowUpdate ==
  ASSUME TypeOK, NEW r \in Runs, NEW row \in Rows, db' = [db EXCEPT ![r] = row]
  PROVE  db' \in [Runs -> Rows]
BY DEF TypeOK

LEMMA TaskUpdate ==
  ASSUME TypeOK, NEW r \in Runs, NEW st \in TaskStatus, SetTask(r, st)
  PROVE  task' \in [Tasks -> TaskStatus]
BY RunAssumption DEF TypeOK, SetTask

LEMMA HandlerUpdate ==
  ASSUME TypeOK, NEW h \in Handlers, NEW x \in HandlerStates,
         x.run = None <=> x.pc = "idle",
         handler' = [handler EXCEPT ![h] = x]
  PROVE  /\ handler' \in [Handlers -> HandlerStates]
         /\ \A g \in Handlers : handler'[g].run = None <=> handler'[g].pc = "idle"
BY DEF TypeOK

Pcs == {"idle", "verify_git", "create_branch", "changed_files", "plan_git",
        "plan_changed_files", "quality_gates", "action_refresh", "decided", "refresh"}

LEMMA OpenType ==
  ASSUME TypeOK, NEW h \in Handlers, NEW r \in Runs, NEW pc \in Pcs \ {"idle"},
         NEW row \in Rows, NEW fields \in HandlerStates,
         Open(h, r, pc, row, fields), task' \in [Tasks -> TaskStatus]
  PROVE  TypeOK'
<1> DEFINE x == [fields EXCEPT !.pc = pc, !.run = r, !.was = SnapshotOf(row)]
<1>1. x \in HandlerStates
  BY SnapshotType DEF HandlerStates, Pcs
<1>2. x.run # None /\ x.pc # "idle"
  BY RunAssumption DEF HandlerStates, Pcs
<1>3. handler' = [handler EXCEPT ![h] = x]
  BY DEF Open
<1> HIDE DEF x
<1>4. /\ handler' \in [Handlers -> HandlerStates]
      /\ \A g \in Handlers : handler'[g].run = None <=> handler'[g].pc = "idle"
  BY <1>1, <1>2, <1>3, HandlerUpdate
<1>5. db' \in [Runs -> Rows]
  BY RowUpdate DEF Open
<1>6. requests' \in 0..MaxRequests /\ tree' \in Trees /\ crashes' \in 0..MaxCrashes
  BY BoundAssumption DEF Open, Arrive, TypeOK
<1> QED BY <1>4, <1>5, <1>6 DEF TypeOK

LEMMA GotoType ==
  ASSUME TypeOK, NEW h \in Handlers, handler[h].pc # "idle",
         NEW pc \in Pcs \ {"idle"}, NEW files \in SUBSET FileKinds,
         handler' = [handler EXCEPT ![h].pc = pc, ![h].files = files]
           \/ handler' = [handler EXCEPT ![h].pc = pc]
  PROVE  /\ handler' \in [Handlers -> HandlerStates]
         /\ \A g \in Handlers : handler'[g].run = None <=> handler'[g].pc = "idle"
<1> DEFINE x == [handler[h] EXCEPT !.pc = pc, !.files = files]
           y == [handler[h] EXCEPT !.pc = pc]
<1>1. handler[h] \in HandlerStates /\ handler[h].run # None
  BY WaitingRow, RunAssumption
<1>2. x \in HandlerStates /\ x.run # None /\ x.pc # "idle"
  BY <1>1 DEF HandlerStates, Pcs
<1>3. y \in HandlerStates /\ y.run # None /\ y.pc # "idle"
  BY <1>1 DEF HandlerStates, Pcs
<1>4. handler' = [handler EXCEPT ![h] = x] \/ handler' = [handler EXCEPT ![h] = y]
  OBVIOUS
<1> HIDE DEF x, y
<1> QED BY <1>2, <1>3, <1>4, HandlerUpdate

LEMMA ReturnType ==
  ASSUME TypeOK, NEW h \in Handlers, Return(h)
  PROVE  /\ handler' \in [Handlers -> HandlerStates]
         /\ \A g \in Handlers : handler'[g].run = None <=> handler'[g].pc = "idle"
<1>1. Idle.run = None /\ Idle.pc = "idle"
  BY DEF Idle
<1> QED BY <1>1, IdleType, HandlerUpdate DEF Return

LEMMA AwaitRefreshType ==
  ASSUME TypeOK, NEW h \in Handlers, handler[h].pc # "idle",
         NEW row \in Rows, AwaitRefresh(h, row)
  PROVE  /\ handler' \in [Handlers -> HandlerStates]
         /\ \A g \in Handlers : handler'[g].run = None <=> handler'[g].pc = "idle"
<1> DEFINE x == [Idle EXCEPT !.pc = "refresh", !.run = handler[h].run,
                             !.was = SnapshotOf(row)]
<1>1. x \in HandlerStates /\ x.pc # "idle" /\ x.run # None
  BY WaitingRow, IdleType, SnapshotType, RunAssumption DEF HandlerStates
<1>2. handler' = [handler EXCEPT ![h] = x]
  BY DEF AwaitRefresh
<1> HIDE DEF x
<1> QED BY <1>1, <1>2, HandlerUpdate

-----------------------------------------------------------------------------
(* Every action keeps the types *)

LEMMA InitType == ASSUME Init PROVE TypeOK
<1>1. tree \in Trees
  BY TreeAssumption DEF Init, Trees
<1>2. requests \in 0..MaxRequests /\ crashes \in 0..MaxCrashes
  BY BoundAssumption DEF Init
<1>3. Idle.run = None /\ Idle.pc = "idle"
  BY DEF Idle
<1> QED BY <1>1, <1>2, <1>3, IdleType, EmptyRowType DEF Init, TypeOK, TaskStatus

LEMMA FailedRow ==
  ASSUME NEW row \in Rows, NEW st \in RunStatus
  PROVE  LET new == TaskTold([row EXCEPT !.status = st]) IN
         /\ new \in Rows /\ new.status = st /\ new.plan = row.plan
         /\ new.risk = row.risk /\ new.gates = row.gates /\ new.report = row.report
         /\ new.replay = row.replay /\ new.decisions = row.decisions
         /\ new.stage = row.stage /\ new.policy = row.policy
         /\ new.evidence = row.evidence /\ new.owed = row.owed \ {"task"}
BY DEF TaskTold, Rows

LEMMA PipelineType ==
  ASSUME TypeOK, NEW h \in Handlers,
         CreateBranch(h) \/ ApplyPatch(h) \/ AssessChanges(h)
           \/ FinishPipeline(h) \/ FailRun(h)
  PROVE  TypeOK'
<1>0. handler[h].pc # "idle"
  BY DEF CreateBranch, ApplyPatch, AssessChanges, FinishPipeline, FailRun, At
<1>a. handler[h].run \in Runs /\ RowOf(h) \in Rows /\ handler[h].files \in SUBSET FileKinds
  BY <1>0, WaitingRow DEF HandlerStates
<1>1. CASE CreateBranch(h)
  <2>1. [RowOf(h) EXCEPT !.status = "creating_branch", !.branch = TRUE] \in Rows
    BY <1>a DEF Rows, RunStatus, Working
  <2>2. db' \in [Runs -> Rows]
    BY <1>1, <1>a, <2>1, RowUpdate DEF CreateBranch, SetRow
  <2>3. /\ handler' \in [Handlers -> HandlerStates]
        /\ \A g \in Handlers : handler'[g].run = None <=> handler'[g].pc = "idle"
    BY <1>0, <1>1, <1>a, GotoType DEF CreateBranch, Goto, Pcs
  <2> QED BY <1>1, <2>2, <2>3 DEF TypeOK, CreateBranch
<1>2. CASE ApplyPatch(h)
  <2>1. [RowOf(h) EXCEPT !.status = "applying_patch"] \in Rows
    BY <1>a DEF Rows, RunStatus, Working
  <2>2. db' \in [Runs -> Rows]
    BY <1>2, <1>a, <2>1, RowUpdate DEF ApplyPatch, SetRow
  <2>3. /\ handler' \in [Handlers -> HandlerStates]
        /\ \A g \in Handlers : handler'[g].run = None <=> handler'[g].pc = "idle"
    BY <1>0, <1>2, <1>a, GotoType DEF ApplyPatch, Goto, Pcs
  <2> QED BY <1>2, <2>2, <2>3 DEF TypeOK, ApplyPatch
<1>3. CASE AssessChanges(h)
  <2> DEFINE files == tree.tracked \cup tree.untracked
  <2>0. files \in SUBSET FileKinds
    BY DEF TypeOK, Trees
  <2>1. [RowOf(h) EXCEPT !.status = "running_quality_gates", !.risk = RiskOf(files)] \in Rows
    BY <1>a, RiskType DEF Rows, RunStatus, Working
  <2>2. db' \in [Runs -> Rows]
    BY <1>3, <1>a, <2>1, RowUpdate DEF AssessChanges, SetRow
  <2>3. /\ handler' \in [Handlers -> HandlerStates]
        /\ \A g \in Handlers : handler'[g].run = None <=> handler'[g].pc = "idle"
    BY <1>0, <1>3, <2>0, GotoType DEF AssessChanges, Pcs
  <2> QED BY <1>3, <2>2, <2>3 DEF TypeOK, AssessChanges
<1>4. CASE FinishPipeline(h)
  <2> PICK result \in Outcomes :
         /\ SetRow(h, Finalize(RowOf(h), handler[h].files, result))
         /\ SetTask(handler[h].run, FinalStatus(handler[h].files, result))
    BY <1>4 DEF FinishPipeline
  <2>1. Finalize(RowOf(h), handler[h].files, result) \in Rows
    BY <1>a, FinalizeRow
  <2>2. db' \in [Runs -> Rows]
    BY <1>a, <2>1, RowUpdate DEF SetRow
  <2>3. FinalStatus(handler[h].files, result) \in TaskStatus
    BY DEF FinalStatus, TaskStatus
  <2>4. task' \in [Tasks -> TaskStatus]
    BY <1>a, <2>3, TaskUpdate
  <2>5. /\ handler' \in [Handlers -> HandlerStates]
        /\ \A g \in Handlers : handler'[g].run = None <=> handler'[g].pc = "idle"
    BY <1>4, ReturnType DEF FinishPipeline
  <2> QED BY <1>4, <2>2, <2>4, <2>5 DEF TypeOK, FinishPipeline
<1>5. CASE FailRun(h)
  <2>1. TaskTold([RowOf(h) EXCEPT !.status = "failed"]) \in Rows
    BY <1>a, FailedRow DEF RunStatus
  <2>2. db' \in [Runs -> Rows]
    BY <1>5, <1>a, <2>1, RowUpdate DEF FailRun, SetRow
  <2>3. task' \in [Tasks -> TaskStatus]
    BY <1>5, <1>a, TaskUpdate DEF FailRun, TaskStatus
  <2>4. /\ handler' \in [Handlers -> HandlerStates]
        /\ \A g \in Handlers : handler'[g].run = None <=> handler'[g].pc = "idle"
    BY <1>5, ReturnType DEF FailRun
  <2> QED BY <1>5, <2>2, <2>3, <2>4 DEF TypeOK, FailRun
<1> QED BY <1>1, <1>2, <1>3, <1>4, <1>5

(* The trees that a plan, whole or in part, leaves behind. *)
LEMMA TreeType ==
  ASSUME TypeOK
  PROVE  /\ \A f \in PlanFiles : TreesWith(f) \subseteq Trees
         /\ PartialTrees \subseteq Trees
<1>1. ASSUME NEW f \in PlanFiles PROVE TreesWith(f) \subseteq Trees
  BY TreeAssumption DEF TreesWith, Trees, TypeOK
<1> QED BY <1>1 DEF PartialTrees, TypeOK

(* A run that has failed, over a plan or not. *)
LEMMA FailedPlansType == FailedPlans \subseteq Plans
BY DEF FailedPlans, Plans

LEMMA PlanRow ==
  ASSUME NEW row \in Rows, NEW st \in RunStatus, NEW plan \in Plans
  PROVE  LET new == TaskTold([row EXCEPT !.status = st, !.plan = plan]) IN
         /\ new \in Rows /\ new.status = st /\ new.plan = plan
         /\ new.risk = row.risk /\ new.gates = row.gates /\ new.report = row.report
         /\ new.replay = row.replay /\ new.decisions = row.decisions
         /\ new.stage = row.stage /\ new.policy = row.policy
         /\ new.evidence = row.evidence /\ new.owed = row.owed \ {"task"}
BY DEF TaskTold, Rows

LEMMA PlanType ==
  ASSUME TypeOK, NEW h \in Handlers,
         FailPlan(h) \/ ExecutePlan(h) \/ AssessPlanChanges(h)
           \/ AbandonPlan(h) \/ BreakPlan(h)
  PROVE  TypeOK'
<1>0. handler[h].pc # "idle"
  BY DEF FailPlan, ExecutePlan, AssessPlanChanges, AbandonPlan, BreakPlan, At
<1>a. handler[h].run \in Runs /\ RowOf(h) \in Rows /\ handler[h].files \in SUBSET FileKinds
  BY <1>0, WaitingRow DEF HandlerStates
<1>1. CASE FailPlan(h)
  <2> PICK plan \in FailedPlans :
         /\ tree' \in TreesAfter(plan)
         /\ SetRow(h, Reconcile(Evaluate(PlanFailed(RowOf(h), plan))))
         /\ AwaitRefresh(h, Reconcile(Evaluate(PlanFailed(RowOf(h), plan))))
    BY <1>1 DEF FailPlan
  <2> DEFINE failed == PlanFailed(RowOf(h), plan)
             row == Reconcile(Evaluate(failed))
  <2>1. plan \in Plans
    BY FailedPlansType
  <2>2. failed \in Rows
    BY <1>a, <2>1, PlanRow DEF PlanFailed, RunStatus
  <2>4. SetRow(h, row) /\ AwaitRefresh(h, row)
    OBVIOUS
  <2> HIDE DEF failed
  <2>3. row \in Rows
    BY <2>2, EvaluateRow, ReconcileRow DEF Reconcile
  <2> HIDE DEF row
  <2>5. db' \in [Runs -> Rows]
    BY <1>a, <2>3, <2>4, RowUpdate DEF SetRow
  <2>6. /\ handler' \in [Handlers -> HandlerStates]
        /\ \A g \in Handlers : handler'[g].run = None <=> handler'[g].pc = "idle"
    BY <1>0, <2>3, <2>4, AwaitRefreshType
  <2>7. tree' \in Trees
    BY TreeType DEF TypeOK, TreesAfter
  <2>8. task' \in [Tasks -> TaskStatus]
    BY <1>1, <1>a, TaskUpdate DEF FailPlan, TaskStatus
  <2> QED BY <1>1, <2>5, <2>6, <2>7, <2>8 DEF TypeOK, FailPlan
<1>2. CASE ExecutePlan(h)
  <2> PICK f \in PlanFiles :
         /\ tree' \in TreesWith(f)
         /\ handler' = [handler EXCEPT ![h].pc = "plan_changed_files", ![h].files = {f}]
    BY <1>2 DEF ExecutePlan
  <2>1. TaskTold([RowOf(h) EXCEPT !.status = "running_quality_gates",
           !.plan = [validation |-> "valid", execution |-> "executed"]]) \in Rows
    BY <1>a, PlanRow DEF RunStatus, Working, Plans
  <2>2. db' \in [Runs -> Rows]
    BY <1>2, <1>a, <2>1, RowUpdate DEF ExecutePlan, SetRow
  <2>3. /\ handler' \in [Handlers -> HandlerStates]
        /\ \A g \in Handlers : handler'[g].run = None <=> handler'[g].pc = "idle"
    <3>1. {f} \in SUBSET FileKinds
      BY TreeAssumption
    <3> QED BY <1>0, <3>1, GotoType DEF Pcs
  <2>4. tree' \in Trees
    BY TreeType
  <2>5. task' \in [Tasks -> TaskStatus]
    BY <1>2, <1>a, TaskUpdate DEF ExecutePlan, TaskStatus
  <2> QED BY <1>2, <2>2, <2>3, <2>4, <2>5 DEF TypeOK, ExecutePlan
<1>3. CASE AssessPlanChanges(h)
  <2>1. [RowOf(h) EXCEPT !.gates = NoGates] \in Rows
    BY <1>a DEF Rows, NoGates, Gates
  <2>2. db' \in [Runs -> Rows]
    BY <1>3, <1>a, <2>1, RowUpdate DEF AssessPlanChanges, SetRow
  <2>3. handler[h].files \cup tree.tracked \in SUBSET FileKinds
    BY <1>a DEF TypeOK, Trees
  <2>4. handler' = [handler EXCEPT ![h].pc = "quality_gates",
                                   ![h].files = handler[h].files \cup tree.tracked]
    BY <1>3 DEF AssessPlanChanges
  <2>5. /\ handler' \in [Handlers -> HandlerStates]
        /\ \A g \in Handlers : handler'[g].run = None <=> handler'[g].pc = "idle"
    BY <1>0, <2>3, <2>4, GotoType DEF Pcs
  <2> QED BY <1>3, <2>2, <2>5 DEF TypeOK, AssessPlanChanges
<1>4. CASE AbandonPlan(h)
  BY <1>4, ReturnType DEF AbandonPlan, TypeOK
<1>5. CASE BreakPlan(h)
  <2>1. TaskTold([RowOf(h) EXCEPT !.status = "executing_worker_plan",
           !.plan = [validation |-> "valid", execution |-> "pending"]]) \in Rows
    BY <1>a, PlanRow DEF RunStatus, Working, Plans
  <2>2. db' \in [Runs -> Rows]
    BY <1>5, <1>a, <2>1, RowUpdate DEF BreakPlan, SetRow
  <2>3. /\ handler' \in [Handlers -> HandlerStates]
        /\ \A g \in Handlers : handler'[g].run = None <=> handler'[g].pc = "idle"
    BY <1>5, ReturnType DEF BreakPlan
  <2>4. tree' \in Trees
    BY <1>5, TreeType DEF BreakPlan
  <2>5. task' \in [Tasks -> TaskStatus]
    BY <1>5, <1>a, TaskUpdate DEF BreakPlan, TaskStatus
  <2> QED BY <1>5, <2>2, <2>3, <2>4, <2>5 DEF TypeOK, BreakPlan
<1> QED BY <1>1, <1>2, <1>3, <1>4, <1>5

LEMMA ActionType ==
  ASSUME TypeOK, NEW h \in Handlers,
         RecordDecision(h) \/ Conclude(h) \/ FinishRefresh(h)
  PROVE  TypeOK'
<1>0. handler[h].pc # "idle"
  BY DEF RecordDecision, Conclude, FinishRefresh, At
<1>a. /\ handler[h].run \in Runs /\ RowOf(h) \in Rows
      /\ handler[h].was \in Snapshots /\ handler[h].action \in Actions
      /\ handler[h].seen \in SUBSET Stages /\ handler[h].files \in SUBSET FileKinds
  BY <1>0, WaitingRow DEF HandlerStates
<1>1. CASE RecordDecision(h)
  <2>1. Decide(Upsert(RowOf(h), handler[h].was), handler[h].action, handler[h].seen) \in Rows
    BY <1>a, UpsertRow, DecideRow
  <2>2. db' \in [Runs -> Rows]
    BY <1>1, <1>a, <2>1, RowUpdate DEF RecordDecision, SetRow
  <2>3. /\ handler' \in [Handlers -> HandlerStates]
        /\ \A g \in Handlers : handler'[g].run = None <=> handler'[g].pc = "idle"
    BY <1>0, <1>1, <1>a, GotoType DEF RecordDecision, Goto, Pcs
  <2> QED BY <1>1, <2>2, <2>3 DEF TypeOK, RecordDecision
<1>2. CASE Conclude(h)
  <2> DEFINE row == TaskTold([RowOf(h) EXCEPT !.status = ActionStatus(handler[h].action)])
  <2>1. row \in Rows
    BY <1>a, FailedRow DEF RunStatus, ActionStatus
  <2>2. SetRow(h, row) /\ AwaitRefresh(h, row)
    BY <1>2 DEF Conclude
  <2> HIDE DEF row
  <2>3. db' \in [Runs -> Rows]
    BY <1>a, <2>1, <2>2, RowUpdate DEF SetRow
  <2>4. /\ handler' \in [Handlers -> HandlerStates]
        /\ \A g \in Handlers : handler'[g].run = None <=> handler'[g].pc = "idle"
    BY <1>0, <2>1, <2>2, AwaitRefreshType
  <2>5. ActionTaskStatus(handler[h].action) \in TaskStatus
    BY <1>a DEF ActionTaskStatus, Actions, TaskStatus
  <2>6. task' \in [Tasks -> TaskStatus]
    BY <1>2, <1>a, <2>5, TaskUpdate DEF Conclude
  <2> QED BY <1>2, <2>3, <2>4, <2>6 DEF TypeOK, Conclude
<1>3. CASE FinishRefresh(h)
  <2>1. Upsert(RowOf(h), handler[h].was) \in Rows
    BY <1>a, UpsertRow
  <2>2. db' \in [Runs -> Rows]
    BY <1>3, <1>a, <2>1, RowUpdate DEF FinishRefresh, SetRow
  <2>3. /\ handler' \in [Handlers -> HandlerStates]
        /\ \A g \in Handlers : handler'[g].run = None <=> handler'[g].pc = "idle"
    BY <1>3, ReturnType DEF FinishRefresh
  <2> QED BY <1>3, <2>2, <2>3 DEF TypeOK, FinishRefresh
<1> QED BY <1>1, <1>2, <1>3

LEMMA RequestType ==
  ASSUME TypeOK, NEW h \in Handlers, NEW r \in Runs, Request(h, r)
  PROVE  TypeOK'
<1>0. db[r] \in Rows /\ Idle \in HandlerStates /\ task \in [Tasks -> TaskStatus]
  BY IdleType DEF TypeOK
<1>1. CASE StartRun(h, r)
  <2>1. [db[r] EXCEPT !.status = "preparing_workspace"] \in Rows
    BY <1>0 DEF Rows, RunStatus, Working
  <2>2. task' \in [Tasks -> TaskStatus]
    BY <1>1, TaskUpdate DEF StartRun, TaskStatus
  <2> QED BY <1>0, <1>1, <2>1, <2>2, OpenType DEF StartRun, Pcs
<1>2. CASE SubmitPlan(h, r)
  BY <1>0, <1>2, OpenType DEF SubmitPlan, Pcs
<1>3. CASE Approve(h, r)
  <2>1. Evaluate(db[r]) \in Rows
    BY <1>0, EvaluateRow
  <2>2. [Idle EXCEPT !.action = "approve", !.seen = Existing(Evaluate(db[r]))]
          \in HandlerStates
    BY <1>0 DEF HandlerStates, Actions, Existing
  <2> QED BY <1>0, <1>3, <2>1, <2>2, OpenType DEF Approve, Pcs
<1>4. ASSUME NEW action \in {"request_fix", "stop"}, Turn(h, r, action) PROVE TypeOK'
  <2>1. [Idle EXCEPT !.action = action] \in HandlerStates
    BY <1>0 DEF HandlerStates, Actions
  <2> QED BY <1>0, <1>4, <2>1, OpenType DEF Turn, Pcs
<1>5. CASE RegenerateEvidence(h, r)
  BY <1>0, <1>5, OpenType DEF RegenerateEvidence, Pcs
<1>6. CASE GenerateStages(h, r)
  <2>1. Reconcile(db[r]) \in Rows
    BY <1>0, ReconcileRow DEF Reconcile
  <2> QED BY <1>0, <1>6, <2>1, OpenType DEF GenerateStages, Pcs
<1>7. CASE EvaluatePolicy(h, r)
  <2>1. Reconcile(Evaluate(db[r])) \in Rows
    BY <1>0, EvaluateRow, ReconcileRow DEF Reconcile
  <2> QED BY <1>0, <1>7, <2>1, OpenType DEF EvaluatePolicy, Pcs
<1>8. CASE VerifyReplay(h, r)
  <2> DEFINE verified == [db[r] EXCEPT !.replay = ReplayStatus(db[r])]
  <2>1. Reconcile(Evaluate(verified)) \in Rows
    BY <1>0, ReplayRow, EvaluateRow, ReconcileRow DEF Reconcile
  <2> QED BY <1>0, <1>8, <2>1, OpenType DEF VerifyReplay, Pcs
<1> QED BY <1>1, <1>2, <1>3, <1>4, <1>5, <1>6, <1>7, <1>8 DEF Request

(* The steps that no handler carries further. *)
LEMMA InstantType ==
  ASSUME TypeOK,
         \/ \E r \in Runs : RefuseApproval(r)
         \/ \E r \in Runs, s \in Stages, verdict \in {"approved", "rejected"} :
              CompleteStage(r, s, verdict)
         \/ Crash
  PROVE  TypeOK'
<1>1. ASSUME NEW r \in Runs, RefuseApproval(r) PROVE TypeOK'
  <2>1. Evaluate(db[r]) \in Rows
    BY EvaluateRow DEF TypeOK
  <2>2. db' \in [Runs -> Rows]
    BY <1>1, <2>1, RowUpdate DEF RefuseApproval
  <2> QED BY <1>1, <2>2 DEF TypeOK, RefuseApproval
<1>2. ASSUME NEW r \in Runs, NEW s \in Stages, NEW verdict \in {"approved", "rejected"},
             CompleteStage(r, s, verdict)
      PROVE  TypeOK'
  <2> DEFINE row == [db[r] EXCEPT !.stage[s] = verdict]
  <2>1. row \in Rows
    BY DEF TypeOK, Rows, StageStates
  <2>2. db' = [db EXCEPT ![r] = row]
    BY <1>2 DEF CompleteStage
  <2> HIDE DEF row
  <2>3. db' \in [Runs -> Rows]
    BY <2>1, <2>2, RowUpdate
  <2> QED BY <1>2, <2>3 DEF TypeOK, CompleteStage
<1>3. CASE Crash
  <2>1. Idle.run = None /\ Idle.pc = "idle"
    BY DEF Idle
  <2>2. crashes' \in 0..MaxCrashes
    BY <1>3, BoundAssumption DEF Crash, Die, TypeOK
  <2> QED BY <1>3, <2>1, <2>2, IdleType DEF TypeOK, Crash, Die
<1> QED BY <1>1, <1>2, <1>3


-----------------------------------------------------------------------------
(* The safety of one row, and what no step ever takes back *)

(* What the block that a pipeline ends in writes of a run that waits, it   *)
(* has written or it owes.                                                 *)
Packaged(row) ==
  row.status = "waiting_for_approval" =>
    /\ row.report.made \/ "report" \in row.owed
    /\ row.policy.status # "none" \/ "policy" \in row.owed
    /\ row.evidence.present \/ "evidence" \in row.owed

(* While a run waits, the stored policy result is no milder than one made  *)
(* anew would be: the rows it was made from change only to the better, or  *)
(* together with it, or a death left the evaluation out.                   *)
PolicyCurrent(row) ==
  row.status = "waiting_for_approval" /\ "policy" \notin row.owed =>
    /\ PolicyBlocks(row) => row.policy.status = "blocked"
    /\ PolicyWantsReview(row) => row.policy.status \in {"blocked", "requires_review"}

(* What the operator was told could be approved passed its gates.          *)
ReportAgrees(row) ==
  row.report.can => row.gates.failed = 0 \/ "report" \in row.owed

RowOK(row) ==
  /\ ReportAgrees(row) /\ Packaged(row) /\ PolicyCurrent(row)
  /\ row.status = "completed" => Approvals(row) # {} /\ row.evidence.present
  /\ \A i \in Approvals(row) : \A s \in row.decisions[i].seen : row.stage[s] = "approved"

Grows(old, new) ==
  /\ \A s \in Stages : old.stage[s] \in {"approved", "rejected"} => new.stage[s] = old.stage[s]
  /\ old.report.made => new.report.made
  /\ old.policy.status # "none" => new.policy.status # "none"
  /\ old.evidence.present => new.evidence.present
  /\ Approvals(old) # {} => Approvals(new) # {}

Keeps(old, new) == RowOK(new) /\ Grows(old, new)

LEMMA SeenType ==
  ASSUME NEW row \in Rows
  PROVE  \A i \in Approvals(row) : row.decisions[i].seen \subseteq Stages
<1>1. row.decisions \in Seq(Decisions)
  BY DEF Rows
<1>2. \A i \in DOMAIN row.decisions : row.decisions[i] \in Decisions
  BY <1>1
<1> QED BY <1>2 DEF Approvals, Decisions

LEMMA KeepsTransitive ==
  ASSUME NEW a, NEW b, NEW c, Keeps(a, b), Keeps(b, c) PROVE Keeps(a, c)
BY DEF Keeps, Grows

LEMMA KeepsItself == ASSUME NEW row \in Rows, RowOK(row) PROVE Keeps(row, row)
BY DEF Keeps, Grows

(* What the safety of a row consists of, when no decision is recorded and  *)
(* no verdict given.                                                       *)
LEMMA KeepsByParts ==
  ASSUME NEW row \in Rows, NEW new \in Rows, RowOK(row),
         ReportAgrees(new), Packaged(new), PolicyCurrent(new),
         new.status = row.status \/ new.status # "completed",
         new.decisions = row.decisions,
         \A s \in Stages : row.stage[s] # "absent" => new.stage[s] = row.stage[s],
         row.report.made => new.report.made,
         row.policy.status # "none" => new.policy.status # "none",
         row.evidence.present => new.evidence.present
  PROVE  Keeps(row, new)
<1>1. Approvals(new) = Approvals(row)
  BY DEF Approvals
<1>2. \A i \in Approvals(row) : row.decisions[i].seen \subseteq Stages
  BY SeenType
<1>3. Grows(row, new)
  BY <1>1 DEF Grows
<1>4. \A i \in Approvals(new) : \A s \in new.decisions[i].seen : new.stage[s] = "approved"
  BY <1>1, <1>2 DEF RowOK
<1>5. RowOK(new)
  BY <1>1, <1>4 DEF RowOK
<1> QED BY <1>3, <1>5 DEF Keeps

(* A run that waits no longer, or not yet. *)
LEMMA KeepsAway ==
  ASSUME NEW row \in Rows, NEW new \in Rows, RowOK(row),
         new.status \notin {"waiting_for_approval", "completed"},
         new.report = row.report, new.gates = row.gates,
         new.policy = row.policy, new.stage = row.stage,
         new.evidence = row.evidence, new.decisions = row.decisions,
         "report" \in row.owed => "report" \in new.owed
  PROVE  Keeps(row, new)
<1>1. ReportAgrees(new) /\ Packaged(new) /\ PolicyCurrent(new)
  BY DEF RowOK, ReportAgrees, Packaged, PolicyCurrent
<1> QED BY <1>1, KeepsByParts

(* A run that keeps its status: what the policy result was made from does  *)
(* not change to the worse, or the policy is owed.                         *)
LEMMA KeepsStatus ==
  ASSUME NEW row \in Rows, NEW new \in Rows, RowOK(row),
         new.status = row.status, new.report = row.report,
         new.gates = row.gates \/ new.gates = NoGates,
         new.policy = row.policy,
         \A s \in Stages : row.stage[s] # "absent" => new.stage[s] = row.stage[s],
         new.decisions = row.decisions,
         row.evidence.present => new.evidence.present,
         row.owed \subseteq new.owed
           \/ (row.owed \ {"evidence"} \subseteq new.owed /\ new.evidence.present)
           \/ row.owed \ {"task"} \subseteq new.owed,
         \/ "policy" \in new.owed
         \/ /\ new.risk = row.risk /\ new.replay = row.replay
            /\ new.plan.validation \in {row.plan.validation, "pending", "valid"}
  PROVE  Keeps(row, new)
<1>1. ReportAgrees(new)
  BY DEF RowOK, ReportAgrees, NoGates
<1>2. Packaged(new)
  BY DEF RowOK, Packaged
<1>3. PolicyCurrent(new)
  <2> SUFFICES ASSUME new.status = "waiting_for_approval", "policy" \notin new.owed
      PROVE  /\ PolicyBlocks(new) => new.policy.status = "blocked"
             /\ PolicyWantsReview(new) => new.policy.status \in {"blocked", "requires_review"}
    BY DEF PolicyCurrent
  <2>1. "policy" \notin row.owed
    OBVIOUS
  <2>2. PolicyBlocks(new) => PolicyBlocks(row)
    BY DEF PolicyBlocks, NoGates, Rows, Gates
  <2>3. PolicyWantsReview(new) => PolicyWantsReview(row)
    BY DEF PolicyWantsReview, OnlySkipped, NoGates
  <2> QED BY <2>1, <2>2, <2>3 DEF RowOK, PolicyCurrent
<1> QED BY <1>1, <1>2, <1>3, KeepsByParts

LEMMA EvaluateCurrent == ASSUME NEW row \in Rows PROVE PolicyCurrent(Evaluate(row))
<1>1. /\ Alike(row, Evaluate(row)) /\ Evaluate(row).evidence = row.evidence
      /\ Evaluate(row).policy.status = PolicyStatus(row)
  BY EvaluateRow
<1>2. PolicyBlocks(Evaluate(row)) = PolicyBlocks(row)
  BY <1>1 DEF PolicyBlocks, Alike
<1>3. PolicyWantsReview(Evaluate(row)) = PolicyWantsReview(row)
  BY <1>1 DEF PolicyWantsReview, OnlySkipped, Alike
<1> QED BY <1>1, <1>2, <1>3 DEF PolicyCurrent, PolicyStatus

LEMMA EvaluateKeeps ==
  ASSUME NEW row \in Rows, RowOK(row) PROVE Keeps(row, Evaluate(row))
<1> DEFINE new == Evaluate(row)
<1>1. /\ new \in Rows /\ Alike(row, new) /\ new.stage = row.stage
      /\ new.evidence = row.evidence /\ new.policy.status # "none"
      /\ new.owed = row.owed \ {"policy"} /\ PolicyCurrent(new)
  BY EvaluateRow, EvaluateCurrent
<1> HIDE DEF new
<1>2. ReportAgrees(new) /\ Packaged(new)
  BY <1>1 DEF RowOK, ReportAgrees, Packaged, Alike
<1>3. Keeps(row, new)
  BY <1>1, <1>2, KeepsByParts DEF Alike
<1> QED BY <1>3 DEF new

LEMMA ReconcileKeeps ==
  ASSUME NEW row \in Rows, RowOK(row), NEW some
  PROVE  Keeps(row, ReconcileOnly(row, some))
<1> DEFINE new == ReconcileOnly(row, some)
<1>1. /\ new \in Rows /\ Alike(row, new) /\ new.policy = row.policy
      /\ new.evidence = row.evidence /\ new.owed = row.owed
      /\ \A s \in Stages : row.stage[s] # "absent" => new.stage[s] = row.stage[s]
  BY ReconcileRow
<1> HIDE DEF new
<1>2. Keeps(row, new)
  BY <1>1, KeepsStatus DEF Alike
<1> QED BY <1>2 DEF new

LEMMA UpsertKeeps ==
  ASSUME NEW row \in Rows, RowOK(row), NEW was \in Snapshots
  PROVE  Keeps(row, Upsert(row, was))
<1> DEFINE new == Upsert(row, was)
<1>1. /\ new \in Rows /\ Alike(row, new) /\ new.stage = row.stage
      /\ new.policy = row.policy /\ new.evidence.present
      /\ new.owed = row.owed \ {"evidence"}
  BY UpsertRow
<1> HIDE DEF new
<1>2. Keeps(row, new)
  BY <1>1, KeepsStatus DEF Alike
<1> QED BY <1>2 DEF new

LEMMA ToldKeeps ==
  ASSUME NEW row \in Rows, RowOK(row) PROVE Keeps(row, TaskTold(row))
<1> DEFINE new == TaskTold(row)
<1>1. /\ new \in Rows /\ Alike(row, new) /\ new.stage = row.stage
      /\ new.policy = row.policy /\ new.evidence = row.evidence
      /\ new.owed = row.owed \ {"task"}
  BY ToldRow
<1> HIDE DEF new
<1>2. Keeps(row, new)
  BY <1>1, KeepsStatus DEF Alike
<1> QED BY <1>2 DEF new

LEMMA OwingKeeps ==
  ASSUME NEW row \in Rows, RowOK(row), NEW writes \in SUBSET Writes
  PROVE  Keeps(row, Owing(row, writes))
<1> DEFINE new == Owing(row, writes)
<1>1. /\ new \in Rows /\ Alike(row, new) /\ new.stage = row.stage
      /\ new.policy = row.policy /\ new.evidence = row.evidence
      /\ new.owed = row.owed \cup writes
  BY OwingRow
<1> HIDE DEF new
<1>2. Keeps(row, new)
  BY <1>1, KeepsStatus DEF Alike
<1> QED BY <1>2 DEF new

LEMMA StatusKeeps ==
  ASSUME NEW row \in Rows, RowOK(row),
         NEW st \in RunStatus \ {"waiting_for_approval", "completed"},
         NEW plan \in Plans
  PROVE  /\ Keeps(row, [row EXCEPT !.status = st])
         /\ Keeps(row, TaskTold([row EXCEPT !.status = st]))
         /\ Keeps(row, TaskTold([row EXCEPT !.status = st, !.plan = plan]))
<1>1. Keeps(row, [row EXCEPT !.status = st])
  <2> DEFINE new == [row EXCEPT !.status = st]
  <2>1. /\ new \in Rows /\ new.status = st /\ new.gates = row.gates
        /\ new.report = row.report /\ new.decisions = row.decisions
        /\ new.stage = row.stage /\ new.policy = row.policy
        /\ new.evidence = row.evidence /\ new.owed = row.owed
    BY DEF Rows
  <2> HIDE DEF new
  <2>2. Keeps(row, new)
    BY <2>1, KeepsAway
  <2> QED BY <2>2 DEF new
<1>2. Keeps(row, TaskTold([row EXCEPT !.status = st]))
  <2> DEFINE new == TaskTold([row EXCEPT !.status = st])
  <2>1. /\ new \in Rows /\ new.status = st /\ new.gates = row.gates
        /\ new.report = row.report /\ new.decisions = row.decisions
        /\ new.stage = row.stage /\ new.policy = row.policy
        /\ new.evidence = row.evidence /\ new.owed = row.owed \ {"task"}
    BY FailedRow
  <2> HIDE DEF new
  <2>2. Keeps(row, new)
    BY <2>1, KeepsAway
  <2> QED BY <2>2 DEF new
<1>3. Keeps(row, TaskTold([row EXCEPT !.status = st, !.plan = plan]))
  <2> DEFINE new == TaskTold([row EXCEPT !.status = st, !.plan = plan])
  <2>1. /\ new \in Rows /\ new.status = st /\ new.gates = row.gates
        /\ new.report = row.report /\ new.decisions = row.decisions
        /\ new.stage = row.stage /\ new.policy = row.policy
        /\ new.evidence = row.evidence /\ new.owed = row.owed \ {"task"}
    BY DEF TaskTold, Rows
  <2> HIDE DEF new
  <2>2. Keeps(row, new)
    BY <2>1, KeepsAway
  <2> QED BY <2>2 DEF new
<1> QED BY <1>1, <1>2, <1>3

LEMMA PlanFailedKeeps ==
  ASSUME NEW row \in Rows, RowOK(row), NEW plan \in FailedPlans
  PROVE  /\ PlanFailed(row, plan) \in Rows /\ Keeps(row, PlanFailed(row, plan))
         /\ Evaluate(PlanFailed(row, plan)) \in Rows
         /\ Keeps(row, Evaluate(PlanFailed(row, plan)))
         /\ \A some : Keeps(row, ReconcileOnly(Evaluate(PlanFailed(row, plan)), some))
<1> DEFINE failed == PlanFailed(row, plan)
           judged == Evaluate(failed)
<1>1. failed \in Rows /\ Keeps(row, failed)
  BY FailedPlansType, PlanRow, StatusKeeps DEF PlanFailed, RunStatus
<1> HIDE DEF failed
<1>2. judged \in Rows /\ Keeps(failed, judged)
  BY <1>1, EvaluateRow, EvaluateKeeps DEF Keeps
<1> HIDE DEF judged
<1>3. Keeps(row, judged)
  BY <1>1, <1>2, KeepsTransitive
<1>4. ASSUME NEW some PROVE Keeps(row, ReconcileOnly(judged, some))
  <2>1. Keeps(judged, ReconcileOnly(judged, some))
    BY <1>2, ReconcileKeeps DEF Keeps
  <2> QED BY <1>3, <2>1, KeepsTransitive
<1>5. \A some : Keeps(row, ReconcileOnly(judged, some))
  BY <1>4
<1> QED BY <1>1, <1>2, <1>3, <1>5 DEF judged, failed

(* What is current stays so when nothing it depends on changes.            *)
LEMMA CurrentKept ==
  ASSUME NEW row, NEW new, PolicyCurrent(row), Alike(row, new),
         new.policy = row.policy,
         row.evidence.present => new.evidence.present,
         "policy" \in row.owed => "policy" \in new.owed
  PROVE  PolicyCurrent(new)
<1>1. PolicyBlocks(new) => PolicyBlocks(row)
  BY DEF PolicyBlocks, Alike
<1>2. PolicyWantsReview(new) => PolicyWantsReview(row)
  BY DEF PolicyWantsReview, OnlySkipped, Alike
<1> QED BY <1>1, <1>2 DEF PolicyCurrent, Alike

(* The block a pipeline ends in, whole: the row need not wait before it.   *)
LEMMA FinalizeKeeps ==
  ASSUME NEW row \in Rows, RowOK(row), NEW files \in SUBSET FileKinds,
         NEW result \in Outcomes
  PROVE  Keeps(row, Finalize(row, files, result))
<1> DEFINE reported == Reported(row, files, result)
           judged == Evaluate(reported)
           staged == ReconcileOnly(judged, Stages)
           final == Upsert(staged, SnapshotOf(staged))
           new == Finalize(row, files, result)
<1>0. new = TaskTold(final)
  BY DEF Finalize, Reconcile
<1>1. /\ reported \in Rows /\ reported.report.made
      /\ reported.report.can => reported.gates.failed = 0
      /\ reported.status # "completed" /\ reported.decisions = row.decisions
  BY ReportedRow
<1>2. /\ new \in Rows /\ Alike(reported, new)
      /\ new.policy.status # "none" /\ new.evidence.present
      /\ \A s \in Stages : row.stage[s] # "absent" => new.stage[s] = row.stage[s]
  BY FinalizeRow
<1> HIDE DEF reported
<1>3. judged \in Rows /\ PolicyCurrent(judged)
  BY <1>1, EvaluateRow, EvaluateCurrent
<1> HIDE DEF judged
<1>4. staged \in Rows /\ PolicyCurrent(staged)
  <2>1. /\ staged \in Rows /\ Alike(judged, staged) /\ staged.policy = judged.policy
        /\ staged.evidence = judged.evidence /\ staged.owed = judged.owed
    BY <1>3, ReconcileRow
  <2> HIDE DEF staged
  <2> QED BY <1>3, <2>1, CurrentKept
<1> HIDE DEF staged
<1>5. final \in Rows /\ PolicyCurrent(final)
  <2>1. /\ final \in Rows /\ Alike(staged, final) /\ final.policy = staged.policy
        /\ final.evidence.present /\ final.owed = staged.owed \ {"evidence"}
    BY <1>4, SnapshotType, UpsertRow
  <2> HIDE DEF final
  <2> QED BY <1>4, <2>1, CurrentKept
<1> HIDE DEF final, new
<1>6. PolicyCurrent(new)
  <2>1. /\ Alike(final, new) /\ new.policy = final.policy
        /\ new.evidence = final.evidence /\ new.owed = final.owed \ {"task"}
    BY <1>0, <1>5, ToldRow
  <2> QED BY <1>2, <1>5, <2>1, CurrentKept
<1>7. ReportAgrees(new) /\ Packaged(new)
  BY <1>1, <1>2 DEF ReportAgrees, Packaged, Alike
<1>8. Keeps(row, new)
  BY <1>1, <1>2, <1>6, <1>7, KeepsByParts DEF Alike
<1> QED BY <1>8 DEF new

LEMMA DecideKeeps ==
  ASSUME NEW row \in Rows, RowOK(row), row.evidence.present,
         NEW action \in Actions, NEW seen \in SUBSET Stages,
         action = "approve" => \A s \in seen : row.stage[s] = "approved"
  PROVE  /\ Keeps(row, Decide(row, action, seen))
         /\ Decide(row, action, seen).evidence.present
         /\ action = "approve" => Approvals(Decide(row, action, seen)) # {}
<1> DEFINE d == Record(row, action, seen)
           new == Decide(row, action, seen)
           n == Len(row.decisions)
<1>1. d.action = action /\ d.seen = seen /\ d \in Decisions
  BY RecordType
<1>2. row.decisions \in Seq(Decisions)
  BY DEF Rows
<1>3. /\ new \in Rows /\ new.decisions = Append(row.decisions, d)
      /\ new.status = row.status /\ new.risk = row.risk /\ new.gates = row.gates
      /\ new.report = row.report /\ new.replay = row.replay /\ new.plan = row.plan
      /\ new.stage = row.stage /\ new.policy = row.policy /\ new.owed = row.owed
      /\ new.evidence.present = row.evidence.present
  BY DecideRow
<1> HIDE DEF d, new
<1>4. /\ DOMAIN row.decisions = 1..n /\ n \in Nat
      /\ DOMAIN new.decisions = 1..(n + 1)
      /\ new.decisions[n + 1] = d
      /\ \A i \in 1..n : new.decisions[i] = row.decisions[i]
  BY <1>1, <1>2, <1>3
<1>5. /\ Approvals(row) \subseteq Approvals(new)
      /\ \A i \in Approvals(new) : i \in Approvals(row) \/ (i = n + 1 /\ action = "approve")
      /\ action = "approve" => n + 1 \in Approvals(new)
  BY <1>1, <1>4 DEF Approvals
<1>6. \A i \in Approvals(new) : \A s \in new.decisions[i].seen : new.stage[s] = "approved"
  <2> SUFFICES ASSUME NEW i \in Approvals(new) PROVE
        \A s \in new.decisions[i].seen : new.stage[s] = "approved"
    OBVIOUS
  <2>1. CASE i \in Approvals(row)
    BY <1>3, <1>4, <2>1 DEF RowOK, Approvals
  <2>2. CASE i = n + 1 /\ action = "approve"
    BY <1>1, <1>3, <1>4, <2>2
  <2> QED BY <1>5, <2>1, <2>2
<1>7. PolicyCurrent(row) /\ ReportAgrees(row) /\ Packaged(row)
  BY DEF RowOK
<1>8. PolicyCurrent(new) /\ ReportAgrees(new) /\ Packaged(new)
  BY <1>3, <1>7 DEF PolicyCurrent, ReportAgrees, Packaged, PolicyBlocks,
                    PolicyWantsReview, OnlySkipped
<1>9. Grows(row, new)
  BY <1>3, <1>5 DEF Grows
<1>10. RowOK(new)
  BY <1>3, <1>5, <1>6, <1>8 DEF RowOK
<1> QED BY <1>3, <1>5, <1>9, <1>10 DEF Keeps, new

-----------------------------------------------------------------------------
(* The inductive invariant: the rows are safe, and so are the approvals    *)
(* that wait between their gate and their last write                       *)

RowsOK == \A r \in Runs : RowOK(db[r])

HandlerOK(h) == handler[h].action = "approve" =>
  /\ handler[h].pc = "action_refresh" =>
       \A s \in handler[h].seen : RowOf(h).stage[s] = "approved"
  /\ handler[h].pc = "decided" =>
       Approvals(RowOf(h)) # {} /\ RowOf(h).evidence.present

IInv == TypeOK /\ RowsOK /\ \A h \in Handlers : HandlerOK(h)

AllKeep == \A r \in Runs : Keeps(db[r], db'[r])

Good == AllKeep /\ \A h \in Handlers : HandlerOK(h)'

LEMMA OneRowKeeps ==
  ASSUME IInv, NEW r \in Runs, NEW row, Keeps(db[r], row),
         db' = [db EXCEPT ![r] = row]
  PROVE  AllKeep
BY KeepsItself DEF AllKeep, IInv, TypeOK, RowsOK

LEMMA UnchangedKeeps == ASSUME IInv, UNCHANGED db PROVE AllKeep
BY KeepsItself DEF AllKeep, IInv, TypeOK, RowsOK

(* A handler that does not move stays safe while the rows grow. *)
LEMMA HandlerKept ==
  ASSUME IInv, AllKeep, NEW g \in Handlers, handler'[g] = handler[g]
  PROVE  HandlerOK(g)'
<1>1. CASE handler[g].pc = "idle"
  BY <1>1 DEF HandlerOK
<1>2. CASE handler[g].pc # "idle"
  <2>1. handler[g].run \in Runs /\ handler[g].seen \subseteq Stages
    BY <1>2, WaitingRow DEF IInv, HandlerStates
  <2>2. Keeps(RowOf(g), db'[handler[g].run])
    BY <2>1 DEF AllKeep, RowOf
  <2>3. HandlerOK(g)
    BY DEF IInv
  <2> QED BY <2>1, <2>2, <2>3 DEF HandlerOK, RowOf, Keeps, Grows
<1> QED BY <1>1, <1>2

LEMMA OthersKept ==
  ASSUME IInv, AllKeep, NEW h \in Handlers, NEW x,
         handler' = [handler EXCEPT ![h] = x], HandlerOK(h)'
  PROVE  Good
<1>1. ASSUME NEW g \in Handlers, g # h PROVE HandlerOK(g)'
  BY <1>1, HandlerKept DEF IInv, TypeOK
<1> QED BY <1>1 DEF Good

(* Any other wait promises nothing. *)
LEMMA Plain ==
  ASSUME IInv, AllKeep, NEW h \in Handlers, NEW x,
         handler' = [handler EXCEPT ![h] = x],
         x.pc \notin {"action_refresh", "decided"} \/ x.action # "approve"
  PROVE  Good
<1>1. handler'[h] = x
  BY DEF IInv, TypeOK
<1>2. HandlerOK(h)'
  BY <1>1 DEF HandlerOK
<1> QED BY <1>2, OthersKept

LEMMA ReturnGood == ASSUME IInv, AllKeep, NEW h \in Handlers, Return(h) PROVE Good
<1>1. Idle.pc = "idle"
  BY DEF Idle
<1> QED BY <1>1, Plain DEF Return

LEMMA AwaitGood ==
  ASSUME IInv, AllKeep, NEW h \in Handlers, NEW row, AwaitRefresh(h, row) PROVE Good
<1> DEFINE x == [Idle EXCEPT !.pc = "refresh", !.run = handler[h].run, !.was = SnapshotOf(row)]
<1>1. x.pc = "refresh"
  BY DEF Idle
<1>2. handler' = [handler EXCEPT ![h] = x]
  BY DEF AwaitRefresh
<1> HIDE DEF x
<1> QED BY <1>1, <1>2, Plain

LEMMA GotoGood ==
  ASSUME IInv, AllKeep, NEW h \in Handlers,
         NEW pc \in Pcs \ {"action_refresh", "decided"}, Goto(h, pc)
  PROVE  Good
<1> DEFINE x == [handler[h] EXCEPT !.pc = pc]
<1>0. handler[h] \in HandlerStates
  BY DEF IInv, TypeOK
<1>1. handler' = [handler EXCEPT ![h] = x] /\ x.pc = pc
  BY <1>0 DEF Goto, HandlerStates
<1> HIDE DEF x
<1> QED BY <1>1, Plain

LEMMA GotoWithGood ==
  ASSUME IInv, AllKeep, NEW h \in Handlers,
         NEW pc \in Pcs \ {"action_refresh", "decided"}, NEW files,
         handler' = [handler EXCEPT ![h].pc = pc, ![h].files = files]
  PROVE  Good
<1> DEFINE x == [handler[h] EXCEPT !.pc = pc, !.files = files]
<1>0. handler[h] \in HandlerStates
  BY DEF IInv, TypeOK
<1>1. handler' = [handler EXCEPT ![h] = x] /\ x.pc = pc
  BY <1>0 DEF HandlerStates
<1> HIDE DEF x
<1> QED BY <1>1, Plain

LEMMA OpenGood ==
  ASSUME IInv, NEW h \in Handlers, NEW r \in Runs, NEW pc, NEW row,
         NEW fields \in HandlerStates, Open(h, r, pc, row, fields), Keeps(db[r], row),
         \/ pc \notin {"action_refresh", "decided"}
         \/ fields.action # "approve"
         \/ pc = "action_refresh" /\ \A s \in fields.seen : row.stage[s] = "approved"
  PROVE  Good
<1> DEFINE x == [fields EXCEPT !.pc = pc, !.run = r, !.was = SnapshotOf(row)]
<1>1. /\ x.pc = pc /\ x.run = r /\ x.action = fields.action /\ x.seen = fields.seen
      /\ handler' = [handler EXCEPT ![h] = x]
      /\ db' = [db EXCEPT ![r] = row]
  BY DEF Open, HandlerStates
<1> HIDE DEF x
<1>2. AllKeep
  BY <1>1, OneRowKeeps
<1>3. handler'[h] = x /\ db'[r] = row
  BY <1>1 DEF IInv, TypeOK
<1>4. HandlerOK(h)'
  BY <1>1, <1>3 DEF HandlerOK, RowOf
<1> QED BY <1>1, <1>2, <1>4, OthersKept

-----------------------------------------------------------------------------
(* Every action keeps the invariant *)

LEMMA JudgedKeeps ==
  ASSUME NEW row \in Rows, RowOK(row), NEW some
  PROVE  Keeps(row, ReconcileOnly(Evaluate(row), some))
<1>1. Evaluate(row) \in Rows /\ Keeps(row, Evaluate(row))
  BY EvaluateRow, EvaluateKeeps
<1>2. Keeps(Evaluate(row), ReconcileOnly(Evaluate(row), some))
  BY <1>1, ReconcileKeeps DEF Keeps
<1> QED BY <1>1, <1>2, KeepsTransitive

(* A replay verdict makes the stored policy result a stale one, until it   *)
(* is evaluated again.                                                     *)
LEMMA VerifiedKeeps ==
  ASSUME NEW row \in Rows, RowOK(row), NEW some
  PROVE  LET verified == [row EXCEPT !.replay = ReplayStatus(row)] IN
         /\ verified \in Rows
         /\ Owing(verified, {"policy"}) \in Rows
         /\ Keeps(row, Owing(verified, {"policy"}))
         /\ Keeps(row, ReconcileOnly(Evaluate(verified), some))
<1> DEFINE verified == [row EXCEPT !.replay = ReplayStatus(row)]
           owing == Owing(verified, {"policy"})
           judged == Evaluate(verified)
<1>1. /\ verified \in Rows /\ verified.status = row.status /\ verified.risk = row.risk
      /\ verified.gates = row.gates /\ verified.report = row.report
      /\ verified.plan = row.plan /\ verified.decisions = row.decisions
      /\ verified.stage = row.stage /\ verified.policy = row.policy
      /\ verified.evidence = row.evidence /\ verified.owed = row.owed
  BY ReplayRow
<1> HIDE DEF verified
<1>2. /\ owing \in Rows /\ Alike(verified, owing) /\ owing.stage = row.stage
      /\ owing.policy = row.policy /\ owing.evidence = row.evidence
      /\ owing.owed = row.owed \cup {"policy"}
  BY <1>1, OwingRow DEF Writes
<1> HIDE DEF owing
<1>3. Keeps(row, owing)
  BY <1>1, <1>2, KeepsStatus DEF Alike
<1>4. /\ judged \in Rows /\ Alike(verified, judged) /\ judged.stage = row.stage
      /\ judged.evidence = row.evidence /\ judged.policy.status # "none"
      /\ judged.owed = row.owed \ {"policy"} /\ PolicyCurrent(judged)
  BY <1>1, EvaluateRow, EvaluateCurrent
<1> HIDE DEF judged
<1>5. ReportAgrees(judged) /\ Packaged(judged)
  BY <1>1, <1>4 DEF RowOK, ReportAgrees, Packaged, Alike
<1>6. Keeps(row, judged)
  BY <1>1, <1>4, <1>5, KeepsByParts DEF Alike
<1>7. Keeps(judged, ReconcileOnly(judged, some))
  BY <1>4, <1>6, ReconcileKeeps DEF Keeps
<1>8. Keeps(row, ReconcileOnly(judged, some))
  BY <1>6, <1>7, KeepsTransitive
<1> QED BY <1>1, <1>2, <1>3, <1>8 DEF judged, owing, verified

(* The operator's decision told to the run. *)
LEMMA DecidedKeeps ==
  ASSUME NEW row \in Rows, RowOK(row), NEW action \in Actions,
         action = "approve" => Approvals(row) # {} /\ row.evidence.present
  PROVE  /\ Keeps(row, [row EXCEPT !.status = ActionStatus(action)])
         /\ Keeps(row, TaskTold([row EXCEPT !.status = ActionStatus(action)]))
<1>1. ASSUME NEW new \in Rows, new.status = ActionStatus(action),
             new.gates = row.gates, new.report = row.report,
             new.decisions = row.decisions, new.stage = row.stage,
             new.policy = row.policy, new.evidence = row.evidence,
             "report" \in row.owed => "report" \in new.owed
      PROVE  Keeps(row, new)
  <2>1. new.status \in {"completed", "failed"}
        /\ (new.status = "completed" => action = "approve")
    BY <1>1 DEF ActionStatus
  <2>2. ReportAgrees(new) /\ Packaged(new) /\ PolicyCurrent(new)
    BY <1>1, <2>1 DEF RowOK, ReportAgrees, Packaged, PolicyCurrent
  <2>3. Approvals(new) = Approvals(row)
    BY <1>1 DEF Approvals
  <2> QED BY <1>1, <2>1, <2>2, <2>3 DEF Keeps, RowOK, Grows
<1>2. ActionStatus(action) \in RunStatus
  BY DEF ActionStatus, RunStatus
<1>3. Keeps(row, [row EXCEPT !.status = ActionStatus(action)])
  <2> DEFINE new == [row EXCEPT !.status = ActionStatus(action)]
  <2>1. /\ new \in Rows /\ new.status = ActionStatus(action)
        /\ new.gates = row.gates /\ new.report = row.report
        /\ new.decisions = row.decisions /\ new.stage = row.stage
        /\ new.policy = row.policy /\ new.evidence = row.evidence
        /\ new.owed = row.owed
    BY <1>2 DEF Rows
  <2> HIDE DEF new
  <2>2. Keeps(row, new)
    BY <1>1, <2>1
  <2> QED BY <2>2 DEF new
<1>4. Keeps(row, TaskTold([row EXCEPT !.status = ActionStatus(action)]))
  <2> DEFINE new == TaskTold([row EXCEPT !.status = ActionStatus(action)])
  <2>1. /\ new \in Rows /\ new.status = ActionStatus(action)
        /\ new.gates = row.gates /\ new.report = row.report
        /\ new.decisions = row.decisions /\ new.stage = row.stage
        /\ new.policy = row.policy /\ new.evidence = row.evidence
        /\ new.owed = row.owed \ {"task"}
    BY <1>2, FailedRow
  <2> HIDE DEF new
  <2>2. Keeps(row, new)
    BY <1>1, <2>1
  <2> QED BY <2>2 DEF new
<1> QED BY <1>3, <1>4

LEMMA PipelineGood ==
  ASSUME IInv, NEW h \in Handlers,
         CreateBranch(h) \/ ApplyPatch(h) \/ AssessChanges(h)
           \/ FinishPipeline(h) \/ FailRun(h)
  PROVE  Good
<1>0. handler[h].pc # "idle"
  BY DEF CreateBranch, ApplyPatch, AssessChanges, FinishPipeline, FailRun, At
<1>a. /\ handler[h].run \in Runs /\ RowOf(h) \in Rows /\ RowOK(RowOf(h))
      /\ handler[h].files \in SUBSET FileKinds
  BY <1>0, WaitingRow DEF HandlerStates, IInv, RowsOK, RowOf
<1>b. ASSUME NEW row, Keeps(RowOf(h), row), SetRow(h, row) PROVE AllKeep
  BY <1>a, <1>b, OneRowKeeps DEF SetRow, RowOf
<1>p. RowOf(h).plan \in Plans
  BY <1>a DEF Rows
<1>1. CASE CreateBranch(h)
  <2> DEFINE row == [RowOf(h) EXCEPT !.status = "creating_branch", !.branch = TRUE]
  <2>1. /\ row \in Rows /\ row.status = "creating_branch" /\ row.report = RowOf(h).report
        /\ row.gates = RowOf(h).gates /\ row.policy = RowOf(h).policy
        /\ row.stage = RowOf(h).stage /\ row.evidence = RowOf(h).evidence
        /\ row.decisions = RowOf(h).decisions /\ row.owed = RowOf(h).owed
    BY <1>a DEF Rows, RunStatus, Working
  <2>2. SetRow(h, row)
    BY <1>1 DEF CreateBranch
  <2> HIDE DEF row
  <2>3. Keeps(RowOf(h), row)
    BY <1>a, <2>1, KeepsAway
  <2>4. AllKeep
    BY <1>b, <2>2, <2>3
  <2> QED BY <1>1, <2>4, GotoGood DEF CreateBranch, Pcs
<1>2. CASE ApplyPatch(h)
  <2>1. AllKeep
    BY <1>2, <1>a, <1>b, <1>p, StatusKeeps DEF ApplyPatch, RunStatus, Working
  <2> QED BY <1>2, <2>1, GotoGood DEF ApplyPatch, Pcs
<1>3. CASE AssessChanges(h)
  <2> DEFINE files == tree.tracked \cup tree.untracked
             row == [RowOf(h) EXCEPT !.status = "running_quality_gates",
                                     !.risk = RiskOf(files)]
  <2>1. /\ row \in Rows /\ row.status = "running_quality_gates"
        /\ row.report = RowOf(h).report
        /\ row.gates = RowOf(h).gates /\ row.policy = RowOf(h).policy
        /\ row.stage = RowOf(h).stage /\ row.evidence = RowOf(h).evidence
        /\ row.decisions = RowOf(h).decisions /\ row.owed = RowOf(h).owed
    BY <1>a, RiskType DEF Rows, RunStatus, Working
  <2>2. SetRow(h, row)
    BY <1>3 DEF AssessChanges
  <2>3. handler' = [handler EXCEPT ![h].pc = "quality_gates", ![h].files = files]
    BY <1>3 DEF AssessChanges
  <2> HIDE DEF row, files
  <2>4. Keeps(RowOf(h), row)
    BY <1>a, <2>1, KeepsAway
  <2>5. AllKeep
    BY <1>b, <2>2, <2>4
  <2> QED BY <2>3, <2>5, GotoWithGood DEF Pcs
<1>4. CASE FinishPipeline(h)
  <2> PICK result \in Outcomes : SetRow(h, Finalize(RowOf(h), handler[h].files, result))
    BY <1>4 DEF FinishPipeline
  <2>1. AllKeep
    BY <1>a, <1>b, FinalizeKeeps
  <2> QED BY <1>4, <2>1, ReturnGood DEF FinishPipeline
<1>5. CASE FailRun(h)
  <2>1. AllKeep
    BY <1>5, <1>a, <1>b, <1>p, StatusKeeps DEF FailRun, RunStatus
  <2> QED BY <1>5, <2>1, ReturnGood DEF FailRun
<1> QED BY <1>1, <1>2, <1>3, <1>4, <1>5

LEMMA PlanGood ==
  ASSUME IInv, NEW h \in Handlers,
         FailPlan(h) \/ ExecutePlan(h) \/ AssessPlanChanges(h)
           \/ AbandonPlan(h) \/ BreakPlan(h)
  PROVE  Good
<1>0. handler[h].pc # "idle"
  BY DEF FailPlan, ExecutePlan, AssessPlanChanges, AbandonPlan, BreakPlan, At
<1>a. /\ handler[h].run \in Runs /\ RowOf(h) \in Rows /\ RowOK(RowOf(h))
      /\ handler[h].files \in SUBSET FileKinds
  BY <1>0, WaitingRow DEF HandlerStates, IInv, RowsOK, RowOf
<1>b. ASSUME NEW row, Keeps(RowOf(h), row), SetRow(h, row) PROVE AllKeep
  BY <1>a, <1>b, OneRowKeeps DEF SetRow, RowOf
<1>1. CASE FailPlan(h)
  <2> PICK plan \in FailedPlans :
         /\ SetRow(h, Reconcile(Evaluate(PlanFailed(RowOf(h), plan))))
         /\ AwaitRefresh(h, Reconcile(Evaluate(PlanFailed(RowOf(h), plan))))
    BY <1>1 DEF FailPlan
  <2>1. Keeps(RowOf(h), Reconcile(Evaluate(PlanFailed(RowOf(h), plan))))
    BY <1>a, PlanFailedKeeps DEF Reconcile
  <2>2. AllKeep
    BY <1>b, <2>1
  <2> QED BY <2>2, AwaitGood
<1>2. CASE ExecutePlan(h)
  <2>1. AllKeep
    BY <1>2, <1>a, <1>b, StatusKeeps DEF ExecutePlan, RunStatus, Working, Plans
  <2> QED BY <1>2, <2>1, GotoWithGood DEF ExecutePlan, Pcs
<1>3. CASE AssessPlanChanges(h)
  <2> DEFINE row == [RowOf(h) EXCEPT !.gates = NoGates]
  <2>1. /\ row \in Rows /\ row.status = RowOf(h).status /\ row.report = RowOf(h).report
        /\ row.gates = NoGates /\ row.policy = RowOf(h).policy
        /\ row.stage = RowOf(h).stage /\ row.evidence = RowOf(h).evidence
        /\ row.decisions = RowOf(h).decisions /\ row.owed = RowOf(h).owed
        /\ row.risk = RowOf(h).risk /\ row.replay = RowOf(h).replay
        /\ row.plan = RowOf(h).plan
    BY <1>a DEF Rows, NoGates, Gates
  <2>2. SetRow(h, row)
    BY <1>3 DEF AssessPlanChanges
  <2> HIDE DEF row
  <2>3. Keeps(RowOf(h), row)
    BY <1>a, <2>1, KeepsStatus
  <2>4. AllKeep
    BY <1>b, <2>2, <2>3
  <2> QED BY <1>3, <2>4, GotoWithGood DEF AssessPlanChanges, Pcs
<1>4. CASE AbandonPlan(h)
  BY <1>4, UnchangedKeeps, ReturnGood DEF AbandonPlan
<1>5. CASE BreakPlan(h)
  <2>1. AllKeep
    BY <1>5, <1>a, <1>b, StatusKeeps DEF BreakPlan, RunStatus, Working, Plans
  <2> QED BY <1>5, <2>1, ReturnGood DEF BreakPlan
<1> QED BY <1>1, <1>2, <1>3, <1>4, <1>5

LEMMA ActionGood ==
  ASSUME IInv, NEW h \in Handlers,
         RecordDecision(h) \/ Conclude(h) \/ FinishRefresh(h)
  PROVE  Good
<1>0. handler[h].pc # "idle"
  BY DEF RecordDecision, Conclude, FinishRefresh, At
<1>a. /\ handler[h].run \in Runs /\ RowOf(h) \in Rows /\ RowOK(RowOf(h))
      /\ handler[h] \in HandlerStates
  BY <1>0, WaitingRow DEF IInv, RowsOK, RowOf
<1>b. ASSUME NEW row, Keeps(RowOf(h), row), SetRow(h, row) PROVE AllKeep
  BY <1>a, <1>b, OneRowKeeps DEF SetRow, RowOf
<1>c. /\ handler[h].was \in Snapshots /\ handler[h].action \in Actions
      /\ handler[h].seen \in SUBSET Stages
  BY <1>a DEF HandlerStates
<1>d. HandlerOK(h)
  BY DEF IInv
<1>1. CASE RecordDecision(h)
  <2> DEFINE fresh == Upsert(RowOf(h), handler[h].was)
             row == Decide(fresh, handler[h].action, handler[h].seen)
  <2>1. /\ fresh \in Rows /\ Keeps(RowOf(h), fresh) /\ RowOK(fresh)
        /\ fresh.evidence.present /\ fresh.stage = RowOf(h).stage
    BY <1>a, <1>c, UpsertRow, UpsertKeeps DEF Keeps
  <2>2. handler[h].action = "approve" =>
          \A s \in handler[h].seen : RowOf(h).stage[s] = "approved"
    BY <1>1, <1>d DEF HandlerOK, RecordDecision, At
  <2>3. SetRow(h, row) /\ handler' = [handler EXCEPT ![h].pc = "decided"]
    BY <1>1 DEF RecordDecision, Goto
  <2> HIDE DEF fresh
  <2>4. /\ Keeps(fresh, row) /\ row.evidence.present
        /\ handler[h].action = "approve" => Approvals(row) # {}
    BY <1>c, <2>1, <2>2, DecideKeeps
  <2> HIDE DEF row
  <2>5. AllKeep
    BY <1>b, <2>1, <2>3, <2>4, KeepsTransitive
  <2> DEFINE x == [handler[h] EXCEPT !.pc = "decided"]
  <2>6. /\ handler' = [handler EXCEPT ![h] = x]
        /\ x.pc = "decided" /\ x.action = handler[h].action /\ x.run = handler[h].run
    BY <1>a, <2>3 DEF HandlerStates
  <2> HIDE DEF x
  <2>7. handler'[h] = x /\ db'[x.run] = row
    BY <1>a, <2>3, <2>6 DEF IInv, TypeOK, SetRow
  <2>8. HandlerOK(h)'
    BY <2>4, <2>6, <2>7 DEF HandlerOK, RowOf
  <2> QED BY <2>5, <2>6, <2>8, OthersKept
<1>2. CASE Conclude(h)
  <2> DEFINE row == TaskTold([RowOf(h) EXCEPT !.status = ActionStatus(handler[h].action)])
  <2>1. SetRow(h, row) /\ AwaitRefresh(h, row)
    BY <1>2 DEF Conclude
  <2>2. row.status = ActionStatus(handler[h].action)
    BY <1>a, FailedRow DEF RunStatus, ActionStatus
  <2>3. handler[h].action = "approve" =>
          Approvals(RowOf(h)) # {} /\ RowOf(h).evidence.present
    BY <1>2, <1>d DEF Conclude, HandlerOK
  <2>5. Keeps(RowOf(h), row)
    BY <1>a, <1>c, <2>3, DecidedKeeps
  <2>6. AllKeep
    BY <1>b, <2>1, <2>5
  <2> QED BY <2>1, <2>6, AwaitGood
<1>3. CASE FinishRefresh(h)
  <2>1. Keeps(RowOf(h), Upsert(RowOf(h), handler[h].was))
    BY <1>a, <1>c, UpsertKeeps
  <2>2. AllKeep
    BY <1>3, <1>b, <2>1 DEF FinishRefresh
  <2> QED BY <1>3, <2>2, ReturnGood DEF FinishRefresh
<1> QED BY <1>1, <1>2, <1>3

LEMMA RequestGood ==
  ASSUME IInv, NEW h \in Handlers, NEW r \in Runs, Request(h, r)
  PROVE  Good
<1>0. /\ db[r] \in Rows /\ RowOK(db[r]) /\ Keeps(db[r], db[r])
      /\ Idle \in HandlerStates
  BY IdleType, KeepsItself DEF IInv, TypeOK, RowsOK
<1>p. db[r].plan \in Plans
  BY <1>0 DEF Rows
<1>1. CASE StartRun(h, r)
  <2>1. Keeps(db[r], [db[r] EXCEPT !.status = "preparing_workspace"])
    BY <1>0, <1>p, StatusKeeps DEF RunStatus, Working
  <2> QED BY <1>0, <1>1, <2>1, OpenGood DEF StartRun
<1>2. CASE SubmitPlan(h, r)
  BY <1>0, <1>2, OpenGood DEF SubmitPlan
<1>3. CASE Approve(h, r)
  <2> DEFINE row == Evaluate(db[r])
             fields == [Idle EXCEPT !.action = "approve", !.seen = Existing(row)]
  <2>1. row \in Rows /\ Keeps(db[r], row)
    BY <1>0, EvaluateRow, EvaluateKeeps
  <2>2. Open(h, r, "action_refresh", row, fields) /\ StagesAllow(row)
    BY <1>3 DEF Approve
  <2> HIDE DEF row
  <2>3. fields \in HandlerStates /\ fields.seen = Existing(row)
    BY <1>0 DEF HandlerStates, Actions, Existing
  <2>4. \A s \in Existing(row) : row.stage[s] = "approved"
    BY <2>2 DEF StagesAllow, Unapproved
  <2> HIDE DEF fields
  <2> QED BY <2>1, <2>2, <2>3, <2>4, OpenGood
<1>4. ASSUME NEW action \in {"request_fix", "stop"}, Turn(h, r, action) PROVE Good
  <2> DEFINE fields == [Idle EXCEPT !.action = action]
  <2>1. fields \in HandlerStates /\ fields.action # "approve"
    BY <1>0 DEF HandlerStates, Actions
  <2>2. Open(h, r, "action_refresh", db[r], fields)
    BY <1>4 DEF Turn
  <2> HIDE DEF fields
  <2> QED BY <1>0, <2>1, <2>2, OpenGood
<1>5. CASE RegenerateEvidence(h, r)
  BY <1>0, <1>5, OpenGood DEF RegenerateEvidence
<1>6. CASE GenerateStages(h, r)
  <2>1. Keeps(db[r], Reconcile(db[r]))
    BY <1>0, ReconcileKeeps DEF Reconcile
  <2> QED BY <1>0, <1>6, <2>1, OpenGood DEF GenerateStages
<1>7. CASE EvaluatePolicy(h, r)
  <2>1. Keeps(db[r], Reconcile(Evaluate(db[r])))
    BY <1>0, JudgedKeeps DEF Reconcile
  <2> QED BY <1>0, <1>7, <2>1, OpenGood DEF EvaluatePolicy
<1>8. CASE VerifyReplay(h, r)
  <2>1. Keeps(db[r], Reconcile(Evaluate([db[r] EXCEPT !.replay = ReplayStatus(db[r])])))
    BY <1>0, VerifiedKeeps DEF Reconcile
  <2> QED BY <1>0, <1>8, <2>1, OpenGood DEF VerifyReplay
<1> QED BY <1>1, <1>2, <1>3, <1>4, <1>5, <1>6, <1>7, <1>8 DEF Request

LEMMA InstantGood ==
  ASSUME IInv,
         \/ \E r \in Runs : RefuseApproval(r)
         \/ \E r \in Runs, s \in Stages, verdict \in {"approved", "rejected"} :
              CompleteStage(r, s, verdict)
         \/ Crash
  PROVE  Good
<1>a. ASSUME AllKeep, UNCHANGED handler PROVE Good
  BY <1>a, HandlerKept DEF Good
<1>1. ASSUME NEW r \in Runs, RefuseApproval(r) PROVE Good
  <2>1. Keeps(db[r], Evaluate(db[r]))
    BY EvaluateKeeps DEF IInv, TypeOK, RowsOK
  <2>2. AllKeep
    BY <1>1, <2>1, OneRowKeeps DEF RefuseApproval
  <2> QED BY <1>1, <1>a, <2>2 DEF RefuseApproval
<1>2. ASSUME NEW r \in Runs, NEW s \in Stages, NEW verdict \in {"approved", "rejected"},
             CompleteStage(r, s, verdict)
      PROVE  Good
  <2> DEFINE row == [db[r] EXCEPT !.stage[s] = verdict]
  <2>0. db[r] \in Rows /\ RowOK(db[r]) /\ db[r].stage[s] = "pending"
    BY <1>2 DEF IInv, TypeOK, RowsOK, CompleteStage
  <2>1. /\ row.status = db[r].status /\ row.report = db[r].report
        /\ row.gates = db[r].gates /\ row.policy = db[r].policy
        /\ row.evidence = db[r].evidence /\ row.decisions = db[r].decisions
        /\ row.risk = db[r].risk /\ row.replay = db[r].replay /\ row.plan = db[r].plan
        /\ row.owed = db[r].owed
        /\ \A q \in Stages : q # s => row.stage[q] = db[r].stage[q]
    BY <2>0 DEF Rows
  <2>2. db' = [db EXCEPT ![r] = row]
    BY <1>2 DEF CompleteStage
  <2> HIDE DEF row
  <2>3. \A q \in Stages : db[r].stage[q] \in {"approved", "rejected"} =>
          row.stage[q] = db[r].stage[q]
    BY <2>0, <2>1
  <2>4. Approvals(row) = Approvals(db[r])
    BY <2>1 DEF Approvals
  <2>5. \A i \in Approvals(db[r]) : db[r].decisions[i].seen \subseteq Stages
    BY <2>0, SeenType
  <2>6. PolicyCurrent(row) /\ ReportAgrees(row) /\ Packaged(row)
    <3>1. PolicyCurrent(db[r]) /\ ReportAgrees(db[r]) /\ Packaged(db[r])
      BY <2>0 DEF RowOK
    <3>2. Alike(db[r], row)
      BY <2>1 DEF Alike
    <3> QED BY <2>1, <3>1, <3>2, CurrentKept DEF ReportAgrees, Packaged
  <2>7. Keeps(db[r], row)
    BY <2>0, <2>1, <2>3, <2>4, <2>5, <2>6 DEF Keeps, RowOK, Grows
  <2>8. AllKeep
    BY <2>2, <2>7, OneRowKeeps
  <2> QED BY <1>2, <1>a, <2>8 DEF CompleteStage
<1>3. CASE Crash
  <2>1. AllKeep
    BY <1>3, UnchangedKeeps DEF Crash
  <2>2. ASSUME NEW g \in Handlers PROVE HandlerOK(g)'
    <3>1. handler'[g].pc = "idle"
      BY <1>3 DEF Crash, Die, Idle
    <3> QED BY <3>1 DEF HandlerOK
  <2> QED BY <2>1, <2>2 DEF Good
<1> QED BY <1>1, <1>2, <1>3


-----------------------------------------------------------------------------
(* What a death among the writes of a step leaves                          *)

(* What an approval that was recorded had left unreviewed: nothing.        *)
Reviewed(row) == \A i \in Approvals(row) : row.decisions[i].unreviewed = {}

(* What a row keeps when requests on one run do not overlap ...            *)
SerialRow(row) ==
  /\ row.status = "absent" => row.gates.failed = 0
  /\ row.status = "waiting_for_approval" =>
       /\ row.gates.failed = 0 /\ row.risk # "blocked"
       /\ row.report.can \/ "report" \in row.owed
  /\ Reviewed(row)

(* ... and what a handler that waits may then rely on.                     *)
SerialHandler(x, row) ==
  /\ x.pc \in {"verify_git", "create_branch", "changed_files",
               "plan_changed_files", "quality_gates"} => row.status \in Working
  /\ x.pc \in {"verify_git", "create_branch", "changed_files", "quality_gates"} =>
       row.gates.failed = 0
  /\ x.pc = "action_refresh" /\ x.action = "approve" => Unapproved(row) = {}
  /\ x.pc \in {"action_refresh", "refresh"} => x.was.status = row.status

LEMMA SerialByFields ==
  ASSUME NEW row, NEW new, SerialRow(row),
         \/ new.status = row.status /\ new.risk = row.risk
         \/ new.status \in RunStatus \ {"absent", "waiting_for_approval"},
         new.report = row.report, new.gates.failed = row.gates.failed \/ new.gates.failed = 0,
         new.decisions = row.decisions,
         "report" \in row.owed => "report" \in new.owed
  PROVE  SerialRow(new)
BY DEF SerialRow, Reviewed, Approvals

(* The task is told with the run, or the run owes it, or neither shows     *)
(* anything new.                                                           *)
Mirrored(r, row, new) ==
  \/ "task" \in new.owed
  \/ /\ UNCHANGED task
     /\ "task" \in row.owed => "task" \in new.owed
     /\ \/ new.status = row.status
        \/ new.status \in Working /\ row.status \in Working
  \/ \E st \in TaskStatusesFor(new.status) : SetTask(r, st)

(* The status a death leaves the task in calls for nothing. *)
QuietTask(r) ==
  \/ UNCHANGED task
  \/ \E st \in {"queued", "running", "failed"} : SetTask(r, st)

Leaves(h, row) ==
  /\ SetRow(h, row)
  /\ RowOK(RowOf(h)) /\ HandlerOK(h) => Keeps(RowOf(h), row)
  /\ SerialRow(RowOf(h)) /\ SerialHandler(handler[h], RowOf(h)) =>
       SerialRow(row) /\ Mirrored(handler[h].run, RowOf(h), row)

(* The statuses of a run that a task shows alike. *)
LEMMA Shown ==
  /\ TaskStatusesFor("absent") = {"draft"}
  /\ TaskStatusesFor("pending") = {"queued"}
  /\ \A st \in Working : TaskStatusesFor(st) = {"running"}
  /\ TaskStatusesFor("waiting_for_approval") = {"waiting_for_approval"}
  /\ TaskStatusesFor("completed") = {"approved"}
  /\ TaskStatusesFor("failed") = {"failed", "stopped"}
BY DEF TaskStatusesFor, Working

(* The rows that can be left in the block a pipeline ends in. *)
LEMMA CutRow ==
  ASSUME NEW row \in Rows, NEW files \in SUBSET FileKinds, NEW result \in Outcomes,
         NEW new \in FinalizeCut(row, files, result)
  PROVE  /\ new \in Rows /\ "task" \in new.owed
         /\ RowOK(row) => Keeps(row, new)
         /\ SerialRow(row) /\ row.gates.failed = 0 /\ row.status \in Working => SerialRow(new)
<1> DEFINE owing  == Owing(row, Writes)
           gated  == SaveGates(owing, result)
           saved  == SaveStatus(gated, files, result)
           reported == Reported(owing, files, result)
           judged == Evaluate(reported)
           staged == Reconcile(judged)
           final  == Upsert(staged, SnapshotOf(staged))
<1>0. new \in {gated, saved, reported, final}
        \/ \E some \in FirstStages : new = ReconcileOnly(judged, some)
  BY DEF FinalizeCut
<1>1. /\ owing \in Rows /\ Alike(row, owing) /\ owing.stage = row.stage
      /\ owing.policy = row.policy /\ owing.evidence = row.evidence
      /\ owing.owed = Writes
  <2>1. Writes \in SUBSET Writes /\ row.owed \subseteq Writes
    BY DEF Rows
  <2>2. /\ owing \in Rows /\ Alike(row, owing) /\ owing.stage = row.stage
        /\ owing.policy = row.policy /\ owing.evidence = row.evidence
        /\ owing.owed = row.owed \cup Writes
    BY <2>1, OwingRow
  <2> QED BY <2>1, <2>2
<1> HIDE DEF owing
<1>2. /\ gated \in Rows /\ gated.gates = AddGates(row.gates, result)
      /\ gated.status = row.status /\ gated.report = row.report
      /\ gated.decisions = row.decisions /\ gated.stage = row.stage
      /\ gated.policy = row.policy /\ gated.evidence = row.evidence
      /\ gated.owed = Writes
  BY <1>1, GatedRow DEF Alike
<1> HIDE DEF gated
<1>3. /\ saved \in Rows /\ saved.status \in {"failed", "waiting_for_approval"}
      /\ saved.status = "waiting_for_approval" => result.failed = 0 /\ saved.risk # "blocked"
      /\ saved.gates = gated.gates /\ saved.report = row.report
      /\ saved.decisions = row.decisions /\ saved.stage = row.stage
      /\ saved.policy = row.policy /\ saved.evidence = row.evidence
      /\ saved.owed = Writes
  BY <1>2, SavedRow
<1>4. /\ reported \in Rows /\ reported.status \in {"failed", "waiting_for_approval"}
      /\ reported.report.made /\ (reported.report.can => reported.gates.failed = 0)
      /\ row.gates.failed = 0 /\ reported.status = "waiting_for_approval" =>
           reported.gates.failed = 0 /\ reported.risk # "blocked" /\ reported.report.can
      /\ reported.decisions = row.decisions /\ reported.stage = row.stage
      /\ reported.policy = row.policy /\ reported.evidence = row.evidence
      /\ reported.owed = Writes \ {"report"}
  BY <1>1, ReportedRow DEF Alike
<1> HIDE DEF saved, reported
<1>5. /\ judged \in Rows /\ Alike(reported, judged) /\ judged.policy.status # "none"
      /\ judged.stage = row.stage /\ judged.evidence = row.evidence
      /\ judged.owed = Writes \ {"report", "policy"} /\ PolicyCurrent(judged)
  BY <1>4, EvaluateRow, EvaluateCurrent
<1> HIDE DEF judged
<1>w. Writes = {"report", "policy", "evidence", "task"}
  BY DEF Writes
<1>a. ASSUME NEW x \in Rows, x.owed = Writes,
             x.status = row.status \/ x.status # "completed",
             x.report = row.report, x.decisions = row.decisions, x.stage = row.stage,
             x.policy = row.policy, x.evidence = row.evidence
      PROVE  RowOK(row) => Keeps(row, x)
  <2>1. ReportAgrees(x) /\ Packaged(x) /\ PolicyCurrent(x)
    BY <1>a, <1>w DEF ReportAgrees, Packaged, PolicyCurrent
  <2> QED BY <1>a, <2>1, KeepsByParts
<1>b. ASSUME NEW x \in Rows, Alike(reported, x), x.policy.status # "none",
             row.evidence.present => x.evidence.present,
             x.evidence.present \/ "evidence" \in x.owed, PolicyCurrent(x),
             \A s \in Stages : row.stage[s] # "absent" => x.stage[s] = row.stage[s]
      PROVE  /\ RowOK(row) => Keeps(row, x)
             /\ SerialRow(row) /\ row.gates.failed = 0 => SerialRow(x)
  <2>1. ReportAgrees(x) /\ Packaged(x)
    BY <1>b, <1>4 DEF ReportAgrees, Packaged, Alike
  <2>2. RowOK(row) => Keeps(row, x)
    BY <1>b, <1>4, <2>1, KeepsByParts DEF Alike
  <2> QED BY <1>b, <1>4, <2>2 DEF SerialRow, Reviewed, Approvals, Alike
<1>6. CASE new = gated
  <2>1. SerialRow(row) /\ row.status \in Working => SerialRow(gated)
    BY <1>2 DEF SerialRow, Reviewed, Approvals, Working
  <2> QED BY <1>2, <1>6, <1>a, <1>w, <2>1
<1>7. CASE new = saved
  <2>1. row.gates.failed = 0 => gated.gates.failed = result.failed
    BY <1>2, AddGatesType DEF Rows
  <2>2. SerialRow(row) /\ row.gates.failed = 0 => SerialRow(saved)
    BY <1>3, <1>w, <2>1 DEF SerialRow, Reviewed, Approvals
  <2> QED BY <1>3, <1>7, <1>a, <1>w, <2>2
<1>8. CASE new = reported
  <2>1. ReportAgrees(reported) /\ Packaged(reported) /\ PolicyCurrent(reported)
    BY <1>4, <1>w DEF ReportAgrees, Packaged, PolicyCurrent
  <2>2. RowOK(row) => Keeps(row, reported)
    BY <1>4, <2>1, KeepsByParts
  <2>3. SerialRow(row) /\ row.gates.failed = 0 => SerialRow(reported)
    BY <1>4 DEF SerialRow, Reviewed, Approvals
  <2> QED BY <1>4, <1>8, <1>w, <2>2, <2>3
<1>9. ASSUME NEW some
      PROVE  LET x == ReconcileOnly(judged, some) IN
             /\ x \in Rows /\ Alike(reported, x) /\ x.policy.status # "none"
             /\ x.evidence = row.evidence /\ x.owed = Writes \ {"report", "policy"}
             /\ PolicyCurrent(x)
             /\ \A s \in Stages : row.stage[s] # "absent" => x.stage[s] = row.stage[s]
  <2> DEFINE x == ReconcileOnly(judged, some)
  <2>1. /\ x \in Rows /\ Alike(judged, x) /\ x.evidence = judged.evidence
        /\ x.policy = judged.policy /\ x.owed = judged.owed
        /\ \A s \in Stages : judged.stage[s] # "absent" => x.stage[s] = judged.stage[s]
    BY <1>5, ReconcileRow
  <2> HIDE DEF x
  <2>2. PolicyCurrent(x)
    BY <1>5, <2>1, CurrentKept
  <2>3. Alike(reported, x)
    BY <1>5, <2>1 DEF Alike
  <2> QED BY <1>5, <2>1, <2>2, <2>3 DEF x
<1>10. ASSUME NEW some, new = ReconcileOnly(judged, some)
       PROVE  /\ new \in Rows /\ "task" \in new.owed
              /\ RowOK(row) => Keeps(row, new)
              /\ SerialRow(row) /\ row.gates.failed = 0 => SerialRow(new)
  <2>1. /\ new \in Rows /\ Alike(reported, new) /\ new.policy.status # "none"
        /\ new.evidence = row.evidence /\ new.owed = Writes \ {"report", "policy"}
        /\ PolicyCurrent(new)
        /\ \A s \in Stages : row.stage[s] # "absent" => new.stage[s] = row.stage[s]
    BY <1>9, <1>10
  <2> QED BY <1>b, <1>w, <2>1
<1>11. CASE new = final
  <2>1. /\ staged \in Rows /\ Alike(reported, staged) /\ staged.policy.status # "none"
        /\ staged.owed = Writes \ {"report", "policy"} /\ PolicyCurrent(staged)
        /\ \A s \in Stages : row.stage[s] # "absent" => staged.stage[s] = row.stage[s]
    BY <1>9 DEF Reconcile
  <2> HIDE DEF staged
  <2>2. /\ final \in Rows /\ Alike(staged, final) /\ final.stage = staged.stage
        /\ final.policy = staged.policy /\ final.evidence.present
        /\ final.owed = staged.owed \ {"evidence"}
    BY <2>1, SnapshotType, UpsertRow
  <2> HIDE DEF final
  <2>3. PolicyCurrent(final)
    BY <2>1, <2>2, CurrentKept
  <2>4. Alike(reported, final)
    BY <2>1, <2>2 DEF Alike
  <2> QED BY <1>11, <1>b, <1>w, <2>1, <2>2, <2>3, <2>4
<1> QED BY <1>0, <1>6, <1>7, <1>8, <1>10, <1>11

(* A status told to the run, and the rest owed. *)
LEMMA OwedRow ==
  ASSUME NEW row \in Rows, NEW st \in RunStatus, NEW plan \in Plans,
         NEW writes \in SUBSET Writes
  PROVE  /\ LET new == Owing([row EXCEPT !.status = st], writes) IN
            /\ new \in Rows /\ new.status = st /\ new.plan = row.plan
            /\ new.risk = row.risk /\ new.gates = row.gates /\ new.report = row.report
            /\ new.replay = row.replay /\ new.decisions = row.decisions
            /\ new.stage = row.stage /\ new.policy = row.policy
            /\ new.evidence = row.evidence /\ new.owed = row.owed \cup writes
         /\ LET new == Owing([row EXCEPT !.status = st, !.plan = plan], writes) IN
            /\ new \in Rows /\ new.status = st /\ new.plan = plan
            /\ new.risk = row.risk /\ new.gates = row.gates /\ new.report = row.report
            /\ new.replay = row.replay /\ new.decisions = row.decisions
            /\ new.stage = row.stage /\ new.policy = row.policy
            /\ new.evidence = row.evidence /\ new.owed = row.owed \cup writes
BY DEF Owing, Rows

(* ... a death at which shows in nothing else. *)
LEMMA AwayLeaves ==
  ASSUME TypeOK, NEW h \in Handlers, handler[h].pc # "idle",
         NEW new \in Rows, SetRow(h, new),
         new.status \in RunStatus \ {"absent", "waiting_for_approval", "completed"},
         new.gates = RowOf(h).gates, new.report = RowOf(h).report,
         new.decisions = RowOf(h).decisions, new.stage = RowOf(h).stage,
         new.policy = RowOf(h).policy, new.evidence = RowOf(h).evidence,
         RowOf(h).owed \subseteq new.owed,
         SerialHandler(handler[h], RowOf(h)) => Mirrored(handler[h].run, RowOf(h), new)
  PROVE  Leaves(h, new)
<1>1. RowOf(h) \in Rows
  BY WaitingRow
<1>2. RowOK(RowOf(h)) => Keeps(RowOf(h), new)
  BY <1>1, KeepsAway
<1>3. SerialRow(RowOf(h)) => SerialRow(new)
  BY SerialByFields
<1> QED BY <1>2, <1>3 DEF Leaves

LEMMA PatchingLeaves ==
  ASSUME TypeOK, NEW h \in Handlers, DiePatching(h)
  PROVE  \E row \in Rows : Leaves(h, row)
<1>1. handler[h].pc = "create_branch" /\ UNCHANGED task
  BY DEF DiePatching, At
<1>2. RowOf(h) \in Rows
  BY <1>1, WaitingRow
<1> DEFINE new == [RowOf(h) EXCEPT !.status = "generating_patch"]
<1>3. SetRow(h, new)
  BY DEF DiePatching
<1>4. /\ new \in Rows /\ new.status = "generating_patch"
      /\ new.gates = RowOf(h).gates /\ new.report = RowOf(h).report
      /\ new.decisions = RowOf(h).decisions /\ new.stage = RowOf(h).stage
      /\ new.policy = RowOf(h).policy /\ new.evidence = RowOf(h).evidence
      /\ new.owed = RowOf(h).owed
  BY <1>2 DEF Rows, RunStatus, Working
<1> HIDE DEF new
<1>5. SerialHandler(handler[h], RowOf(h)) => Mirrored(handler[h].run, RowOf(h), new)
  BY <1>1, <1>4 DEF SerialHandler, Mirrored, Working
<1>6. Leaves(h, new)
  BY <1>1, <1>3, <1>4, <1>5, AwayLeaves DEF RunStatus, Working
<1> QED BY <1>4, <1>6

LEMMA FinalizingLeaves ==
  ASSUME TypeOK, NEW h \in Handlers, DieFinalizing(h)
  PROVE  \E row \in Rows : Leaves(h, row)
<1>1. handler[h].pc = "quality_gates"
  BY DEF DieFinalizing, At
<1>2. RowOf(h) \in Rows /\ handler[h].files \in SUBSET FileKinds
  BY <1>1, WaitingRow DEF HandlerStates
<1>a. PICK result \in Outcomes :
        \E new \in FinalizeCut(RowOf(h), handler[h].files, result) : SetRow(h, new)
  BY DEF DieFinalizing
<1>3. PICK new \in FinalizeCut(RowOf(h), handler[h].files, result) : SetRow(h, new)
  BY <1>a
<1>4. /\ new \in Rows /\ "task" \in new.owed
      /\ RowOK(RowOf(h)) => Keeps(RowOf(h), new)
      /\ SerialRow(RowOf(h)) /\ RowOf(h).gates.failed = 0 /\ RowOf(h).status \in Working
           => SerialRow(new)
  BY <1>2, CutRow
<1>5. SerialRow(RowOf(h)) /\ SerialHandler(handler[h], RowOf(h)) => SerialRow(new)
  BY <1>1, <1>4 DEF SerialHandler
<1>6. Mirrored(handler[h].run, RowOf(h), new)
  BY <1>4 DEF Mirrored
<1> QED BY <1>3, <1>4, <1>5, <1>6 DEF Leaves

LEMMA TellingLeaves ==
  ASSUME TypeOK, NEW h \in Handlers, DieTelling(h)
  PROVE  \E row \in Rows : Leaves(h, row)
<1>0. {"task"} \in SUBSET Writes
  BY DEF Writes
<1>1. CASE /\ At(h, "verify_git") \/ At(h, "changed_files")
           /\ SetRow(h, Owing([RowOf(h) EXCEPT !.status = "failed"], {"task"}))
  <2> DEFINE new == Owing([RowOf(h) EXCEPT !.status = "failed"], {"task"})
  <2>1. handler[h].pc # "idle" /\ SetRow(h, new)
    BY <1>1 DEF At
  <2>2. RowOf(h) \in Rows
    BY <2>1, WaitingRow
  <2>3. /\ new \in Rows /\ new.status = "failed"
        /\ new.gates = RowOf(h).gates /\ new.report = RowOf(h).report
        /\ new.decisions = RowOf(h).decisions /\ new.stage = RowOf(h).stage
        /\ new.policy = RowOf(h).policy /\ new.evidence = RowOf(h).evidence
        /\ new.owed = RowOf(h).owed \cup {"task"}
    BY <1>0, <2>2 DEF Owing, Rows, RunStatus
  <2> HIDE DEF new
  <2>4. Mirrored(handler[h].run, RowOf(h), new)
    BY <2>3 DEF Mirrored
  <2>5. Leaves(h, new)
    BY <2>1, <2>3, <2>4, AwayLeaves DEF RunStatus
  <2> QED BY <2>3, <2>5
<1>2. CASE /\ handler[h].pc = "decided"
           /\ SetRow(h, Owing([RowOf(h) EXCEPT !.status = ActionStatus(handler[h].action)],
                              {"task"}))
  <2> DEFINE told == [RowOf(h) EXCEPT !.status = ActionStatus(handler[h].action)]
             new == Owing(told, {"task"})
  <2>1. SetRow(h, new)
    BY <1>2
  <2>2. RowOf(h) \in Rows /\ handler[h].action \in Actions
    BY <1>2, WaitingRow DEF HandlerStates
  <2>3. RowOK(RowOf(h)) /\ HandlerOK(h) => Keeps(RowOf(h), told)
    <3>1. HandlerOK(h) /\ handler[h].action = "approve" =>
            Approvals(RowOf(h)) # {} /\ RowOf(h).evidence.present
      BY <1>2 DEF HandlerOK
    <3> QED BY <2>2, <3>1, DecidedKeeps
  <2>4. /\ told \in Rows /\ told.status \in {"completed", "failed"}
        /\ told.gates = RowOf(h).gates /\ told.report = RowOf(h).report
        /\ told.decisions = RowOf(h).decisions /\ told.owed = RowOf(h).owed
    BY <2>2 DEF Rows, RunStatus, ActionStatus
  <2> HIDE DEF told
  <2>5. /\ new \in Rows /\ Alike(told, new) /\ new.owed = told.owed \cup {"task"}
    BY <1>0, <2>4, OwingRow
  <2>6. RowOK(RowOf(h)) /\ HandlerOK(h) => Keeps(RowOf(h), new)
    BY <1>0, <2>3, <2>4, OwingKeeps, KeepsTransitive DEF Keeps
  <2> HIDE DEF new
  <2>7. SerialRow(RowOf(h)) => SerialRow(new)
    BY <2>4, <2>5, SerialByFields DEF Alike, RunStatus
  <2>8. Mirrored(handler[h].run, RowOf(h), new)
    BY <2>5 DEF Mirrored
  <2> QED BY <2>1, <2>5, <2>6, <2>7, <2>8 DEF Leaves
<1> QED BY <1>1, <1>2 DEF DieTelling

LEMMA ValidatingLeaves ==
  ASSUME TypeOK, NEW h \in Handlers, DieValidating(h)
  PROVE  \E row \in Rows : Leaves(h, row)
<1>1. handler[h].pc = "plan_git" /\ UNCHANGED task
  BY DEF DieValidating, At
<1>2. RowOf(h) \in Rows /\ RowOf(h).status \in RunStatus
  BY <1>1, WaitingRow DEF Rows
<1>3. CASE \E validation \in {"pending", "valid"} :
             SetRow(h, [RowOf(h) EXCEPT
               !.plan = [validation |-> validation, execution |-> "pending"]])
  <2> PICK validation \in {"pending", "valid"} :
             SetRow(h, [RowOf(h) EXCEPT
               !.plan = [validation |-> validation, execution |-> "pending"]])
    BY <1>3
  <2> DEFINE plan == [validation |-> validation, execution |-> "pending"]
             new == [RowOf(h) EXCEPT !.plan = plan]
  <2>1. SetRow(h, new)
    OBVIOUS
  <2>2. plan \in Plans /\ plan.validation = validation
    BY DEF Plans
  <2> HIDE DEF plan
  <2>3. /\ new \in Rows /\ new.status = RowOf(h).status /\ new.risk = RowOf(h).risk
        /\ new.gates = RowOf(h).gates /\ new.report = RowOf(h).report
        /\ new.replay = RowOf(h).replay /\ new.plan = plan
        /\ new.decisions = RowOf(h).decisions /\ new.stage = RowOf(h).stage
        /\ new.policy = RowOf(h).policy /\ new.evidence = RowOf(h).evidence
        /\ new.owed = RowOf(h).owed
    BY <1>2, <2>2 DEF Rows
  <2> HIDE DEF new
  <2>4. RowOK(RowOf(h)) => Keeps(RowOf(h), new)
    BY <1>2, <2>2, <2>3, KeepsStatus
  <2>5. SerialRow(RowOf(h)) => SerialRow(new)
    BY <2>3, SerialByFields
  <2>6. Mirrored(handler[h].run, RowOf(h), new)
    BY <1>1, <2>3 DEF Mirrored
  <2> QED BY <2>1, <2>3, <2>4, <2>5, <2>6 DEF Leaves
<1>4. CASE \E refused \in {<<RowOf(h).status, "pending">>, <<RowOf(h).status, "skipped">>,
                           <<"failed", "skipped">>} :
             SetRow(h, Owing([RowOf(h) EXCEPT
               !.status = refused[1],
               !.plan = [validation |-> "invalid", execution |-> refused[2]]],
               {"policy", "task"}))
  <2> PICK refused \in {<<RowOf(h).status, "pending">>, <<RowOf(h).status, "skipped">>,
                         <<"failed", "skipped">>} :
             SetRow(h, Owing([RowOf(h) EXCEPT
               !.status = refused[1],
               !.plan = [validation |-> "invalid", execution |-> refused[2]]],
               {"policy", "task"}))
    BY <1>4
  <2> DEFINE st == refused[1]
             execution == refused[2]
  <2>1. /\ st \in {RowOf(h).status, "failed"} /\ execution \in {"pending", "skipped"}
        /\ SetRow(h, Owing([RowOf(h) EXCEPT
               !.status = st,
               !.plan = [validation |-> "invalid", execution |-> execution]],
               {"policy", "task"}))
    OBVIOUS
  <2> HIDE DEF st, execution
  <2> DEFINE plan == [validation |-> "invalid", execution |-> execution]
             new == Owing([RowOf(h) EXCEPT !.status = st, !.plan = plan], {"policy", "task"})
  <2>2. SetRow(h, new)
    BY <2>1
  <2>3. plan \in Plans /\ st \in RunStatus /\ {"policy", "task"} \in SUBSET Writes
    BY <1>2, <2>1 DEF Plans, RunStatus, Writes
  <2> HIDE DEF plan
  <2>4. /\ new \in Rows /\ new.status = st /\ new.risk = RowOf(h).risk
        /\ new.gates = RowOf(h).gates /\ new.report = RowOf(h).report
        /\ new.decisions = RowOf(h).decisions /\ new.stage = RowOf(h).stage
        /\ new.policy = RowOf(h).policy /\ new.evidence = RowOf(h).evidence
        /\ new.owed = RowOf(h).owed \cup {"policy", "task"}
    BY <1>2, <2>3 DEF Owing, Rows
  <2> HIDE DEF new
  <2>5. RowOK(RowOf(h)) => Keeps(RowOf(h), new)
    <3>1. CASE st = "failed"
      BY <1>2, <2>4, <3>1, KeepsAway
    <3>2. CASE st = RowOf(h).status
      BY <1>2, <2>4, <3>2, KeepsStatus
    <3> QED BY <2>1, <3>1, <3>2
  <2>6. SerialRow(RowOf(h)) => SerialRow(new)
    BY <2>1, <2>4, SerialByFields DEF RunStatus
  <2>7. Mirrored(handler[h].run, RowOf(h), new)
    BY <2>4 DEF Mirrored
  <2> QED BY <2>2, <2>4, <2>5, <2>6, <2>7 DEF Leaves
<1> QED BY <1>3, <1>4 DEF DieValidating

LEMMA ExecutingLeaves ==
  ASSUME TypeOK, NEW h \in Handlers, DieExecuting(h)
  PROVE  \E row \in Rows : Leaves(h, row)
<1>1. handler[h].pc = "plan_git"
  BY DEF DieExecuting, At
<1>2. RowOf(h) \in Rows
  BY <1>1, WaitingRow
<1>3. ASSUME NEW st \in {"validating_worker_plan", "executing_worker_plan", "failed"},
             NEW execution \in {"pending", "executed", "failed"},
             NEW writes \in SUBSET Writes,
             SetRow(h, Owing([RowOf(h) EXCEPT
               !.status = st,
               !.plan = [validation |-> "valid", execution |-> execution]], writes)),
             \/ "task" \in writes
             \/ SetTask(handler[h].run, "running") /\ st \in Working
      PROVE  \E row \in Rows : Leaves(h, row)
  <2> DEFINE plan == [validation |-> "valid", execution |-> execution]
             new == Owing([RowOf(h) EXCEPT !.status = st, !.plan = plan], writes)
  <2>1. SetRow(h, new)
    BY <1>3
  <2>2. plan \in Plans /\ st \in RunStatus \ {"absent", "waiting_for_approval", "completed"}
    BY DEF Plans, RunStatus, Working
  <2> HIDE DEF plan
  <2>3. /\ new \in Rows /\ new.status = st
        /\ new.gates = RowOf(h).gates /\ new.report = RowOf(h).report
        /\ new.decisions = RowOf(h).decisions /\ new.stage = RowOf(h).stage
        /\ new.policy = RowOf(h).policy /\ new.evidence = RowOf(h).evidence
        /\ new.owed = RowOf(h).owed \cup writes
    BY <1>2, <2>2 DEF Owing, Rows
  <2> HIDE DEF new
  <2>4. Mirrored(handler[h].run, RowOf(h), new)
    <3>1. CASE "task" \in writes
      BY <2>3, <3>1 DEF Mirrored
    <3>2. CASE SetTask(handler[h].run, "running") /\ st \in Working
      BY <2>3, <3>2, Shown DEF Mirrored
    <3> QED BY <1>3, <3>1, <3>2
  <2>5. Leaves(h, new)
    BY <1>1, <2>1, <2>2, <2>3, <2>4, AwayLeaves
  <2> QED BY <2>3, <2>5
<1>w. /\ {} \in SUBSET Writes /\ {"task"} \in SUBSET Writes
      /\ {"policy", "task"} \in SUBSET Writes
      /\ {"validating_worker_plan", "executing_worker_plan"} \subseteq Working
  BY DEF Writes, Working
<1> DEFINE L(st, execution, writes) ==
             SetRow(h, Owing([RowOf(h) EXCEPT
               !.status = st,
               !.plan = [validation |-> "valid", execution |-> execution]], writes))
<1>4. \/ L("validating_worker_plan", "pending", {"task"})
      \/ /\ SetTask(handler[h].run, "running")
         /\ \/ L("validating_worker_plan", "pending", {})
            \/ L("executing_worker_plan", "pending", {})
            \/ L("executing_worker_plan", "executed", {})
            \/ \E st \in {"executing_worker_plan", "failed"} :
                 L(st, "failed", {"policy", "task"})
  BY DEF DieExecuting
<1>5. CASE L("validating_worker_plan", "pending", {"task"})
  BY <1>3, <1>5, <1>w
<1>6. CASE /\ SetTask(handler[h].run, "running")
           /\ \/ L("validating_worker_plan", "pending", {})
              \/ L("executing_worker_plan", "pending", {})
              \/ L("executing_worker_plan", "executed", {})
  BY <1>3, <1>6, <1>w
<1>7. CASE \E st \in {"executing_worker_plan", "failed"} :
             L(st, "failed", {"policy", "task"})
  BY <1>3, <1>7, <1>w
<1> HIDE DEF L
<1> QED BY <1>4, <1>5, <1>6, <1>7

LEMMA FailingLeaves ==
  ASSUME TypeOK, NEW h \in Handlers, DieFailing(h)
  PROVE  \E row \in Rows : Leaves(h, row)
<1>1. handler[h].pc = "plan_git" /\ SetTask(handler[h].run, "failed")
  BY DEF DieFailing, At
<1>2. RowOf(h) \in Rows
  BY <1>1, WaitingRow
<1>3. PICK plan \in FailedPlans :
        \/ SetRow(h, Owing(PlanFailed(RowOf(h), plan), {"policy"}))
        \/ \E some \in FirstStages :
             SetRow(h, ReconcileOnly(Evaluate(PlanFailed(RowOf(h), plan)), some))
  BY DEF DieFailing
<1> DEFINE failed == PlanFailed(RowOf(h), plan)
           judged == Evaluate(failed)
<1>4. /\ failed \in Rows /\ (RowOK(RowOf(h)) => Keeps(RowOf(h), failed))
      /\ RowOK(RowOf(h)) => \A some : Keeps(RowOf(h), ReconcileOnly(judged, some))
  <2>1. failed \in Rows
    BY <1>2, FailedPlansType, PlanRow DEF PlanFailed, RunStatus
  <2> QED BY <1>2, <2>1, PlanFailedKeeps
<1>5. /\ failed.status = "failed" /\ failed.gates = RowOf(h).gates
      /\ failed.report = RowOf(h).report /\ failed.decisions = RowOf(h).decisions
      /\ failed.owed = RowOf(h).owed \ {"task"}
  BY <1>2 DEF PlanFailed, TaskTold, Rows
<1> HIDE DEF failed
<1>6. /\ judged \in Rows /\ Alike(failed, judged)
      /\ judged.owed = failed.owed \ {"policy"}
  BY <1>4, EvaluateRow
<1> HIDE DEF judged
<1>7. ASSUME NEW new \in Rows, SetRow(h, new), Alike(failed, new),
             "report" \in RowOf(h).owed => "report" \in new.owed,
             RowOK(RowOf(h)) => Keeps(RowOf(h), new)
      PROVE  Leaves(h, new)
  <2>1. SerialRow(RowOf(h)) => SerialRow(new)
    BY <1>5, <1>7, SerialByFields DEF Alike, RunStatus
  <2>2. Mirrored(handler[h].run, RowOf(h), new)
    BY <1>1, <1>5, <1>7, Shown DEF Mirrored, Alike
  <2> QED BY <1>7, <2>1, <2>2 DEF Leaves
<1>8. CASE SetRow(h, Owing(failed, {"policy"}))
  <2> DEFINE new == Owing(failed, {"policy"})
  <2>1. new \in Rows /\ Alike(failed, new) /\ new.owed = failed.owed \cup {"policy"}
    BY <1>4, OwingRow DEF Writes
  <2>2. RowOK(RowOf(h)) => Keeps(RowOf(h), new)
    BY <1>4, OwingKeeps, KeepsTransitive DEF Keeps, Writes
  <2> HIDE DEF new
  <2>3. SetRow(h, new)
    BY <1>8 DEF new
  <2> QED BY <1>5, <1>7, <2>1, <2>2, <2>3
<1>9. ASSUME NEW some, SetRow(h, ReconcileOnly(judged, some))
      PROVE  \E row \in Rows : Leaves(h, row)
  <2> DEFINE new == ReconcileOnly(judged, some)
  <2>1. new \in Rows /\ Alike(judged, new) /\ new.owed = judged.owed
    BY <1>6, ReconcileRow
  <2>2. (RowOK(RowOf(h)) => Keeps(RowOf(h), new)) /\ SetRow(h, new)
    BY <1>4, <1>9
  <2> HIDE DEF new
  <2>3. Alike(failed, new)
    BY <1>6, <2>1 DEF Alike
  <2> QED BY <1>5, <1>6, <1>7, <2>1, <2>2, <2>3
<1> QED BY <1>3, <1>8, <1>9 DEF judged, failed

LEMMA DecidingLeaves ==
  ASSUME TypeOK, NEW h \in Handlers, DieDeciding(h)
  PROVE  \E row \in Rows : Leaves(h, row)
<1>1. handler[h].pc # "idle" /\ UNCHANGED task
  BY DEF DieDeciding, At
<1>2. RowOf(h) \in Rows /\ handler[h].was \in Snapshots
  BY <1>1, WaitingRow DEF HandlerStates
<1> DEFINE new == Upsert(RowOf(h), handler[h].was)
<1>3. /\ new \in Rows /\ Alike(RowOf(h), new) /\ new.owed = RowOf(h).owed \ {"evidence"}
      /\ RowOK(RowOf(h)) => Keeps(RowOf(h), new)
  BY <1>2, UpsertRow, UpsertKeeps
<1>4. SetRow(h, new)
  BY DEF DieDeciding
<1> HIDE DEF new
<1>5. SerialRow(RowOf(h)) => SerialRow(new)
  BY <1>3, SerialByFields DEF Alike
<1>6. Mirrored(handler[h].run, RowOf(h), new)
  BY <1>1, <1>3 DEF Mirrored, Alike
<1> QED BY <1>3, <1>4, <1>5, <1>6 DEF Leaves

(* A death in what a handler does. *)
LEMMA DeathInLeaves ==
  ASSUME TypeOK, NEW h \in Handlers, DieIn(h)
  PROVE  /\ handler[h].pc # "idle" /\ Die /\ UNCHANGED requests
         /\ tree' \in Trees /\ QuietTask(handler[h].run)
         /\ \E row \in Rows : Leaves(h, row)
<1>1. \E row \in Rows : Leaves(h, row)
  BY PatchingLeaves, FinalizingLeaves, TellingLeaves, ValidatingLeaves, ExecutingLeaves,
     FailingLeaves, DecidingLeaves DEF DieIn
<1>2. handler[h].pc # "idle" /\ Die /\ UNCHANGED requests
  BY DEF DieIn, DiePatching, DieFinalizing, DieTelling, DieValidating, DieExecuting,
         DieFailing, DieDeciding, At
<1>3. tree' \in Trees
  <2>1. CASE DieExecuting(h)
    BY <2>1, TreeType DEF DieExecuting, TypeOK
  <2>2. CASE DieFailing(h)
    BY <2>2, TreeType DEF DieFailing, TreesAfter, TypeOK
  <2>3. CASE UNCHANGED tree
    BY <2>3 DEF TypeOK
  <2> QED BY <2>1, <2>2, <2>3
          DEF DieIn, DiePatching, DieFinalizing, DieTelling, DieValidating, DieDeciding
<1>4. QuietTask(handler[h].run)
  BY DEF QuietTask, DieIn, DiePatching, DieFinalizing, DieTelling, DieValidating,
         DieExecuting, DieFailing, DieDeciding
<1> QED BY <1>1, <1>2, <1>3, <1>4

(* A death in a request that does not wait. *)
LeavesRow(r, new) ==
  /\ db' = [db EXCEPT ![r] = new]
  /\ RowOK(db[r]) => Keeps(db[r], new)
  /\ SerialRow(db[r]) => SerialRow(new)
  /\ Mirrored(r, db[r], new)

LEMMA StartingLeaves ==
  ASSUME TypeOK, NEW r \in Runs, DieStarting(r)
  PROVE  \E row \in Rows : LeavesRow(r, row)
<1>1. db[r] \in Rows /\ {"task"} \in SUBSET Writes
  BY DEF TypeOK, Writes
<1> DEFINE new == Owing([db[r] EXCEPT !.status = "pending"], {"task"})
<1>2. db' = [db EXCEPT ![r] = new]
  BY DEF DieStarting
<1>3. /\ new \in Rows /\ new.status = "pending"
      /\ new.gates = db[r].gates /\ new.report = db[r].report
      /\ new.decisions = db[r].decisions /\ new.stage = db[r].stage
      /\ new.policy = db[r].policy /\ new.evidence = db[r].evidence
      /\ new.owed = db[r].owed \cup {"task"}
  BY <1>1 DEF Owing, Rows, RunStatus
<1> HIDE DEF new
<1>4. RowOK(db[r]) => Keeps(db[r], new)
  BY <1>1, <1>3, KeepsAway
<1>5. SerialRow(db[r]) => SerialRow(new)
  BY <1>3, SerialByFields DEF RunStatus
<1>6. Mirrored(r, db[r], new)
  BY <1>3 DEF Mirrored
<1> QED BY <1>2, <1>3, <1>4, <1>5, <1>6 DEF LeavesRow

LEMMA ReviewingLeaves ==
  ASSUME TypeOK, NEW r \in Runs, DieReviewing(r)
  PROVE  \E row \in Rows : LeavesRow(r, row)
<1> DEFINE row == db[r]
           verified == [row EXCEPT !.replay = ReplayStatus(row)]
<1>1. row \in Rows /\ UNCHANGED task /\ {"policy"} \in SUBSET Writes
  BY DEF TypeOK, DieReviewing, Writes
<1>2. /\ verified \in Rows /\ verified.status = row.status /\ verified.risk = row.risk
      /\ verified.gates = row.gates /\ verified.report = row.report
      /\ verified.decisions = row.decisions /\ verified.owed = row.owed
  BY <1>1, ReplayRow
<1>3. \A some : RowOK(row) =>
        /\ Keeps(row, Owing(verified, {"policy"}))
        /\ Keeps(row, ReconcileOnly(row, some))
        /\ Keeps(row, ReconcileOnly(Evaluate(row), some))
        /\ Keeps(row, ReconcileOnly(Evaluate(verified), some))
  BY <1>1, VerifiedKeeps, JudgedKeeps, ReconcileKeeps
<1>4. \/ db' = [db EXCEPT ![r] = Owing(verified, {"policy"})]
      \/ \E some : \/ db' = [db EXCEPT ![r] = ReconcileOnly(row, some)]
                   \/ db' = [db EXCEPT ![r] = ReconcileOnly(Evaluate(row), some)]
                   \/ db' = [db EXCEPT ![r] = ReconcileOnly(Evaluate(verified), some)]
  BY DEF DieReviewing
<1> HIDE DEF verified
<1>5. ASSUME NEW new \in Rows, db' = [db EXCEPT ![r] = new],
             RowOK(row) => Keeps(row, new),
             new.status = row.status, new.risk = row.risk, new.gates = row.gates,
             new.report = row.report, new.decisions = row.decisions,
             row.owed \ {"policy"} \subseteq new.owed
      PROVE  LeavesRow(r, new)
  <2>1. SerialRow(row) => SerialRow(new)
    BY <1>5, SerialByFields
  <2>2. Mirrored(r, row, new)
    BY <1>1, <1>5 DEF Mirrored
  <2> QED BY <1>5, <2>1, <2>2 DEF LeavesRow
<1>6. CASE db' = [db EXCEPT ![r] = Owing(verified, {"policy"})]
  <2> DEFINE new == Owing(verified, {"policy"})
  <2>1. new \in Rows /\ Alike(verified, new) /\ new.owed = verified.owed \cup {"policy"}
    BY <1>1, <1>2, OwingRow
  <2>2. (RowOK(row) => Keeps(row, new)) /\ db' = [db EXCEPT ![r] = new]
    BY <1>3, <1>6
  <2> HIDE DEF new
  <2>3. LeavesRow(r, new)
    BY <1>2, <1>5, <2>1, <2>2 DEF Alike
  <2> QED BY <2>1, <2>3
<1>7. ASSUME NEW some, NEW base \in Rows,
             base.status = row.status, base.risk = row.risk, base.gates = row.gates,
             base.report = row.report, base.decisions = row.decisions,
             row.owed \ {"policy"} \subseteq base.owed,
             db' = [db EXCEPT ![r] = ReconcileOnly(base, some)],
             RowOK(row) => Keeps(row, ReconcileOnly(base, some))
      PROVE  \E new \in Rows : LeavesRow(r, new)
  <2> DEFINE new == ReconcileOnly(base, some)
  <2>1. new \in Rows /\ Alike(base, new) /\ new.owed = base.owed
    BY <1>7, ReconcileRow
  <2>2. (RowOK(row) => Keeps(row, new)) /\ db' = [db EXCEPT ![r] = new]
    BY <1>7
  <2> HIDE DEF new
  <2>3. LeavesRow(r, new)
    BY <1>5, <1>7, <2>1, <2>2 DEF Alike
  <2> QED BY <2>1, <2>3
<1>8. ASSUME NEW base \in Rows
      PROVE  /\ Evaluate(base) \in Rows /\ Alike(base, Evaluate(base))
             /\ Evaluate(base).owed = base.owed \ {"policy"}
  BY <1>8, EvaluateRow
<1>9. ASSUME NEW some,
             \/ db' = [db EXCEPT ![r] = ReconcileOnly(row, some)]
             \/ db' = [db EXCEPT ![r] = ReconcileOnly(Evaluate(row), some)]
             \/ db' = [db EXCEPT ![r] = ReconcileOnly(Evaluate(verified), some)]
      PROVE  \E new \in Rows : LeavesRow(r, new)
  <2>1. CASE db' = [db EXCEPT ![r] = ReconcileOnly(row, some)]
    BY <1>1, <1>3, <1>7, <2>1
  <2>2. CASE db' = [db EXCEPT ![r] = ReconcileOnly(Evaluate(row), some)]
    BY <1>1, <1>3, <1>7, <1>8, <2>2 DEF Alike
  <2>3. CASE db' = [db EXCEPT ![r] = ReconcileOnly(Evaluate(verified), some)]
    BY <1>2, <1>3, <1>7, <1>8, <2>3 DEF Alike
  <2> QED BY <1>9, <2>1, <2>2, <2>3
<1> QED BY <1>4, <1>6, <1>9

LEMMA DeathOverLeaves ==
  ASSUME TypeOK, NEW r \in Runs, DieOver(r)
  PROVE  /\ Die /\ Arrive /\ UNCHANGED tree /\ QuietTask(r)
         /\ \E row \in Rows : LeavesRow(r, row)
<1>1. \E row \in Rows : LeavesRow(r, row)
  BY StartingLeaves, ReviewingLeaves DEF DieOver
<1>2. QuietTask(r)
  <2>1. CASE DieReviewing(r)
    BY <2>1 DEF DieReviewing, QuietTask
  <2>2. CASE DieStarting(r)
    <3>1. SetTask(r, task[TaskOf[r]]) => UNCHANGED task
      BY RunAssumption DEF SetTask, TypeOK
    <3> QED BY <2>2, <3>1 DEF DieStarting, QuietTask
  <2> QED BY <2>1, <2>2 DEF DieOver
<1> QED BY <1>1, <1>2 DEF DieOver, DieStarting, DieReviewing

(* After a death nobody waits. *)
LEMMA DeathType ==
  ASSUME TypeOK, Die
  PROVE  /\ handler' \in [Handlers -> HandlerStates]
         /\ \A h \in Handlers : handler'[h].run = None /\ handler'[h].pc = "idle"
         /\ crashes' \in 0..MaxCrashes /\ crashes' # 0
<1>1. Idle.run = None /\ Idle.pc = "idle"
  BY DEF Idle
<1> QED BY <1>1, IdleType, BoundAssumption DEF Die, TypeOK

LEMMA QuietTaskType ==
  ASSUME TypeOK, NEW r \in Runs, QuietTask(r) PROVE task' \in [Tasks -> TaskStatus]
<1>1. CASE UNCHANGED task
  BY <1>1 DEF TypeOK
<1>2. ASSUME NEW st \in {"queued", "running", "failed"}, SetTask(r, st)
      PROVE  task' \in [Tasks -> TaskStatus]
  BY <1>2, TaskUpdate DEF TaskStatus
<1> QED BY <1>1, <1>2 DEF QuietTask

LEMMA DeathInvariant ==
  ASSUME IInv, (\E h \in Handlers : DieIn(h)) \/ (\E r \in Runs : DieOver(r))
  PROVE  TypeOK' /\ Good
<1>1. ASSUME Die, NEW r \in Runs, NEW row \in Rows, db' = [db EXCEPT ![r] = row],
             Keeps(db[r], row), QuietTask(r), tree' \in Trees,
             UNCHANGED requests \/ Arrive
      PROVE  TypeOK' /\ Good
  <2>1. /\ handler' \in [Handlers -> HandlerStates]
        /\ \A h \in Handlers : handler'[h].run = None /\ handler'[h].pc = "idle"
        /\ crashes' \in 0..MaxCrashes
    BY <1>1, DeathType DEF IInv
  <2>2. task' \in [Tasks -> TaskStatus] /\ db' \in [Runs -> Rows]
    BY <1>1, QuietTaskType, RowUpdate DEF IInv
  <2>3. requests' \in 0..MaxRequests
    BY <1>1, BoundAssumption DEF Arrive, IInv, TypeOK
  <2>4. AllKeep
    BY <1>1, OneRowKeeps
  <2>5. \A h \in Handlers : HandlerOK(h)'
    BY <2>1 DEF HandlerOK
  <2> QED BY <1>1, <2>1, <2>2, <2>3, <2>4, <2>5 DEF TypeOK, Good
<1>2. ASSUME NEW h \in Handlers, DieIn(h) PROVE TypeOK' /\ Good
  <2>1. /\ handler[h].pc # "idle" /\ Die /\ UNCHANGED requests
        /\ tree' \in Trees /\ QuietTask(handler[h].run)
    BY <1>2, DeathInLeaves DEF IInv
  <2>2. PICK row \in Rows : Leaves(h, row)
    BY <1>2, DeathInLeaves DEF IInv
  <2>3. handler[h].run \in Runs
    BY <2>1, WaitingRow DEF IInv
  <2>4. RowOK(RowOf(h)) /\ HandlerOK(h)
    BY <2>3 DEF IInv, RowsOK, RowOf
  <2>5. db' = [db EXCEPT ![handler[h].run] = row] /\ Keeps(db[handler[h].run], row)
    BY <2>2, <2>4 DEF Leaves, SetRow, RowOf
  <2> QED BY <1>1, <2>1, <2>3, <2>5
<1>3. ASSUME NEW r \in Runs, DieOver(r) PROVE TypeOK' /\ Good
  <2>1. Die /\ Arrive /\ UNCHANGED tree /\ QuietTask(r)
    BY <1>3, DeathOverLeaves DEF IInv
  <2>2. PICK row \in Rows : LeavesRow(r, row)
    BY <1>3, DeathOverLeaves DEF IInv
  <2>3. RowOK(db[r]) /\ tree' \in Trees
    BY <2>1 DEF IInv, RowsOK, TypeOK
  <2> QED BY <1>1, <2>1, <2>2, <2>3 DEF LeavesRow
<1> QED BY <1>2, <1>3

LEMMA NextGood == ASSUME IInv, [Next]_vars PROVE TypeOK' /\ Good
<1>1. ASSUME NEW h \in Handlers, Resume(h) PROVE TypeOK' /\ Good
  <2>1. TypeOK'
    BY <1>1, PipelineType, PlanType, ActionType DEF Resume, IInv
  <2> QED BY <1>1, <2>1, PipelineGood, PlanGood, ActionGood DEF Resume
<1>2. ASSUME NEW h \in Handlers, NEW r \in Runs, Request(h, r) PROVE TypeOK' /\ Good
  BY <1>2, RequestType, RequestGood DEF IInv
<1>3. CASE \/ \E r \in Runs : RefuseApproval(r)
           \/ \E r \in Runs, s \in Stages, verdict \in {"approved", "rejected"} :
                CompleteStage(r, s, verdict)
           \/ Crash
  BY <1>3, InstantType, InstantGood DEF IInv
<1>4. CASE UNCHANGED vars
  BY <1>4, UnchangedKeeps, HandlerKept DEF vars, Good, IInv, TypeOK
<1> QED BY <1>1, <1>2, <1>3, <1>4, DeathInvariant DEF Next

LEMMA InitInvariant == ASSUME Init PROVE IInv
<1>1. TypeOK
  BY InitType
<1>2. Approvals(EmptyRow) = {}
  BY DEF Approvals, EmptyRow
<1>3. RowOK(EmptyRow)
  BY <1>2 DEF RowOK, ReportAgrees, Packaged, PolicyCurrent, EmptyRow, NoGates
<1>4. \A h \in Handlers : HandlerOK(h)
  BY DEF Init, HandlerOK, Idle
<1> QED BY <1>1, <1>3, <1>4 DEF Init, IInv, RowsOK

LEMMA NextInvariant == ASSUME IInv, [Next]_vars PROVE IInv'
BY NextGood DEF IInv, Good, AllKeep, Keeps, RowsOK

(* The inductive invariant of the module. *)
THEOREM Invariant == Spec => []IInv
<1>1. Init => IInv
  BY InitInvariant
<1>2. IInv /\ [Next]_vars => IInv'
  BY NextInvariant
<1> QED BY <1>1, <1>2, PTL DEF Spec

(* Every table and every handler keeps its type. *)
THEOREM TypeCorrect == Spec => []TypeOK
<1>1. IInv => TypeOK
  BY DEF IInv
<1> QED BY <1>1, Invariant, PTL

-----------------------------------------------------------------------------
(* What the invariant is for *)

(* A report that allows approval never stands over a stored gate failure,  *)
(* however many pipelines of the run overlap, unless a death left the      *)
(* report of a failed attempt unwritten.                                   *)
THEOREM ReportsAgreeWithGates == Spec => []CanApproveMeansNoFailedGate
<1>1. IInv => CanApproveMeansNoFailedGate
  BY DEF IInv, RowsOK, RowOK, ReportAgrees, CanApproveMeansNoFailedGate
<1> QED BY <1>1, Invariant, PTL

(* A run that waits for an approval lacks report, policy or bundle only    *)
(* when a death fell between its status and that write.                    *)
THEOREM WaitingIsPackaged == Spec => []WaitingHasPackage
<1>1. IInv => WaitingHasPackage
  BY DEF IInv, RowsOK, RowOK, Packaged, WaitingHasPackage
<1> QED BY <1>1, Invariant, PTL

(* Only a recorded approval completes a run. *)
THEOREM CompletionIsApproved == Spec => []CompletedHasApproval
<1>1. IInv => CompletedHasApproval
  BY DEF IInv, RowsOK, RowOK, CompletedHasApproval
<1> QED BY <1>1, Invariant, PTL

(* What the gate of an approval saw approved stays approved. *)
THEOREM ReviewsStand == Spec => []SeenStagesStayApproved
<1>1. IInv => SeenStagesStayApproved
  BY DEF IInv, RowsOK, RowOK, SeenStagesStayApproved
<1> QED BY <1>1, Invariant, PTL

(* An approval in flight keeps its ground between its gate and its last    *)
(* write.                                                                  *)
THEOREM ApprovalsInFlight == Spec => []ApprovalInFlight
<1>1. IInv => ApprovalInFlight
  BY DEF IInv, HandlerOK, ApprovalInFlight
<1> QED BY <1>1, Invariant, PTL

(* No step revises a reviewer's verdict. *)
THEOREM VerdictsStand == Spec => StageVerdictsStand
<1>1. IInv /\ [Next]_vars =>
        [\A r \in Runs, s \in Stages :
           db[r].stage[s] \in {"approved", "rejected"} =>
             db'[r].stage[s] = db[r].stage[s]]_vars
  BY NextGood DEF Good, AllKeep, Keeps, Grows
<1> QED BY <1>1, Invariant, PTL DEF Spec, StageVerdictsStand

-----------------------------------------------------------------------------
(* What the run page offers *)

(* The counts on the page. *)
LEMMA StagesInType ==
  ASSUME NEW row, NEW state
  PROVE  /\ IsFiniteSet({s \in Stages : row.stage[s] = state})
         /\ StagesIn(row, state) \in Nat
<1>1. IsFiniteSet({}) /\ \A T, x : IsFiniteSet(T) => IsFiniteSet(T \cup {x})
  BY FS_EmptySet, FS_AddElement
<1>2. Stages = (((({} \cup {"architecture_review"}) \cup {"implementation_review"})
                  \cup {"risky_diff_review"}) \cup {"release_readiness_review"})
  BY DEF Stages
<1>3. IsFiniteSet(Stages)
  BY <1>1, <1>2
<1>4. IsFiniteSet({s \in Stages : row.stage[s] = state})
  BY <1>3, FS_Subset
<1> QED BY <1>4, FS_CardinalityType DEF StagesIn

LEMMA NoStagesIn ==
  ASSUME NEW row, NEW state, ~(StagesIn(row, state) > 0)
  PROVE  \A s \in Stages : row.stage[s] # state
<1> DEFINE S == {s \in Stages : row.stage[s] = state}
<1>1. IsFiniteSet(S) /\ StagesIn(row, state) \in Nat
  BY StagesInType
<1>2. StagesIn(row, state) = Cardinality(S)
  BY DEF StagesIn
<1> HIDE DEF S
<1>3. Cardinality(S) = 0
  BY <1>1, <1>2
<1>4. S = {}
  BY <1>1, <1>3, FS_EmptySet
<1> QED BY <1>4 DEF S

(* What the page, the queue and the list of issues have in common when     *)
(* they call for an approval.  chain is whatever the audit chain is said   *)
(* to be.                                                                  *)
LEMMA OfferIsAccepted ==
  ASSUME NEW r \in Runs, NEW chain \in BOOLEAN, db[r] \in Rows, RowOK(db[r]),
         "policy" \notin db[r].owed,
         db[r].status = "waiting_for_approval", db[r].report.can,
         db[r].policy.status # "blocked", ~G!ReviewOpen(Summary(r, chain)),
         NEW rationale \in BOOLEAN,
         db[r].policy.status = "requires_review" => rationale
  PROVE  Accepted(r, rationale)
<1> DEFINE row == Evaluate(db[r])
<1>1. /\ row.policy.status = PolicyStatus(db[r]) /\ row.report = db[r].report
      /\ row.evidence = db[r].evidence /\ row.stage = db[r].stage
  BY EvaluateRow DEF Alike
<1>2. ~PolicyBlocks(db[r]) /\ PolicyStatus(db[r]) # "blocked"
  BY DEF RowOK, PolicyCurrent, PolicyStatus
<1>3. PolicyStatus(db[r]) = "requires_review" => rationale
  BY DEF RowOK, PolicyCurrent, PolicyStatus
<1>4. db[r].evidence.present
  BY <1>2 DEF PolicyBlocks
<1>5. \A s \in Stages : db[r].stage[s] \notin {"pending", "rejected"}
  <2>1. /\ ~(StagesIn(db[r], "pending") > 0)
        /\ ~(StagesIn(db[r], "rejected") > 0)
    BY DEF G!ReviewOpen, Summary
  <2> QED BY <2>1, NoStagesIn
<1>6. Unapproved(row) = {}
  BY <1>1, <1>5 DEF Unapproved, Existing, Rows, StageStates
<1> HIDE DEF row
<1>7. Accepted(r, rationale) <=>
        ReportAllows(row) /\ PolicyAllows(row, rationale) /\ row.evidence.present
          /\ StagesAllow(row)
  BY DEF Accepted, row
<1> QED BY <1>1, <1>2, <1>3, <1>4, <1>6, <1>7 DEF ReportAllows, PolicyAllows, StagesAllow

LEMMA OffersAccepted == ASSUME IInv PROVE OfferedApprovalIsAccepted
<1> SUFFICES ASSUME NEW r \in Runs, NEW chain \in BOOLEAN, Exists(r),
                    "policy" \notin db[r].owed
    PROVE LET s == Summary(r, chain) IN
          /\ G!ApprovalAvailable(s) => Accepted(r, G!RationaleAsked(s))
          /\ G!Queue(s) = "decide" /\ s.policy # "blocked" => Accepted(r, TRUE)
          /\ /\ "approval-pending" \in G!Issues(s)
             /\ G!Issues(s) \cap {"policy-blocked", "review-stages-rejected",
                                  "review-stages-pending"} = {}
             => Accepted(r, FALSE)
  BY DEF OfferedApprovalIsAccepted
<1> DEFINE s == Summary(r, chain)
<1>0. db[r] \in Rows /\ RowOK(db[r])
  BY DEF IInv, TypeOK, RowsOK
<1>1. /\ s.status = db[r].status /\ s.can = db[r].report.can
      /\ s.policy = db[r].policy.status
  BY DEF Summary
<1>a. s.stages = [approved |-> StagesIn(db[r], "approved"),
                  pending |-> StagesIn(db[r], "pending"),
                  rejected |-> StagesIn(db[r], "rejected")]
  BY DEF Summary
<1>2. ASSUME G!ApprovalAvailable(s) PROVE Accepted(r, G!RationaleAsked(s))
  <2>1. /\ s.status = "waiting_for_approval" /\ s.can /\ s.policy # "blocked"
        /\ ~G!ReviewOpen(s)
    BY <1>2 DEF G!ApprovalAvailable
  <2>2. G!RationaleAsked(s) = (s.policy = "requires_review")
    BY DEF G!RationaleAsked
  <2> QED BY <1>0, <1>1, <2>1, <2>2, OfferIsAccepted
<1>3. ASSUME G!Queue(s) = "decide", s.policy # "blocked" PROVE Accepted(r, TRUE)
  <2> HIDE DEF s
  <2>1. s.status = "waiting_for_approval" /\ s.can /\ ~G!ReviewOpen(s)
    BY <1>3 DEF G!Queue
  <2> USE DEF s
  <2> QED BY <1>0, <1>1, <1>3, <2>1, OfferIsAccepted
<1>4. ASSUME "approval-pending" \in G!Issues(s),
             G!Issues(s) \cap {"policy-blocked", "review-stages-rejected",
                               "review-stages-pending"} = {}
      PROVE  Accepted(r, FALSE)
  <2> HIDE DEF s
  <2>1. "approval-pending" \in G!ApprovalIssues(s)
    BY <1>4 DEF G!Issues, G!ReviewIssues, G!ReleaseIssues
  <2>2. s.status = "waiting_for_approval" /\ s.can /\ s.policy # "requires_review"
    BY <2>1 DEF G!ApprovalIssues
  <2>3. {"policy-blocked", "review-stages-rejected", "review-stages-pending"}
          \cap G!ReviewIssues(s) = {}
    BY <1>4 DEF G!Issues
  <2>4. s.policy # "blocked" /\ ~(s.stages.rejected > 0)
        /\ ~(s.stages.rejected = 0 /\ s.stages.pending > 0)
    BY <2>3 DEF G!ReviewIssues
  <2> USE DEF s
  <2>5. s.stages.rejected \in Nat
    <3>1. StagesIn(db[r], "rejected") \in Nat
      BY StagesInType
    <3> QED BY <1>a, <3>1
  <2>6. ~G!ReviewOpen(s)
    BY <2>4, <2>5 DEF G!ReviewOpen
  <2> QED BY <1>0, <1>1, <2>2, <2>4, <2>6, OfferIsAccepted
<1> QED BY <1>2, <1>3, <1>4

(* An approval that the run page, the queue or the issue list offers is    *)
(* accepted by the handler.                                                *)
THEOREM OffersAreAccepted == Spec => []OfferedApprovalIsAccepted
<1>1. IInv => OfferedApprovalIsAccepted
  BY OffersAccepted
<1> QED BY <1>1, Invariant, PTL

-----------------------------------------------------------------------------
(* When requests on one run do not overlap                                 *)

(* The bundle of a completed run shows it completed, once nobody is about  *)
(* to write it.                                                            *)
Captured(row) == row.status = "completed" => row.evidence.status = "completed"

CapturedAt(r) ==
  crashes = 0 /\ (\A h \in Handlers : handler[h].run = r => handler[h].pc # "refresh")
    => Captured(db[r])

SInv ==
  /\ OnePerRun
  /\ \A r \in Runs : SerialRow(db[r]) /\ CapturedAt(r)
  /\ \A h \in Handlers : handler[h].pc # "idle" => SerialHandler(handler[h], RowOf(h))

(* One handler moves, on one run: nobody else is there. *)
LEMMA Alone ==
  ASSUME IInv, SInv, IInv', OnePerRun', NEW h \in Handlers, NEW r \in Runs,
         NEW row, NEW x,
         db' = [db EXCEPT ![r] = row], handler' = [handler EXCEPT ![h] = x],
         handler[h].run = r \/ x.run = r,
         handler[h].run \in {r, None}, x.run \in {r, None},
         crashes' = crashes,
         SerialRow(row),
         x.pc # "idle" => SerialHandler(x, row),
         x.pc # "refresh" /\ crashes = 0 => Captured(row)
  PROVE  SInv'
<1>0. /\ handler'[h] = x /\ db'[r] = row
      /\ \A g \in Handlers : g # h => handler'[g] = handler[g]
      /\ \A q \in Runs : q # r => db'[q] = db[q]
  BY DEF IInv, TypeOK
<1>1. ASSUME NEW q \in Runs PROVE SerialRow(db'[q])
  BY <1>0 DEF SInv
<1>2. ASSUME NEW g \in Handlers, handler'[g].pc # "idle"
      PROVE  SerialHandler(handler'[g], RowOf(g)')
  <2>1. CASE g = h
    <3>1. x.run # None
      BY <1>0, <1>2, <2>1 DEF IInv, TypeOK
    <3> QED BY <1>0, <1>2, <2>1, <3>1 DEF RowOf
  <2>2. CASE g # h
    <3>1. handler[g].run \in Runs /\ handler[g].run # None
      BY <1>0, <1>2, <2>2, WaitingRow, RunAssumption DEF IInv
    <3>2. handler[g].run # r
      <4>1. CASE x.run = r
        BY <1>0, <2>2, <3>1, <4>1 DEF OnePerRun
      <4>2. CASE x.run = None /\ handler[h].run = r
        BY <2>2, <3>1, <4>2 DEF SInv, OnePerRun
      <4> QED BY <4>1, <4>2
    <3> QED BY <1>0, <1>2, <2>2, <3>1, <3>2 DEF SInv, RowOf
  <2> QED BY <2>1, <2>2
<1>3. ASSUME NEW q \in Runs PROVE CapturedAt(q)'
  <2>1. CASE q = r
    <3>1. x.run = None => x.pc # "refresh"
      BY <1>0 DEF IInv, TypeOK
    <3>3. CASE x.pc # "refresh"
      BY <1>0, <2>1, <3>3 DEF CapturedAt
    <3>4. CASE x.pc = "refresh"
      BY <1>0, <2>1, <3>1, <3>4 DEF CapturedAt
    <3> QED BY <3>3, <3>4
  <2>2. CASE q # r
    BY <1>0, <2>2, RunAssumption DEF CapturedAt, SInv
  <2> QED BY <2>1, <2>2
<1> QED BY <1>1, <1>2, <1>3 DEF SInv

(* What a handler alone on its run finds there. *)
LEMMA Found ==
  ASSUME IInv, SInv, NEW h \in Handlers, handler[h].pc # "idle"
  PROVE  /\ handler[h].run \in Runs /\ RowOf(h) \in Rows
         /\ handler[h] \in HandlerStates
         /\ SerialRow(RowOf(h)) /\ SerialHandler(handler[h], RowOf(h))
         /\ handler[h].pc # "refresh" /\ crashes = 0 => Captured(RowOf(h))
<1>1. handler[h].run \in Runs /\ RowOf(h) \in Rows /\ handler[h] \in HandlerStates
  BY WaitingRow DEF IInv
<1>2. ASSUME handler[h].pc # "refresh", crashes = 0 PROVE Captured(RowOf(h))
  <2>1. ASSUME NEW g \in Handlers, handler[g].run = handler[h].run
        PROVE  handler[g].pc # "refresh"
    BY <1>1, <1>2, <2>1, RunAssumption DEF SInv, OnePerRun
  <2> QED BY <1>1, <1>2, <2>1 DEF SInv, CapturedAt, RowOf
<1> QED BY <1>1, <1>2 DEF SInv, RowOf

(* A handler that ends its work, or goes on to another wait. *)
LEMMA Moves ==
  ASSUME IInv, SInv, IInv', OnePerRun', NEW h \in Handlers, handler[h].pc # "idle",
         NEW row, NEW x, SetRow(h, row), handler' = [handler EXCEPT ![h] = x],
         x.run \in {handler[h].run, None}, crashes' = crashes,
         SerialRow(row),
         x.pc # "idle" => SerialHandler(x, row),
         x.pc # "refresh" /\ crashes = 0 => Captured(row)
  PROVE  SInv'
BY Found, Alone DEF SetRow

LEMMA Returns ==
  ASSUME IInv, SInv, IInv', OnePerRun', NEW h \in Handlers, handler[h].pc # "idle",
         NEW row, SetRow(h, row), Return(h), crashes' = crashes,
         SerialRow(row), crashes = 0 => Captured(row)
  PROVE  SInv'
<1>1. Idle.pc = "idle" /\ Idle.run = None
  BY DEF Idle
<1> QED BY <1>1, Moves DEF Return

LEMMA Awaits ==
  ASSUME IInv, SInv, IInv', OnePerRun', NEW h \in Handlers, handler[h].pc # "idle",
         NEW row, SetRow(h, row), AwaitRefresh(h, row), crashes' = crashes,
         SerialRow(row)
  PROVE  SInv'
<1> DEFINE x == [Idle EXCEPT !.pc = "refresh", !.run = handler[h].run,
                             !.was = SnapshotOf(row)]
<1>1. /\ x.pc = "refresh" /\ x.run = handler[h].run /\ x.was.status = row.status
      /\ handler' = [handler EXCEPT ![h] = x]
  BY DEF Idle, SnapshotOf, AwaitRefresh
<1> HIDE DEF x
<1>2. SerialHandler(x, row)
  BY <1>1 DEF SerialHandler
<1> QED BY <1>1, <1>2, Moves

LEMMA FinalizeSerial ==
  ASSUME NEW row \in Rows, NEW files \in SUBSET FileKinds, NEW result \in Outcomes,
         SerialRow(row), row.gates.failed = 0
  PROVE  /\ SerialRow(Finalize(row, files, result))
         /\ Captured(Finalize(row, files, result))
<1> DEFINE reported == Reported(row, files, result)
           new == Finalize(row, files, result)
<1>1. /\ reported.status \in {"failed", "waiting_for_approval"}
      /\ reported.status = "waiting_for_approval" =>
           reported.gates.failed = 0 /\ reported.risk # "blocked" /\ reported.report.can
      /\ reported.decisions = row.decisions
  BY ReportedRow
<1>2. Alike(reported, new)
  BY FinalizeRow
<1> HIDE DEF reported, new
<1>3. SerialRow(new) /\ Captured(new)
  BY <1>1, <1>2 DEF SerialRow, Reviewed, Approvals, Captured, Alike
<1> QED BY <1>3 DEF new

LEMMA DecideSerial ==
  ASSUME NEW row \in Rows, SerialRow(row), NEW action \in Actions,
         NEW seen \in SUBSET Stages, action = "approve" => Unapproved(row) = {}
  PROVE  SerialRow(Decide(row, action, seen))
<1> DEFINE d == Record(row, action, seen)
           new == Decide(row, action, seen)
           n == Len(row.decisions)
<1>1. d \in Decisions /\ d.action = action /\ d.unreviewed = Unapproved(row)
  BY RecordType
<1>2. row.decisions \in Seq(Decisions)
  BY DEF Rows
<1>3. /\ new.decisions = Append(row.decisions, d) /\ new.status = row.status
      /\ new.risk = row.risk /\ new.report = row.report /\ new.gates = row.gates
      /\ new.owed = row.owed
  BY DecideRow
<1> HIDE DEF d, new
<1>4. /\ DOMAIN row.decisions = 1..n /\ n \in Nat
      /\ DOMAIN new.decisions = 1..(n + 1)
      /\ new.decisions[n + 1] = d
      /\ \A i \in 1..n : new.decisions[i] = row.decisions[i]
  BY <1>1, <1>2, <1>3
<1>5. Reviewed(new)
  <2> SUFFICES ASSUME NEW i \in Approvals(new) PROVE new.decisions[i].unreviewed = {}
    BY DEF Reviewed
  <2>1. CASE i = n + 1
    BY <1>1, <1>4, <2>1 DEF Approvals
  <2>2. CASE i # n + 1
    BY <1>4, <2>2 DEF Approvals, SerialRow, Reviewed
  <2> QED BY <2>1, <2>2
<1> QED BY <1>3, <1>5 DEF SerialRow, new

LEMMA ResumeSerial ==
  ASSUME IInv, SInv, IInv', OnePerRun', NEW h \in Handlers, Resume(h)
  PROVE  SInv'
<1>0. handler[h].pc # "idle"
  BY DEF Resume, CreateBranch, ApplyPatch, AssessChanges, FinishPipeline, FailRun,
         FailPlan, ExecutePlan, AssessPlanChanges, AbandonPlan, BreakPlan,
         RecordDecision, Conclude, FinishRefresh, At
<1>a. /\ handler[h].run \in Runs /\ RowOf(h) \in Rows
      /\ handler[h] \in HandlerStates
      /\ SerialRow(RowOf(h)) /\ SerialHandler(handler[h], RowOf(h))
      /\ handler[h].pc # "refresh" /\ crashes = 0 => Captured(RowOf(h))
  BY <1>0, Found
<1>b. /\ handler[h].was \in Snapshots /\ handler[h].files \in SUBSET FileKinds
      /\ handler[h].action \in Actions /\ handler[h].seen \in SUBSET Stages
  BY <1>a DEF HandlerStates
<1>1. CASE CreateBranch(h) \/ ApplyPatch(h) \/ AssessChanges(h)
  <2> DEFINE files == tree.tracked \cup tree.untracked
  <2>0. PICK row, x :
          /\ SetRow(h, row) /\ handler' = [handler EXCEPT ![h] = x]
          /\ row.status \in Working /\ row.report = RowOf(h).report
          /\ row.gates = RowOf(h).gates /\ row.decisions = RowOf(h).decisions
          /\ row.owed = RowOf(h).owed
          /\ x.pc \in {"create_branch", "changed_files", "quality_gates"}
          /\ x.run = handler[h].run
    <3>1. CASE CreateBranch(h)
      <4> DEFINE row == [RowOf(h) EXCEPT !.status = "creating_branch", !.branch = TRUE]
                 x == [handler[h] EXCEPT !.pc = "create_branch"]
      <4>1. /\ row.status = "creating_branch" /\ row.report = RowOf(h).report
            /\ row.gates = RowOf(h).gates /\ row.decisions = RowOf(h).decisions
            /\ row.owed = RowOf(h).owed
            /\ x.pc = "create_branch" /\ x.run = handler[h].run
        BY <1>a DEF Rows, HandlerStates
      <4>2. SetRow(h, row) /\ handler' = [handler EXCEPT ![h] = x]
        BY <3>1 DEF CreateBranch, Goto
      <4> HIDE DEF row, x
      <4> QED BY <4>1, <4>2 DEF Working
    <3>2. CASE ApplyPatch(h)
      <4> DEFINE row == [RowOf(h) EXCEPT !.status = "applying_patch"]
                 x == [handler[h] EXCEPT !.pc = "changed_files"]
      <4>1. /\ row.status = "applying_patch" /\ row.report = RowOf(h).report
            /\ row.gates = RowOf(h).gates /\ row.decisions = RowOf(h).decisions
            /\ row.owed = RowOf(h).owed
            /\ x.pc = "changed_files" /\ x.run = handler[h].run
        BY <1>a DEF Rows, HandlerStates
      <4>2. SetRow(h, row) /\ handler' = [handler EXCEPT ![h] = x]
        BY <3>2 DEF ApplyPatch, Goto
      <4> HIDE DEF row, x
      <4> QED BY <4>1, <4>2 DEF Working
    <3>3. CASE AssessChanges(h)
      <4> DEFINE row == [RowOf(h) EXCEPT !.status = "running_quality_gates",
                                         !.risk = RiskOf(files)]
                 x == [handler[h] EXCEPT !.pc = "quality_gates", !.files = files]
      <4>1. /\ row.status = "running_quality_gates" /\ row.report = RowOf(h).report
            /\ row.gates = RowOf(h).gates /\ row.decisions = RowOf(h).decisions
            /\ row.owed = RowOf(h).owed
            /\ x.pc = "quality_gates" /\ x.run = handler[h].run
        BY <1>a DEF Rows, HandlerStates
      <4>2. SetRow(h, row) /\ handler' = [handler EXCEPT ![h] = x]
        BY <3>3 DEF AssessChanges
      <4> HIDE DEF row, x
      <4> QED BY <4>1, <4>2 DEF Working
    <3> QED BY <1>1, <3>1, <3>2, <3>3
  <2>1. RowOf(h).gates.failed = 0
    BY <1>1, <1>a DEF SerialHandler, CreateBranch, ApplyPatch, AssessChanges, At
  <2>2. SerialRow(row)
    BY <1>a, <2>0, SerialByFields DEF Working, RunStatus
  <2>3. SerialHandler(x, row) /\ Captured(row)
    BY <2>0, <2>1 DEF SerialHandler, Captured, Working
  <2>4. crashes' = crashes
    BY <1>1 DEF CreateBranch, ApplyPatch, AssessChanges
  <2> QED BY <1>0, <2>0, <2>2, <2>3, <2>4, Moves
<1>2. CASE FinishPipeline(h)
  <2> PICK result \in Outcomes : SetRow(h, Finalize(RowOf(h), handler[h].files, result))
    BY <1>2 DEF FinishPipeline
  <2>1. RowOf(h).gates.failed = 0
    BY <1>2, <1>a DEF SerialHandler, FinishPipeline, At
  <2>2. /\ SerialRow(Finalize(RowOf(h), handler[h].files, result))
        /\ Captured(Finalize(RowOf(h), handler[h].files, result))
    BY <1>a, <1>b, <2>1, FinalizeSerial
  <2> QED BY <1>0, <1>2, <2>2, Returns DEF FinishPipeline
<1>s. ASSUME NEW row, row.status \in RunStatus \ {"absent", "waiting_for_approval", "completed"},
             row.report = RowOf(h).report, row.gates = RowOf(h).gates,
             row.decisions = RowOf(h).decisions, row.owed = RowOf(h).owed \ {"task"}
      PROVE  SerialRow(row) /\ Captured(row)
  BY <1>a, <1>s, SerialByFields DEF Captured
<1>3. CASE FailRun(h)
  <2> DEFINE row == TaskTold([RowOf(h) EXCEPT !.status = "failed"])
  <2>1. /\ row.status = "failed" /\ row.report = RowOf(h).report
        /\ row.gates = RowOf(h).gates /\ row.decisions = RowOf(h).decisions
        /\ row.owed = RowOf(h).owed \ {"task"}
    BY <1>a, FailedRow DEF RunStatus
  <2>2. SetRow(h, row)
    BY <1>3 DEF FailRun
  <2> HIDE DEF row
  <2>3. SerialRow(row) /\ Captured(row)
    BY <1>s, <2>1 DEF RunStatus
  <2> QED BY <1>0, <1>3, <2>2, <2>3, Returns DEF FailRun
<1>4. CASE FailPlan(h)
  <2> PICK plan \in FailedPlans :
         LET row == Reconcile(Evaluate(PlanFailed(RowOf(h), plan))) IN
         SetRow(h, row) /\ AwaitRefresh(h, row)
    BY <1>4 DEF FailPlan
  <2> DEFINE failed == PlanFailed(RowOf(h), plan)
             judged == Evaluate(failed)
             row == Reconcile(judged)
  <2>0. SetRow(h, row) /\ AwaitRefresh(h, row)
    OBVIOUS
  <2>1. plan \in Plans
    BY FailedPlansType
  <2>2. /\ failed \in Rows /\ failed.status = "failed" /\ failed.report = RowOf(h).report
        /\ failed.gates = RowOf(h).gates /\ failed.decisions = RowOf(h).decisions
        /\ failed.owed = RowOf(h).owed \ {"task"}
    BY <1>a, <2>1 DEF PlanFailed, TaskTold, Rows, RunStatus
  <2> HIDE DEF failed
  <2>3. judged \in Rows /\ Alike(failed, judged) /\ judged.owed = failed.owed \ {"policy"}
    BY <2>2, EvaluateRow
  <2> HIDE DEF judged
  <2>4. Alike(judged, row) /\ row.owed = judged.owed
    BY <2>3, ReconcileRow DEF Reconcile
  <2> HIDE DEF row
  <2>5. SerialRow(row)
    BY <1>a, <2>2, <2>3, <2>4, SerialByFields DEF RunStatus, Alike
  <2> QED BY <1>0, <1>4, <2>0, <2>5, Awaits DEF FailPlan
<1>5. CASE ExecutePlan(h)
  <2> PICK f \in PlanFiles :
         handler' = [handler EXCEPT ![h].pc = "plan_changed_files", ![h].files = {f}]
    BY <1>5 DEF ExecutePlan
  <2> DEFINE plan == [validation |-> "valid", execution |-> "executed"]
             row == TaskTold([RowOf(h) EXCEPT !.status = "running_quality_gates",
                                              !.plan = plan])
             x == [handler[h] EXCEPT !.pc = "plan_changed_files", !.files = {f}]
  <2>1. /\ row.status = "running_quality_gates" /\ row.report = RowOf(h).report
        /\ row.gates = RowOf(h).gates /\ row.decisions = RowOf(h).decisions
        /\ row.owed = RowOf(h).owed \ {"task"}
    <3>1. plan \in Plans
      BY DEF Plans
    <3> HIDE DEF plan
    <3> QED BY <1>a, <3>1 DEF TaskTold, Rows, RunStatus, Working
  <2>2. SetRow(h, row)
    BY <1>5 DEF ExecutePlan
  <2>3. /\ x.pc = "plan_changed_files" /\ x.run = handler[h].run
        /\ handler' = [handler EXCEPT ![h] = x]
    BY <1>a DEF HandlerStates
  <2> HIDE DEF row, x
  <2>4. SerialRow(row) /\ Captured(row)
    BY <1>s, <2>1 DEF RunStatus, Working
  <2>5. SerialHandler(x, row)
    BY <2>1, <2>3 DEF SerialHandler, Working
  <2> QED BY <1>0, <1>5, <2>2, <2>3, <2>4, <2>5, Moves DEF ExecutePlan
<1>6. CASE AssessPlanChanges(h)
  <2> DEFINE row == [RowOf(h) EXCEPT !.gates = NoGates]
             x == [handler[h] EXCEPT !.pc = "quality_gates",
                                     !.files = handler[h].files \cup tree.tracked]
  <2>1. /\ row.status = RowOf(h).status /\ row.report = RowOf(h).report
        /\ row.gates.failed = 0 /\ row.decisions = RowOf(h).decisions
        /\ row.risk = RowOf(h).risk /\ row.owed = RowOf(h).owed
        /\ SetRow(h, row) /\ RowOf(h).status \in Working
    BY <1>6, <1>a DEF Rows, AssessPlanChanges, NoGates, SerialHandler, At
  <2>2. /\ x.pc = "quality_gates" /\ x.run = handler[h].run
        /\ handler' = [handler EXCEPT ![h] = x]
    BY <1>6, <1>a DEF HandlerStates, AssessPlanChanges
  <2> HIDE DEF row, x
  <2>3. SerialRow(row) /\ Captured(row)
    BY <1>a, <2>1, SerialByFields DEF Captured, Working
  <2>4. SerialHandler(x, row)
    BY <2>1, <2>2 DEF SerialHandler
  <2> QED BY <1>0, <1>6, <2>1, <2>2, <2>3, <2>4, Moves DEF AssessPlanChanges
<1>7. CASE AbandonPlan(h)
  <2>1. SetRow(h, RowOf(h))
    BY <1>7, <1>a DEF AbandonPlan, SetRow, RowOf, IInv, TypeOK
  <2>2. crashes = 0 => Captured(RowOf(h))
    BY <1>7, <1>a DEF AbandonPlan, At
  <2> QED BY <1>0, <1>7, <1>a, <2>1, <2>2, Returns DEF AbandonPlan
<1>8. CASE BreakPlan(h)
  <2> DEFINE plan == [validation |-> "valid", execution |-> "pending"]
             row == TaskTold([RowOf(h) EXCEPT !.status = "executing_worker_plan",
                                              !.plan = plan])
  <2>1. /\ row.status = "executing_worker_plan" /\ row.report = RowOf(h).report
        /\ row.gates = RowOf(h).gates /\ row.decisions = RowOf(h).decisions
        /\ row.owed = RowOf(h).owed \ {"task"}
    <3>1. plan \in Plans
      BY DEF Plans
    <3> HIDE DEF plan
    <3> QED BY <1>a, <3>1 DEF TaskTold, Rows, RunStatus, Working
  <2>2. SetRow(h, row)
    BY <1>8 DEF BreakPlan
  <2> HIDE DEF row
  <2>3. SerialRow(row) /\ Captured(row)
    BY <1>s, <2>1 DEF RunStatus, Working
  <2> QED BY <1>0, <1>8, <2>2, <2>3, Returns DEF BreakPlan
<1>9. CASE RecordDecision(h)
  <2> DEFINE fresh == Upsert(RowOf(h), handler[h].was)
             row == Decide(fresh, handler[h].action, handler[h].seen)
             x == [handler[h] EXCEPT !.pc = "decided"]
  <2>1. /\ fresh \in Rows /\ Alike(RowOf(h), fresh) /\ fresh.stage = RowOf(h).stage
        /\ fresh.evidence.status = handler[h].was.status
        /\ fresh.owed = RowOf(h).owed \ {"evidence"}
    BY <1>a, <1>b, UpsertRow
  <2>2. SetRow(h, row) /\ handler' = [handler EXCEPT ![h] = x]
    BY <1>9 DEF RecordDecision, Goto
  <2>3. x.pc = "decided" /\ x.run = handler[h].run
    BY <1>a DEF HandlerStates
  <2>4. /\ handler[h].action = "approve" => Unapproved(RowOf(h)) = {}
        /\ handler[h].was.status = RowOf(h).status
    BY <1>9, <1>a DEF SerialHandler, RecordDecision, At
  <2> HIDE DEF fresh, x
  <2>5. row.status = fresh.status /\ row.evidence.status = fresh.evidence.status
    BY <1>b, <2>1, DecideRow
  <2>6. SerialRow(fresh)
    BY <1>a, <2>1, SerialByFields DEF Alike
  <2>7. handler[h].action = "approve" => Unapproved(fresh) = {}
    BY <2>1, <2>4 DEF Unapproved, Existing
  <2>8. SerialRow(row)
    BY <1>b, <2>1, <2>6, <2>7, DecideSerial
  <2>9. Captured(row)
    BY <2>1, <2>4, <2>5 DEF Captured, Alike
  <2> HIDE DEF row
  <2>10. SerialHandler(x, row)
    BY <2>3 DEF SerialHandler
  <2> QED BY <1>0, <1>9, <2>2, <2>3, <2>8, <2>9, <2>10, Moves DEF RecordDecision
<1>10. CASE Conclude(h)
  <2> DEFINE row == TaskTold([RowOf(h) EXCEPT !.status = ActionStatus(handler[h].action)])
  <2>1. /\ row.status = ActionStatus(handler[h].action) /\ row.report = RowOf(h).report
        /\ row.gates = RowOf(h).gates /\ row.decisions = RowOf(h).decisions
        /\ row.owed = RowOf(h).owed \ {"task"}
    BY <1>a, FailedRow DEF ActionStatus, RunStatus
  <2>2. SetRow(h, row) /\ AwaitRefresh(h, row)
    BY <1>10 DEF Conclude
  <2> HIDE DEF row
  <2>3. SerialRow(row)
    BY <1>a, <2>1, SerialByFields DEF RunStatus, ActionStatus
  <2> QED BY <1>0, <1>10, <2>2, <2>3, Awaits DEF Conclude
<1>11. CASE FinishRefresh(h)
  <2> DEFINE row == Upsert(RowOf(h), handler[h].was)
  <2>1. /\ Alike(RowOf(h), row) /\ row.evidence.status = handler[h].was.status
        /\ row.owed = RowOf(h).owed \ {"evidence"}
    BY <1>a, <1>b, UpsertRow
  <2>2. SetRow(h, row) /\ handler[h].was.status = RowOf(h).status
    BY <1>11, <1>a DEF FinishRefresh, SerialHandler, At
  <2> HIDE DEF row
  <2>3. SerialRow(row) /\ Captured(row)
    BY <1>a, <2>1, <2>2, SerialByFields DEF Captured, Alike
  <2> QED BY <1>0, <1>11, <2>2, <2>3, Returns DEF FinishRefresh
<1> QED BY <1>1, <1>2, <1>3, <1>4, <1>5, <1>6, <1>7, <1>8, <1>9, <1>10, <1>11 DEF Resume

(* A request arrives at a run on which nobody else works. *)
LEMMA Opens ==
  ASSUME IInv, SInv, IInv', OnePerRun', NEW h \in Handlers, NEW r \in Runs,
         NEW pc \in Pcs \ {"idle"}, NEW row \in Rows, NEW fields \in HandlerStates,
         Open(h, r, pc, row, fields),
         (row.status = db[r].status /\ row.risk = db[r].risk)
           \/ (pc = "verify_git" /\ row.status = "preparing_workspace"
                 /\ row.gates.failed = 0),
         pc \notin {"create_branch", "changed_files", "plan_changed_files", "quality_gates"},
         pc = "verify_git" => row.status = "preparing_workspace" /\ row.gates.failed = 0,
         row.report = db[r].report, row.gates = db[r].gates,
         row.decisions = db[r].decisions, row.evidence = db[r].evidence,
         "report" \in db[r].owed => "report" \in row.owed,
         pc = "action_refresh" /\ fields.action = "approve" => Unapproved(row) = {}
  PROVE  SInv'
<1> DEFINE x == [fields EXCEPT !.pc = pc, !.run = r, !.was = SnapshotOf(row)]
<1>1. /\ x.pc = pc /\ x.run = r /\ x.action = fields.action
      /\ x.was.status = row.status
      /\ handler' = [handler EXCEPT ![h] = x]
      /\ db' = [db EXCEPT ![r] = row] /\ crashes' = crashes
  BY DEF Open, HandlerStates, SnapshotOf
<1>2. handler[h].run = None
  BY DEF Open, At, IInv, TypeOK
<1> HIDE DEF x
<1>3. /\ handler'[h] = x
      /\ \A g \in Handlers : g # h => handler'[g] = handler[g]
  BY <1>1 DEF IInv, TypeOK
<1>4. ASSUME NEW g \in Handlers PROVE handler[g].run # r
  BY <1>1, <1>2, <1>3, RunAssumption DEF OnePerRun
<1>5. crashes = 0 => Captured(db[r])
  BY <1>4 DEF SInv, CapturedAt
<1>6. crashes = 0 => Captured(row)
  BY <1>5 DEF Captured
<1>7. SerialRow(row)
  <2>1. SerialRow(db[r])
    BY DEF SInv
  <2> QED BY <2>1, SerialByFields DEF Working, RunStatus
<1>8. SerialHandler(x, row)
  BY <1>1 DEF SerialHandler, Working
<1> QED BY <1>1, <1>2, <1>6, <1>7, <1>8, Alone

LEMMA RequestSerial ==
  ASSUME IInv, SInv, IInv', OnePerRun', NEW h \in Handlers, NEW r \in Runs, Request(h, r)
  PROVE  SInv'
<1>0. db[r] \in Rows /\ SerialRow(db[r]) /\ Idle \in HandlerStates
  BY IdleType DEF IInv, TypeOK, SInv
<1>e. ASSUME NEW row \in Rows
      PROVE  /\ Evaluate(row) \in Rows /\ Alike(row, Evaluate(row))
             /\ Evaluate(row).evidence = row.evidence
             /\ Evaluate(row).owed = row.owed \ {"policy"}
             /\ Reconcile(row) \in Rows /\ Alike(row, Reconcile(row))
             /\ Reconcile(row).evidence = row.evidence /\ Reconcile(row).owed = row.owed
  BY <1>e, EvaluateRow, ReconcileRow DEF Reconcile
<1>f. Pcs = {"idle", "verify_git", "create_branch", "changed_files", "plan_git",
             "plan_changed_files", "quality_gates", "action_refresh", "decided", "refresh"}
  BY DEF Pcs
<1>1. CASE StartRun(h, r)
  <2> DEFINE row == [db[r] EXCEPT !.status = "preparing_workspace"]
  <2>1. /\ row \in Rows /\ row.status = "preparing_workspace"
        /\ row.report = db[r].report /\ row.gates = db[r].gates
        /\ row.decisions = db[r].decisions /\ row.evidence = db[r].evidence
        /\ row.owed = db[r].owed
    BY <1>0 DEF Rows, RunStatus, Working
  <2>2. Open(h, r, "verify_git", row, Idle) /\ db[r].gates.failed = 0
    BY <1>0, <1>1 DEF StartRun, Exists, SerialRow
  <2> HIDE DEF row
  <2> QED BY <1>0, <1>f, <2>1, <2>2, Opens
<1>2. CASE SubmitPlan(h, r) \/ RegenerateEvidence(h, r)
  BY <1>0, <1>2, <1>f, Opens DEF SubmitPlan, RegenerateEvidence
<1>3. CASE Approve(h, r)
  <2> DEFINE row == Evaluate(db[r])
             fields == [Idle EXCEPT !.action = "approve", !.seen = Existing(row)]
  <2>1. /\ row \in Rows /\ Alike(db[r], row) /\ row.evidence = db[r].evidence
        /\ row.owed = db[r].owed \ {"policy"}
    BY <1>0, <1>e DEF Alike
  <2>2. Open(h, r, "action_refresh", row, fields) /\ Unapproved(row) = {}
    BY <1>3 DEF Approve, StagesAllow
  <2> HIDE DEF row
  <2>3. fields \in HandlerStates
    BY <1>0 DEF HandlerStates, Actions, Existing
  <2> HIDE DEF fields
  <2> QED BY <1>f, <2>1, <2>2, <2>3, Opens DEF Alike
<1>4. ASSUME NEW action \in {"request_fix", "stop"}, Turn(h, r, action) PROVE SInv'
  <2> DEFINE fields == [Idle EXCEPT !.action = action]
  <2>1. fields \in HandlerStates /\ fields.action # "approve"
    BY <1>0 DEF HandlerStates, Actions
  <2>2. Open(h, r, "action_refresh", db[r], fields)
    BY <1>4 DEF Turn
  <2> HIDE DEF fields
  <2> QED BY <1>0, <1>f, <2>1, <2>2, Opens
<1>5. CASE GenerateStages(h, r)
  <2> DEFINE row == Reconcile(db[r])
  <2>1. /\ row \in Rows /\ Alike(db[r], row) /\ row.evidence = db[r].evidence
        /\ row.owed = db[r].owed
    BY <1>0, <1>e
  <2>2. Open(h, r, "refresh", row, Idle)
    BY <1>5 DEF GenerateStages
  <2> HIDE DEF row
  <2> QED BY <1>0, <1>f, <2>1, <2>2, Opens DEF Alike
<1>6. CASE EvaluatePolicy(h, r)
  <2> DEFINE row == Reconcile(Evaluate(db[r]))
  <2>1. /\ row \in Rows /\ Alike(db[r], row) /\ row.evidence = db[r].evidence
        /\ row.owed = db[r].owed \ {"policy"}
    BY <1>0, <1>e DEF Alike
  <2>2. Open(h, r, "refresh", row, Idle)
    BY <1>6 DEF EvaluatePolicy
  <2> HIDE DEF row
  <2> QED BY <1>0, <1>f, <2>1, <2>2, Opens DEF Alike
<1>7. CASE VerifyReplay(h, r)
  <2> DEFINE verified == [db[r] EXCEPT !.replay = ReplayStatus(db[r])]
             row == Reconcile(Evaluate(verified))
  <2>1. /\ verified \in Rows /\ verified.status = db[r].status
        /\ verified.risk = db[r].risk
        /\ verified.report = db[r].report /\ verified.gates = db[r].gates
        /\ verified.decisions = db[r].decisions /\ verified.evidence = db[r].evidence
        /\ verified.owed = db[r].owed
    BY <1>0, ReplayRow
  <2>2. Open(h, r, "refresh", row, Idle)
    BY <1>7 DEF VerifyReplay
  <2> HIDE DEF verified
  <2>3. /\ row \in Rows /\ Alike(verified, row) /\ row.evidence = verified.evidence
        /\ row.owed = verified.owed \ {"policy"}
    BY <1>e, <2>1 DEF Alike
  <2> HIDE DEF row
  <2> QED BY <1>0, <1>f, <2>1, <2>2, <2>3, Opens DEF Alike
<1> QED BY <1>1, <1>2, <1>3, <1>4, <1>5, <1>6, <1>7 DEF Request

(* Rows that change while handlers wait: nothing they rely on does. *)
LEMMA InstantSerial ==
  ASSUME IInv, SInv, NEW r \in Runs, NEW row, db' = [db EXCEPT ![r] = row],
         UNCHANGED <<handler, crashes>>,
         row.status = db[r].status, row.risk = db[r].risk, row.report = db[r].report,
         row.gates = db[r].gates, row.decisions = db[r].decisions,
         row.evidence = db[r].evidence,
         "report" \in db[r].owed => "report" \in row.owed,
         Unapproved(db[r]) = {} => Unapproved(row) = {}
  PROVE  SInv'
<1>0. /\ db'[r] = row /\ \A q \in Runs : q # r => db'[q] = db[q]
      /\ handler' = handler /\ crashes' = crashes
  BY DEF IInv, TypeOK
<1>1. ASSUME NEW q \in Runs PROVE SerialRow(db'[q]) /\ CapturedAt(q)'
  <2>1. SerialRow(db[q]) /\ CapturedAt(q)
    BY DEF SInv
  <2>2. CASE q = r
    <3>1. SerialRow(row)
      BY <2>1, <2>2, SerialByFields
    <3> QED BY <1>0, <2>1, <2>2, <3>1 DEF CapturedAt, Captured
  <2>3. CASE q # r
    BY <1>0, <2>1, <2>3 DEF CapturedAt
  <2> QED BY <2>2, <2>3
<1>2. ASSUME NEW g \in Handlers, handler[g].pc # "idle"
      PROVE  SerialHandler(handler[g], db'[handler[g].run])
  <2>1. SerialHandler(handler[g], db[handler[g].run]) /\ handler[g].run \in Runs
    BY <1>2, WaitingRow DEF SInv, RowOf, IInv
  <2> QED BY <1>0, <2>1 DEF SerialHandler
<1> QED BY <1>0, <1>1, <1>2 DEF SInv, OnePerRun, RowOf

LEMMA NextSerial ==
  ASSUME IInv, SInv, [Next /\ OnePerRun']_vars PROVE SInv'
<1>0. IInv' 
  BY NextInvariant
<1>1. ASSUME NEW r \in Runs, RefuseApproval(r) PROVE SInv'
  <2> DEFINE row == Evaluate(db[r])
  <2>1. /\ Alike(db[r], row) /\ row.evidence = db[r].evidence
        /\ row.stage = db[r].stage /\ row.owed = db[r].owed \ {"policy"}
    BY EvaluateRow DEF IInv, TypeOK
  <2>2. db' = [db EXCEPT ![r] = row]
    BY <1>1 DEF RefuseApproval
  <2> HIDE DEF row
  <2>3. Unapproved(row) = Unapproved(db[r])
    BY <2>1 DEF Unapproved, Existing
  <2> QED BY <1>1, <2>1, <2>2, <2>3, InstantSerial DEF RefuseApproval, Alike
<1>2. ASSUME NEW r \in Runs, NEW s \in Stages, NEW verdict \in {"approved", "rejected"},
             CompleteStage(r, s, verdict)
      PROVE  SInv'
  <2> DEFINE row == [db[r] EXCEPT !.stage[s] = verdict]
  <2>1. /\ row.status = db[r].status /\ row.report = db[r].report
        /\ row.gates = db[r].gates /\ row.decisions = db[r].decisions
        /\ row.evidence = db[r].evidence /\ row.risk = db[r].risk
        /\ row.owed = db[r].owed
    BY DEF IInv, TypeOK, Rows
  <2>2. db' = [db EXCEPT ![r] = row]
    BY <1>2 DEF CompleteStage
  <2> HIDE DEF row
  <2>3. s \in Unapproved(db[r])
    BY <1>2 DEF CompleteStage, Unapproved, Existing
  <2> QED BY <1>2, <2>1, <2>2, <2>3, InstantSerial DEF CompleteStage
<1>3. ASSUME Die, \A r \in Runs : SerialRow(db'[r]) PROVE SInv'
  <2>1. \A h \in Handlers : handler'[h].pc = "idle" /\ handler'[h].run = None
    BY <1>3, DeathType DEF IInv
  <2>2. crashes' # 0
    BY <1>3, DeathType DEF IInv
  <2> QED BY <1>3, <2>1, <2>2 DEF SInv, OnePerRun, CapturedAt
<1>r. ASSUME NEW r \in Runs, NEW row, db' = [db EXCEPT ![r] = row], SerialRow(row)
      PROVE  \A q \in Runs : SerialRow(db'[q])
  BY <1>r DEF SInv, IInv, TypeOK
<1>7. CASE Crash
  BY <1>3, <1>7 DEF Crash, SInv
<1>8. ASSUME NEW h \in Handlers, DieIn(h) PROVE SInv'
  <2>1. handler[h].pc # "idle" /\ Die
    BY <1>8, DeathInLeaves DEF IInv
  <2>2. PICK row \in Rows : Leaves(h, row)
    BY <1>8, DeathInLeaves DEF IInv
  <2>3. /\ handler[h].run \in Runs /\ SerialRow(RowOf(h))
        /\ SerialHandler(handler[h], RowOf(h))
    BY <2>1, Found
  <2> QED BY <1>3, <1>r, <2>1, <2>2, <2>3 DEF Leaves, SetRow
<1>9. ASSUME NEW r \in Runs, DieOver(r) PROVE SInv'
  <2>1. Die
    BY <1>9, DeathOverLeaves DEF IInv
  <2>2. PICK row \in Rows : LeavesRow(r, row)
    BY <1>9, DeathOverLeaves DEF IInv
  <2>3. SerialRow(db[r])
    BY DEF SInv
  <2> QED BY <1>3, <1>r, <2>1, <2>2, <2>3 DEF LeavesRow
<1>4. CASE UNCHANGED vars
  BY <1>4 DEF vars, SInv, OnePerRun, CapturedAt, RowOf
<1>5. ASSUME NEW h \in Handlers, Resume(h), OnePerRun' PROVE SInv'
  BY <1>0, <1>5, ResumeSerial
<1>6. ASSUME NEW h \in Handlers, NEW r \in Runs, Request(h, r), OnePerRun' PROVE SInv'
  BY <1>0, <1>6, RequestSerial
<1> QED BY <1>1, <1>2, <1>4, <1>5, <1>6, <1>7, <1>8, <1>9 DEF Next

LEMMA SerialInvariant == SpecOnePerRun => [](IInv /\ SInv)
<1>1. Init => IInv /\ SInv
  <2> SUFFICES ASSUME Init PROVE IInv /\ SInv
    OBVIOUS
  <2>1. IInv
    BY InitInvariant
  <2>2. /\ \A r \in Runs : db[r] = EmptyRow
        /\ \A h \in Handlers : handler[h] = Idle
    BY DEF Init
  <2>3. SerialRow(EmptyRow) /\ Captured(EmptyRow)
    BY DEF SerialRow, Reviewed, Approvals, Captured, EmptyRow, NoGates
  <2>4. Idle.pc = "idle" /\ Idle.run = None
    BY DEF Idle
  <2> QED BY <2>1, <2>2, <2>3, <2>4 DEF SInv, OnePerRun, CapturedAt
<1>2. IInv /\ SInv /\ [Next /\ OnePerRun']_vars => (IInv /\ SInv)'
  BY NextInvariant, NextSerial
<1> QED BY <1>1, <1>2, PTL DEF SpecOnePerRun

(* Without overlap, a run that waits passed its gates and its risk,        *)
(* wherever the server died, and its report says so unless it died over    *)
(* that report.                                                            *)
THEOREM WaitingCanBeApproved == SpecOnePerRun => []WaitingIsApprovable
<1>1. SInv => WaitingIsApprovable
  BY DEF SInv, SerialRow, WaitingIsApprovable
<1> QED BY <1>1, SerialInvariant, PTL

(* Without overlap, no approval is recorded over an open review. *)
THEOREM ReviewedWhenDecided == SpecOnePerRun => []ReviewedAtDecision
<1>1. SInv => ReviewedAtDecision
  BY DEF SInv, SerialRow, Reviewed, ReviewedAtDecision
<1> QED BY <1>1, SerialInvariant, PTL

(* Without overlap and without a death of the process, the bundle of a     *)
(* completed run shows it completed.                                       *)
THEOREM EvidenceIsFinal == SpecOnePerRun => []EvidenceCapturesFinalState
<1>1. ASSUME IInv, SInv PROVE EvidenceCapturesFinalState
  BY <1>1 DEF SInv, CapturedAt, Captured, EvidenceCapturesFinalState
<1> QED BY <1>1, SerialInvariant, PTL


-----------------------------------------------------------------------------
(* A task and its runs *)

LEMMA RunsOnly ==
  ASSUME TypeOK, TaskMirrorsRun, UNCHANGED <<task, db>> PROVE TaskMirrorsRun'
BY DEF TaskMirrorsRun

(* One run moves, and its task is told, or owed it, or shows it already.   *)
LEMMA MirrorKept ==
  ASSUME TypeOK, TaskMirrorsRun, NEW r \in Runs, NEW row,
         db' = [db EXCEPT ![r] = row], Mirrored(r, db[r], row),
         UNCHANGED task \/ \E st : SetTask(r, st)
  PROVE  TaskMirrorsRun'
<1> SUFFICES ASSUME NEW k \in {TaskOf[q] : q \in Runs},
                    \A q \in Runs : TaskOf[q] = k => "task" \notin db'[q].owed
    PROVE \E p \in Runs : TaskOf[p] = k /\ task'[k] \in TaskStatusesFor(db'[p].status)
  BY DEF TaskMirrorsRun
<1>1. /\ db'[r] = row /\ \A p \in Runs : p # r => db'[p] = db[p]
      /\ k \in Tasks /\ TaskOf[r] \in Tasks
      /\ k # TaskOf[r] => task'[k] = task[k]
  BY RunAssumption DEF TypeOK, SetTask
<1>2. CASE k # TaskOf[r]
  <2>1. \A q \in Runs : TaskOf[q] = k => "task" \notin db[q].owed
    BY <1>1, <1>2
  <2>2. PICK p \in Runs : TaskOf[p] = k /\ task[k] \in TaskStatusesFor(db[p].status)
    BY <2>1 DEF TaskMirrorsRun
  <2> QED BY <1>1, <1>2, <2>2
<1>3. CASE k = TaskOf[r]
  <2>0. "task" \notin row.owed
    BY <1>1, <1>3
  <2>1. CASE \E st \in TaskStatusesFor(row.status) : SetTask(r, st)
    BY <1>1, <1>3, <2>1 DEF SetTask, TypeOK
  <2>2. CASE /\ UNCHANGED task
             /\ "task" \in db[r].owed => "task" \in row.owed
             /\ \/ row.status = db[r].status
                \/ row.status \in Working /\ db[r].status \in Working
    <3>1. \A q \in Runs : TaskOf[q] = k => "task" \notin db[q].owed
      BY <1>1, <2>0, <2>2
    <3>2. PICK p \in Runs : TaskOf[p] = k /\ task[k] \in TaskStatusesFor(db[p].status)
      BY <3>1 DEF TaskMirrorsRun
    <3>3. TaskStatusesFor(row.status) = TaskStatusesFor(db[r].status)
      BY <2>2, Shown
    <3> QED BY <1>1, <2>2, <3>2, <3>3
  <2> QED BY <2>0, <2>1, <2>2 DEF Mirrored
<1> QED BY <1>2, <1>3

LEMMA ResumeMirrors ==
  ASSUME IInv, SInv, TaskMirrorsRun, NEW h \in Handlers, Resume(h)
  PROVE  TaskMirrorsRun'
<1>0. handler[h].pc # "idle"
  BY DEF Resume, CreateBranch, ApplyPatch, AssessChanges, FinishPipeline, FailRun,
         FailPlan, ExecutePlan, AssessPlanChanges, AbandonPlan, BreakPlan,
         RecordDecision, Conclude, FinishRefresh, At
<1>a. /\ handler[h].run \in Runs /\ RowOf(h) \in Rows
      /\ SerialHandler(handler[h], RowOf(h)) /\ TypeOK
      /\ handler[h].was \in Snapshots /\ handler[h].action \in Actions
      /\ handler[h].seen \in SUBSET Stages
  BY <1>0, Found DEF IInv, HandlerStates
<1>b. ASSUME NEW row, SetRow(h, row), UNCHANGED task,
             "task" \in RowOf(h).owed => "task" \in row.owed,
             row.status = RowOf(h).status
               \/ (row.status \in Working /\ RowOf(h).status \in Working)
      PROVE  TaskMirrorsRun'
  BY <1>a, <1>b, MirrorKept DEF SetRow, RowOf, Mirrored
<1>c. ASSUME NEW row, NEW st, SetRow(h, row), SetTask(handler[h].run, st),
             st \in TaskStatusesFor(row.status)
      PROVE  TaskMirrorsRun'
  BY <1>a, <1>c, MirrorKept DEF SetRow, Mirrored
<1>1. CASE CreateBranch(h) \/ ApplyPatch(h) \/ AssessChanges(h)
  <2>1. RowOf(h).status \in Working
    BY <1>1, <1>a DEF SerialHandler, CreateBranch, ApplyPatch, AssessChanges, At
  <2>2. CASE CreateBranch(h)
    <3> DEFINE row == [RowOf(h) EXCEPT !.status = "creating_branch", !.branch = TRUE]
    <3>1. /\ row.status \in Working /\ row.owed = RowOf(h).owed
          /\ SetRow(h, row) /\ UNCHANGED task
      BY <1>a, <2>2 DEF Rows, Working, CreateBranch
    <3> HIDE DEF row
    <3> QED BY <1>b, <2>1, <3>1
  <2>3. CASE ApplyPatch(h)
    <3> DEFINE row == [RowOf(h) EXCEPT !.status = "applying_patch"]
    <3>1. /\ row.status \in Working /\ row.owed = RowOf(h).owed
          /\ SetRow(h, row) /\ UNCHANGED task
      BY <1>a, <2>3 DEF Rows, Working, ApplyPatch
    <3> HIDE DEF row
    <3> QED BY <1>b, <2>1, <3>1
  <2>4. CASE AssessChanges(h)
    <3> DEFINE row == [RowOf(h) EXCEPT !.status = "running_quality_gates",
                         !.risk = RiskOf(tree.tracked \cup tree.untracked)]
    <3>1. /\ row.status \in Working /\ row.owed = RowOf(h).owed
          /\ SetRow(h, row) /\ UNCHANGED task
      BY <1>a, <2>4 DEF Rows, Working, AssessChanges
    <3> HIDE DEF row
    <3> QED BY <1>b, <2>1, <3>1
  <2> QED BY <1>1, <2>2, <2>3, <2>4
<1>2. CASE FinishPipeline(h)
  <2> PICK result \in Outcomes :
         /\ SetRow(h, Finalize(RowOf(h), handler[h].files, result))
         /\ SetTask(handler[h].run, FinalStatus(handler[h].files, result))
    BY <1>2 DEF FinishPipeline
  <2>1. handler[h].files \in SUBSET FileKinds
    BY <1>0, WaitingRow DEF IInv, HandlerStates
  <2>2. Finalize(RowOf(h), handler[h].files, result).status
          = FinalStatus(handler[h].files, result)
    <3> DEFINE reported == Reported(RowOf(h), handler[h].files, result)
               new == Finalize(RowOf(h), handler[h].files, result)
    <3>1. reported.status = FinalStatus(handler[h].files, result)
      BY <1>a, <2>1, ReportedRow
    <3>2. Alike(reported, new)
      BY <1>a, <2>1, FinalizeRow
    <3> HIDE DEF reported
    <3> QED BY <3>1, <3>2 DEF Alike
  <2>3. FinalStatus(handler[h].files, result)
          \in TaskStatusesFor(FinalStatus(handler[h].files, result))
    BY Shown DEF FinalStatus
  <2> QED BY <1>c, <2>2, <2>3
<1>3. CASE FailRun(h)
  <2> DEFINE row == TaskTold([RowOf(h) EXCEPT !.status = "failed"])
  <2>1. row.status = "failed" /\ SetRow(h, row) /\ SetTask(handler[h].run, "failed")
    BY <1>3, <1>a DEF Rows, TaskTold, FailRun
  <2> HIDE DEF row
  <2> QED BY <1>c, <2>1, Shown
<1>4. CASE FailPlan(h)
  <2> PICK plan \in FailedPlans :
         SetRow(h, Reconcile(Evaluate(PlanFailed(RowOf(h), plan))))
    BY <1>4 DEF FailPlan
  <2> DEFINE failed == PlanFailed(RowOf(h), plan)
             judged == Evaluate(failed)
             row == Reconcile(judged)
  <2>0. SetRow(h, row) /\ SetTask(handler[h].run, "failed")
    BY <1>4 DEF FailPlan
  <2>1. plan \in Plans
    BY FailedPlansType
  <2>2. failed \in Rows /\ failed.status = "failed"
    BY <1>a, <2>1 DEF PlanFailed, TaskTold, Rows, RunStatus
  <2> HIDE DEF failed
  <2>3. judged \in Rows /\ Alike(failed, judged)
    BY <2>2, EvaluateRow
  <2> HIDE DEF judged
  <2>4. Alike(judged, row)
    BY <2>3, ReconcileRow DEF Reconcile
  <2> HIDE DEF row
  <2> QED BY <1>c, <2>0, <2>2, <2>3, <2>4, Shown DEF Alike
<1>5. CASE ExecutePlan(h)
  <2> DEFINE row == TaskTold([RowOf(h) EXCEPT !.status = "running_quality_gates",
                       !.plan = [validation |-> "valid", execution |-> "executed"]])
  <2>1. /\ row.status \in Working /\ SetRow(h, row)
        /\ SetTask(handler[h].run, "running")
    BY <1>5, <1>a DEF Rows, TaskTold, Working, ExecutePlan
  <2> HIDE DEF row
  <2> QED BY <1>c, <2>1, Shown
<1>6. CASE AssessPlanChanges(h)
  <2> DEFINE row == [RowOf(h) EXCEPT !.gates = NoGates]
  <2>1. /\ row.status = RowOf(h).status /\ row.owed = RowOf(h).owed
        /\ SetRow(h, row) /\ UNCHANGED task
    BY <1>6, <1>a DEF Rows, AssessPlanChanges
  <2> HIDE DEF row
  <2> QED BY <1>b, <2>1
<1>7. CASE AbandonPlan(h)
  BY <1>7, <1>a, RunsOnly DEF AbandonPlan
<1>8. CASE BreakPlan(h)
  <2> DEFINE row == TaskTold([RowOf(h) EXCEPT !.status = "executing_worker_plan",
                       !.plan = [validation |-> "valid", execution |-> "pending"]])
  <2>1. /\ row.status \in Working /\ SetRow(h, row)
        /\ SetTask(handler[h].run, "running")
    BY <1>8, <1>a DEF Rows, TaskTold, Working, BreakPlan
  <2> HIDE DEF row
  <2> QED BY <1>c, <2>1, Shown
<1>9. CASE RecordDecision(h)
  <2> DEFINE fresh == Upsert(RowOf(h), handler[h].was)
             row == Decide(fresh, handler[h].action, handler[h].seen)
  <2>1. /\ fresh \in Rows /\ Alike(RowOf(h), fresh)
        /\ fresh.owed = RowOf(h).owed \ {"evidence"}
    BY <1>a, UpsertRow
  <2>2. SetRow(h, row) /\ UNCHANGED task
    BY <1>9 DEF RecordDecision
  <2> HIDE DEF fresh
  <2>3. row.status = fresh.status /\ row.owed = fresh.owed
    BY <1>a, <2>1, DecideRow
  <2> HIDE DEF row
  <2> QED BY <1>b, <2>1, <2>2, <2>3 DEF Alike
<1>10. CASE Conclude(h)
  <2> DEFINE row == TaskTold([RowOf(h) EXCEPT !.status = ActionStatus(handler[h].action)])
  <2>1. /\ row.status = ActionStatus(handler[h].action) /\ SetRow(h, row)
        /\ SetTask(handler[h].run, ActionTaskStatus(handler[h].action))
    BY <1>10, <1>a DEF Rows, TaskTold, Conclude
  <2> HIDE DEF row
  <2>2. ActionTaskStatus(handler[h].action)
          \in TaskStatusesFor(ActionStatus(handler[h].action))
    BY <1>a, Shown DEF Actions, ActionStatus, ActionTaskStatus
  <2> QED BY <1>c, <2>1, <2>2
<1>11. CASE FinishRefresh(h)
  <2> DEFINE row == Upsert(RowOf(h), handler[h].was)
  <2>1. Alike(RowOf(h), row) /\ row.owed = RowOf(h).owed \ {"evidence"}
    BY <1>a, UpsertRow
  <2>2. SetRow(h, row) /\ UNCHANGED task
    BY <1>11 DEF FinishRefresh
  <2> HIDE DEF row
  <2> QED BY <1>b, <2>1, <2>2 DEF Alike
<1> QED BY <1>1, <1>2, <1>3, <1>4, <1>5, <1>6, <1>7, <1>8, <1>9, <1>10, <1>11 DEF Resume

LEMMA RequestMirrors ==
  ASSUME IInv, TaskMirrorsRun, NEW h \in Handlers, NEW r \in Runs, Request(h, r)
  PROVE  TaskMirrorsRun'
<1>0. db[r] \in Rows /\ TypeOK
  BY DEF IInv, TypeOK
<1>e. ASSUME NEW row \in Rows
      PROVE  /\ Evaluate(row) \in Rows /\ Alike(row, Evaluate(row))
             /\ Evaluate(row).owed = row.owed \ {"policy"}
             /\ Alike(row, Reconcile(row)) /\ Reconcile(row).owed = row.owed
  BY <1>e, EvaluateRow, ReconcileRow DEF Reconcile
<1>b. ASSUME NEW row, NEW pc, NEW fields, Open(h, r, pc, row, fields), UNCHANGED task,
             row.status = db[r].status, "task" \in db[r].owed => "task" \in row.owed
      PROVE  TaskMirrorsRun'
  BY <1>0, <1>b, MirrorKept DEF Open, Mirrored
<1>1. CASE StartRun(h, r)
  <2> DEFINE row == [db[r] EXCEPT !.status = "preparing_workspace"]
  <2>1. row.status \in Working /\ db' = [db EXCEPT ![r] = row] /\ SetTask(r, "running")
    BY <1>0, <1>1 DEF Rows, Working, StartRun, Open
  <2> HIDE DEF row
  <2>2. Mirrored(r, db[r], row)
    BY <2>1, Shown DEF Mirrored
  <2> QED BY <1>0, <2>1, <2>2, MirrorKept
<1>2. CASE SubmitPlan(h, r) \/ Turn(h, r, "request_fix") \/ Turn(h, r, "stop")
           \/ RegenerateEvidence(h, r)
  BY <1>2, <1>b DEF SubmitPlan, Turn, RegenerateEvidence
<1>3. CASE Approve(h, r) \/ GenerateStages(h, r)
  <2>1. CASE Approve(h, r)
    BY <1>0, <1>b, <1>e, <2>1 DEF Approve, Alike
  <2>2. CASE GenerateStages(h, r)
    BY <1>0, <1>b, <1>e, <2>2 DEF GenerateStages, Alike
  <2> QED BY <1>3, <2>1, <2>2
<1>4. CASE EvaluatePolicy(h, r)
  <2> DEFINE row == Reconcile(Evaluate(db[r]))
  <2>1. Alike(db[r], row) /\ row.owed = db[r].owed \ {"policy"}
    BY <1>0, <1>e DEF Alike
  <2>2. Open(h, r, "refresh", row, Idle) /\ UNCHANGED task
    BY <1>4 DEF EvaluatePolicy
  <2> HIDE DEF row
  <2> QED BY <1>b, <2>1, <2>2 DEF Alike
<1>5. CASE VerifyReplay(h, r)
  <2> DEFINE verified == [db[r] EXCEPT !.replay = ReplayStatus(db[r])]
             row == Reconcile(Evaluate(verified))
  <2>1. verified \in Rows /\ verified.status = db[r].status /\ verified.owed = db[r].owed
    BY <1>0, ReplayRow
  <2>2. Open(h, r, "refresh", row, Idle) /\ UNCHANGED task
    BY <1>5 DEF VerifyReplay
  <2> HIDE DEF verified
  <2>3. Alike(verified, row) /\ row.owed = verified.owed \ {"policy"}
    BY <1>e, <2>1 DEF Alike
  <2> HIDE DEF row
  <2> QED BY <1>b, <2>1, <2>2, <2>3 DEF Alike
<1> QED BY <1>1, <1>2, <1>3, <1>4, <1>5 DEF Request

LEMMA NextMirrors ==
  ASSUME IInv, SInv, TaskMirrorsRun, [Next]_vars PROVE TaskMirrorsRun'
<1>0. TypeOK
  BY DEF IInv
<1>1. ASSUME NEW r \in Runs, RefuseApproval(r) PROVE TaskMirrorsRun'
  <2> DEFINE row == Evaluate(db[r])
  <2>1. Alike(db[r], row) /\ row.owed = db[r].owed \ {"policy"}
    BY <1>0, EvaluateRow DEF TypeOK
  <2>2. db' = [db EXCEPT ![r] = row] /\ UNCHANGED task
    BY <1>1 DEF RefuseApproval
  <2> HIDE DEF row
  <2>3. Mirrored(r, db[r], row)
    BY <2>1, <2>2 DEF Mirrored, Alike
  <2> QED BY <1>0, <2>2, <2>3, MirrorKept
<1>2. ASSUME NEW r \in Runs, NEW s \in Stages, NEW verdict \in {"approved", "rejected"},
             CompleteStage(r, s, verdict)
      PROVE  TaskMirrorsRun'
  <2> DEFINE row == [db[r] EXCEPT !.stage[s] = verdict]
  <2>1. /\ row.status = db[r].status /\ row.owed = db[r].owed
        /\ db' = [db EXCEPT ![r] = row] /\ UNCHANGED task
    BY <1>0, <1>2 DEF TypeOK, Rows, CompleteStage
  <2> HIDE DEF row
  <2>2. Mirrored(r, db[r], row)
    BY <2>1 DEF Mirrored
  <2> QED BY <1>0, <2>1, <2>2, MirrorKept
<1>3. CASE Crash \/ UNCHANGED vars
  BY <1>0, <1>3, RunsOnly DEF Crash, vars
<1>q. \A r : QuietTask(r) => UNCHANGED task \/ \E st : SetTask(r, st)
  BY DEF QuietTask
<1>4. ASSUME NEW h \in Handlers, DieIn(h) PROVE TaskMirrorsRun'
  <2>1. handler[h].pc # "idle" /\ QuietTask(handler[h].run)
    BY <1>0, <1>4, DeathInLeaves
  <2>2. PICK row \in Rows : Leaves(h, row)
    BY <1>0, <1>4, DeathInLeaves
  <2>3. /\ handler[h].run \in Runs /\ SerialRow(RowOf(h))
        /\ SerialHandler(handler[h], RowOf(h))
    BY <2>1, Found
  <2>4. db' = [db EXCEPT ![handler[h].run] = row]
        /\ Mirrored(handler[h].run, db[handler[h].run], row)
    BY <2>2, <2>3 DEF Leaves, SetRow, RowOf
  <2> QED BY <1>0, <1>q, <2>1, <2>3, <2>4, MirrorKept
<1>5. ASSUME NEW r \in Runs, DieOver(r) PROVE TaskMirrorsRun'
  <2>1. QuietTask(r)
    BY <1>0, <1>5, DeathOverLeaves
  <2>2. PICK row \in Rows : LeavesRow(r, row)
    BY <1>0, <1>5, DeathOverLeaves
  <2> QED BY <1>0, <1>q, <2>1, <2>2, MirrorKept DEF LeavesRow
<1> QED BY <1>1, <1>2, <1>3, <1>4, <1>5, ResumeMirrors, RequestMirrors DEF Next

(* Without overlap, a task shows the status of one of its runs, however    *)
(* its runs interleave; only a death between the two writes parts them,    *)
(* and only until the run tells its task again.                            *)
THEOREM TaskFollowsRuns == SpecOnePerRun => []TaskMirrorsRun
<1>1. Init => TaskMirrorsRun
  <2> SUFFICES ASSUME Init, NEW k \in {TaskOf[r] : r \in Runs}
      PROVE \E r \in Runs : TaskOf[r] = k /\ task[k] \in TaskStatusesFor(db[r].status)
    BY DEF TaskMirrorsRun
  <2>1. PICK r \in Runs : TaskOf[r] = k
    OBVIOUS
  <2>2. db[r].status = "absent"
    BY DEF Init, EmptyRow
  <2>3. task[k] = "draft"
    BY <2>1, RunAssumption DEF Init
  <2> QED BY <2>1, <2>2, <2>3, Shown
<1>2. IInv /\ SInv /\ TaskMirrorsRun /\ [Next /\ OnePerRun']_vars => TaskMirrorsRun'
  BY NextMirrors
<1> QED BY <1>1, <1>2, SerialInvariant, PTL DEF SpecOnePerRun

-----------------------------------------------------------------------------
(* The task is told last *)

(* What a task may be told, and what the run then has. *)
ToldRightly(st, row) ==
  /\ st = "waiting_for_approval" =>
       row.report.made /\ row.policy.status # "none" /\ row.evidence.present
  /\ st = "approved" => Approvals(row) # {} /\ row.evidence.present

LEMMA ToldLast ==
  ASSUME IInv, TaskIsToldLast, AllKeep,
         UNCHANGED task
           \/ \E r \in Runs, st \in TaskStatus : SetTask(r, st) /\ ToldRightly(st, db'[r])
  PROVE  TaskIsToldLast'
<1>1. \A r \in Runs : Grows(db[r], db'[r])
  BY DEF AllKeep, Keeps
<1>2. ASSUME NEW k \in Tasks, task'[k] = task[k]
      PROVE  /\ task'[k] = "waiting_for_approval" =>
                  \E r \in Runs : /\ TaskOf[r] = k /\ db'[r].report.made
                                  /\ db'[r].policy.status # "none"
                                  /\ db'[r].evidence.present
             /\ task'[k] = "approved" =>
                  \E r \in Runs : /\ TaskOf[r] = k /\ Approvals(db'[r]) # {}
                                  /\ db'[r].evidence.present
  <2>1. CASE task[k] = "waiting_for_approval"
    <3>1. PICK r \in Runs : /\ TaskOf[r] = k /\ db[r].report.made
                           /\ db[r].policy.status # "none" /\ db[r].evidence.present
      BY <2>1 DEF TaskIsToldLast
    <3> QED BY <1>1, <1>2, <2>1, <3>1 DEF Grows
  <2>2. CASE task[k] = "approved"
    <3>1. PICK r \in Runs : /\ TaskOf[r] = k /\ Approvals(db[r]) # {}
                           /\ db[r].evidence.present
      BY <2>2 DEF TaskIsToldLast
    <3> QED BY <1>1, <1>2, <2>2, <3>1 DEF Grows
  <2> QED BY <1>2, <2>1, <2>2
<1>3. CASE UNCHANGED task
  BY <1>2, <1>3 DEF TaskIsToldLast
<1>4. ASSUME NEW r \in Runs, NEW st \in TaskStatus, SetTask(r, st), ToldRightly(st, db'[r])
      PROVE  TaskIsToldLast'
  <2>1. /\ TaskOf[r] \in Tasks /\ task'[TaskOf[r]] = st
        /\ \A k \in Tasks : k # TaskOf[r] => task'[k] = task[k]
    BY <1>4, RunAssumption DEF IInv, TypeOK, SetTask
  <2> QED BY <1>2, <1>4, <2>1 DEF TaskIsToldLast, ToldRightly
<1> QED BY <1>3, <1>4

LEMMA NextToldLast ==
  ASSUME IInv, TaskIsToldLast, [Next]_vars PROVE TaskIsToldLast'
<1>0. AllKeep
  BY NextGood DEF Good
<1>1. ASSUME UNCHANGED task PROVE TaskIsToldLast'
  BY <1>0, <1>1, ToldLast
<1>2. ASSUME NEW r \in Runs, NEW st \in {"queued", "running", "failed"}, SetTask(r, st)
      PROVE  TaskIsToldLast'
  BY <1>0, <1>2, ToldLast DEF ToldRightly, TaskStatus
<1>3. ASSUME NEW r \in Runs, QuietTask(r) PROVE TaskIsToldLast'
  BY <1>1, <1>2, <1>3 DEF QuietTask
<1>w. ASSUME NEW h \in Handlers, handler[h].pc # "idle"
      PROVE  /\ handler[h].run \in Runs /\ RowOf(h) \in Rows
             /\ handler[h].files \in SUBSET FileKinds /\ handler[h].action \in Actions
  BY <1>w, WaitingRow DEF IInv, HandlerStates
<1>r. ASSUME NEW r \in Runs, NEW row, db' = [db EXCEPT ![r] = row] PROVE db'[r] = row
  BY <1>r DEF IInv, TypeOK
<1>4. ASSUME NEW h \in Handlers, FinishPipeline(h) PROVE TaskIsToldLast'
  <2> PICK result \in Outcomes :
         /\ SetRow(h, Finalize(RowOf(h), handler[h].files, result))
         /\ SetTask(handler[h].run, FinalStatus(handler[h].files, result))
    BY <1>4 DEF FinishPipeline
  <2> DEFINE new == Finalize(RowOf(h), handler[h].files, result)
             st == FinalStatus(handler[h].files, result)
  <2>1. /\ handler[h].run \in Runs /\ RowOf(h) \in Rows
        /\ handler[h].files \in SUBSET FileKinds
    BY <1>4, <1>w DEF FinishPipeline, At
  <2>2. new.report.made /\ new.policy.status # "none" /\ new.evidence.present
    <3> DEFINE reported == Reported(RowOf(h), handler[h].files, result)
    <3>1. reported.report.made
      BY <2>1, ReportedRow
    <3>2. Alike(reported, new) /\ new.policy.status # "none" /\ new.evidence.present
      BY <2>1, FinalizeRow
    <3> HIDE DEF reported, new
    <3> QED BY <3>1, <3>2 DEF Alike
  <2>3. st \in TaskStatus /\ st # "approved"
    BY DEF FinalStatus, TaskStatus
  <2>4. db' = [db EXCEPT ![handler[h].run] = new] /\ SetTask(handler[h].run, st)
    BY DEF SetRow
  <2> HIDE DEF new, st
  <2>5. ToldRightly(st, db'[handler[h].run])
    BY <1>r, <2>1, <2>2, <2>3, <2>4 DEF ToldRightly
  <2> QED BY <1>0, <2>1, <2>3, <2>4, <2>5, ToldLast
<1>5. ASSUME NEW h \in Handlers, Conclude(h) PROVE TaskIsToldLast'
  <2> DEFINE new == TaskTold([RowOf(h) EXCEPT !.status = ActionStatus(handler[h].action)])
             st == ActionTaskStatus(handler[h].action)
  <2>1. /\ handler[h].run \in Runs /\ RowOf(h) \in Rows
        /\ handler[h].action \in Actions
    BY <1>5, <1>w DEF Conclude
  <2>2. new.decisions = RowOf(h).decisions /\ new.evidence = RowOf(h).evidence
    BY <2>1 DEF TaskTold, Rows
  <2>3. /\ st \in TaskStatus /\ st # "waiting_for_approval"
        /\ st = "approved" => handler[h].action = "approve"
    BY <2>1 DEF ActionTaskStatus, Actions, TaskStatus
  <2>4. db' = [db EXCEPT ![handler[h].run] = new] /\ SetTask(handler[h].run, st)
    BY <1>5 DEF SetRow, Conclude
  <2> HIDE DEF new, st
  <2>5. handler[h].action = "approve" =>
          Approvals(RowOf(h)) # {} /\ RowOf(h).evidence.present
    BY <1>5 DEF IInv, HandlerOK, Conclude
  <2>6. db'[handler[h].run] = new
    BY <1>r, <2>1, <2>4
  <2>7. Approvals(new) = Approvals(RowOf(h))
    BY <2>2 DEF Approvals
  <2>8. ToldRightly(st, db'[handler[h].run])
    BY <2>2, <2>3, <2>5, <2>6, <2>7 DEF ToldRightly
  <2> QED BY <1>0, <2>1, <2>3, <2>4, <2>8, ToldLast
<1>6. ASSUME NEW h \in Handlers, Resume(h) PROVE TaskIsToldLast'
  <2>1. CASE FailRun(h) \/ FailPlan(h) \/ ExecutePlan(h) \/ BreakPlan(h)
    <3>1. handler[h].pc # "idle"
      BY <2>1 DEF FailRun, FailPlan, ExecutePlan, BreakPlan, At
    <3>2. SetTask(handler[h].run, "failed") \/ SetTask(handler[h].run, "running")
      BY <2>1 DEF FailRun, FailPlan, ExecutePlan, BreakPlan
    <3> QED BY <1>2, <1>w, <3>1, <3>2
  <2>2. CASE \/ CreateBranch(h) \/ ApplyPatch(h) \/ AssessChanges(h)
             \/ AssessPlanChanges(h) \/ AbandonPlan(h)
             \/ RecordDecision(h) \/ FinishRefresh(h)
    <3>1. UNCHANGED task
      BY <2>2 DEF CreateBranch, ApplyPatch, AssessChanges, AssessPlanChanges, AbandonPlan,
                  RecordDecision, FinishRefresh
    <3> QED BY <1>1, <3>1
  <2> QED BY <1>4, <1>5, <1>6, <2>1, <2>2 DEF Resume
<1>7. ASSUME NEW h \in Handlers, NEW r \in Runs, Request(h, r) PROVE TaskIsToldLast'
  <2>1. SetTask(r, "running") \/ UNCHANGED task
    BY <1>7 DEF Request, StartRun, SubmitPlan, Approve, Turn, RegenerateEvidence,
                GenerateStages, EvaluatePolicy, VerifyReplay
  <2> QED BY <1>1, <1>2, <2>1
<1>8. CASE \/ \E r \in Runs : RefuseApproval(r)
           \/ \E r \in Runs, s \in Stages, verdict \in {"approved", "rejected"} :
                CompleteStage(r, s, verdict)
           \/ Crash \/ UNCHANGED vars
  BY <1>1, <1>8 DEF RefuseApproval, CompleteStage, Crash, vars
<1>9. ASSUME NEW h \in Handlers, DieIn(h) PROVE TaskIsToldLast'
  <2>1. handler[h].pc # "idle" /\ QuietTask(handler[h].run)
    BY <1>9, DeathInLeaves DEF IInv
  <2> QED BY <1>3, <1>w, <2>1
<1>10. ASSUME NEW r \in Runs, DieOver(r) PROVE TaskIsToldLast'
  BY <1>3, <1>10, DeathOverLeaves DEF IInv
<1> QED BY <1>6, <1>7, <1>8, <1>9, <1>10 DEF Next

(* However handlers overlap and wherever the server dies, a task that      *)
(* waits for approval has a run with its package, and one that is approved *)
(* a run with a recorded approval and a bundle.                            *)
THEOREM TaskToldLast == Spec => []TaskIsToldLast
<1>1. Init => TaskIsToldLast
  BY DEF Init, TaskIsToldLast
<1>2. IInv /\ TaskIsToldLast /\ [Next]_vars => TaskIsToldLast'
  BY NextToldLast
<1> QED BY <1>1, <1>2, Invariant, PTL DEF Spec

=============================================================================
