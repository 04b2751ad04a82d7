----------------------------- MODULE HermesWorker -----------------------------
(***************************************************************************)
(* Work handed to the Hermes worker: a packet made of the run's worker     *)
(* plan, the worker's report in the evidence directory, the patch that the *)
(* Console applies to the working tree on an operator's word, its rollback *)
(* and the quality gates that are run on it.  What a review sign-off is    *)
(* told of them is what the rows and files say when they are read.         *)
(*                                                                         *)
(* Applying and rolling back write file after file and then the rows, in   *)
(* one tick: they can throw or die in between.  Only the commands of the   *)
(* gates are waited for.                                                   *)
(*                                                                         *)
(* Scope: one run with a valid worker plan, whose diffs name the files of  *)
(* their packet; the repository is the registered one; no two rows have    *)
(* the same timestamp.                                                     *)
(***************************************************************************)
EXTENDS Naturals, Sequences, FiniteSets

CONSTANTS
  Paths,          \* files of the working tree that matter here
  Gates,          \* the gates that the packets allow
  Plans,          \* what the worker plans write
  MaxDispatches,  \* bound: dispatches of the run
  MaxBatches,     \* bound: runs of the gates
  MaxTroubles     \* bound: exceptions, deaths of the server process, edits by others

(* create_file and update_file do the same thing. *)
Operations == [Paths -> {"none", "write_file", "append_file"}]

ASSUME SetsAssumption == Paths # {} /\ Gates # {} /\ Plans \subseteq Operations
ASSUME BoundsAssumption == /\ MaxDispatches \in Nat \ {0} /\ MaxBatches \in Nat
                           /\ MaxTroubles \in Nat

VARIABLES
  open,        \* the run is neither completed nor failed
  dispatches,  \* engineer_hermes_worker_dispatches, oldest first
  reports,     \* worker-report.json of each dispatch
  saved,       \* patch-rollback.json of each dispatch
  rows,        \* engineer_hermes_patch_applications, oldest first
  tree,        \* the working tree
  batches,     \* what each request that runs the gates has still to run
  results,     \* engineer_hermes_quality_gate_runs, oldest first
  troubles,    \* exceptions, deaths and edits by others so far
  history      \* history: what the properties are conditioned on

vars == <<open, dispatches, reports, saved, rows, tree, batches, results,
          troubles, history>>

-----------------------------------------------------------------------------
(* Types *)

Ids == 1..MaxDispatches

(* A file is what was written to it, in order; <<>>: there is none.  0     *)
(* stands for text that was there before, Other for another's edit, Raw    *)
(* for bytes that are no UTF-8 and Mangled for what reading them as UTF-8  *)
(* makes of them: U+FFFD.                                                  *)
Other == MaxDispatches + 1
Raw == Other + 1
Mangled == Raw + 1
Contents == Seq(0..Mangled)
Trees == [Paths -> Contents]

(* readFileSync(..., "utf8"); what is written is always UTF-8.             *)
Decoded(content) ==
  [i \in 1..Len(content) |-> IF content[i] = Raw THEN Mangled ELSE content[i]]

Dispatches == [status : {"prepared", "dispatched"}, ops : Plans]
Reports == {"none", "failed", "patch_proposed", "patch_applied"}

(* The files of the patch as they were found before it was applied.        *)
Snapshots == [known : BOOLEAN, files : Trees]

Rows == [dispatch : Ids, status : {"applied", "rolled_back"}]

Verdicts == {"passed", "failed", "skipped"}
Results == [batch : 1..MaxBatches, status : Verdicts]
Batches == [dispatch : Ids, todo : SUBSET Gates, dead : BOOLEAN]

(* before: the files as they were before the patch was written over them;  *)
(* broken: an attempt to apply broke off; touched: something else wrote    *)
(* the files of the patch since it was last applied or rolled back.        *)
Histories == [before : [Ids -> Trees], broken : SUBSET Ids, touched : SUBSET Ids]

-----------------------------------------------------------------------------
(* The packet and the report *)

Has(d) == d \in 1..Len(dispatches)
Targets(d) == {p \in Paths : dispatches[d].ops[p] # "none"}

(* prepareHermesRunForEngineeringRun *)
Prepare(ops) ==
  /\ Len(dispatches) < MaxDispatches
  /\ \E p \in Paths : ops[p] # "none"
  /\ dispatches' = Append(dispatches, [status |-> "prepared", ops |-> ops])
  /\ UNCHANGED <<open, reports, saved, rows, tree, batches, results, troubles, history>>

(* exportHermesRunPacketToInbox; a second export does nothing. *)
Export(d) ==
  /\ Has(d)
  /\ dispatches[d].status = "prepared"
  /\ dispatches' = [dispatches EXCEPT ![d].status = "dispatched"]
  /\ UNCHANGED <<open, reports, saved, rows, tree, batches, results, troubles, history>>

(* Hermes, which reads its inbox when it likes and may run again. *)
Report(d, status) ==
  /\ Has(d)
  /\ dispatches[d].status = "dispatched"
  /\ reports' = [reports EXCEPT ![d] = status]
  /\ UNCHANGED <<open, dispatches, saved, rows, tree, batches, results, troubles, history>>

-----------------------------------------------------------------------------
(* Applying the patch *)

RowsOf(d) == {i \in 1..Len(rows) : rows[i].dispatch = d}
Applied(d) == \E i \in RowsOf(d) : rows[i].status = "applied"

(* validateHermesPatchForApply *)
Ready(d) == open /\ Has(d) /\ RowsOf(d) = {} /\ reports[d] = "patch_proposed"

Put(op, d, content) == IF op = "append_file" THEN Append(Decoded(content), d) ELSE <<d>>

EndsWith(content, d) == content # <<>> /\ content[Len(content)] = d

(* The operations of the packet, not the diff that was proposed. *)
Patched(d, some) ==
  [p \in Paths |-> IF p \in some THEN Put(dispatches[d].ops[p], d, tree[p]) ELSE tree[p]]

(* Mutant: the snapshot is taken when the files are written. *)
SnapshotAfter(d) ==
  [known |-> TRUE, files |-> [p \in Paths |-> Decoded(Patched(d, Targets(d))[p])]]

Snapshot(d) == [known |-> TRUE, files |-> [p \in Paths |-> Decoded(tree[p])]]

(* The other patches over the same files. *)
Overwritten(d) == {e \in Ids \ {d} : Has(e) /\ Targets(e) \cap Targets(d) # {}}

WroteAll(d) == (history.touched \ {d}) \cup Overwritten(d)

(* What an attempt finds was there before the patch, unless an attempt     *)
(* that broke off has left it.                                             *)
Attempted(d) ==
  [before |-> [history.before EXCEPT ![d] = [p \in Paths |->
                 IF d \in history.broken /\ EndsWith(tree[p], d) THEN @[p] ELSE tree[p]]],
   broken |-> history.broken,
   touched |-> WroteAll(d)]

ApplyPatch(d) ==
  /\ Ready(d)
  /\ tree' = Patched(d, Targets(d))
  /\ saved' = [saved EXCEPT ![d] = Snapshot(d)]
  /\ reports' = [reports EXCEPT ![d] = "patch_applied"]
  /\ rows' = Append(rows, [dispatch |-> d, status |-> "applied"])
  /\ history' = Attempted(d)
  /\ UNCHANGED <<open, dispatches, batches, results, troubles>>

Trouble == troubles < MaxTroubles /\ troubles' = troubles + 1

(* It breaks off among the files, before or after the rollback file, or    *)
(* with the report written and no row.                                     *)
ApplyBreaksOff(d, some, at) ==
  /\ Ready(d)
  /\ Trouble
  /\ some \subseteq Targets(d)
  /\ at # "files" => some = Targets(d)
  /\ tree' = Patched(d, some)
  /\ saved' = IF at = "files" THEN saved ELSE [saved EXCEPT ![d] = Snapshot(d)]
  /\ reports' = IF at = "row" THEN [reports EXCEPT ![d] = "patch_applied"] ELSE reports
  /\ history' = [Attempted(d) EXCEPT !.broken = @ \cup {d}]
  /\ UNCHANGED <<open, dispatches, rows, batches, results>>

-----------------------------------------------------------------------------
(* Rolling it back *)

Restored(d, some) == [p \in Paths |-> IF p \in some THEN saved[d].files[p] ELSE tree[p]]

(* The status of the run is not looked at, nor what was written since.     *)
Rollback(d) ==
  /\ Has(d) /\ Applied(d)
  /\ tree' = Restored(d, Targets(d))
  /\ rows' = [i \in 1..Len(rows) |->
                IF rows[i].dispatch = d THEN [rows[i] EXCEPT !.status = "rolled_back"] ELSE rows[i]]
  /\ history' = [history EXCEPT !.touched = WroteAll(d)]
  /\ UNCHANGED <<open, dispatches, reports, saved, batches, results, troubles>>

RollbackBreaksOff(d, some) ==
  /\ Has(d) /\ Applied(d)
  /\ Trouble
  /\ some \subseteq Targets(d)
  /\ tree' = Restored(d, some)
  /\ history' = [history EXCEPT !.touched = @ \cup Overwritten(d) \cup {d}]
  /\ UNCHANGED <<open, dispatches, reports, saved, rows, batches, results>>

-----------------------------------------------------------------------------
(* The quality gates *)

(* The application of the newest dispatch, else the newest of the run.     *)
GatedRow ==
  IF RowsOf(Len(dispatches)) # {}
  THEN CHOOSE i \in RowsOf(Len(dispatches)) : TRUE
  ELSE Len(rows)

(* validateHermesQualityGatesForRun *)
GatesAllowed == dispatches # <<>> /\ rows # <<>> /\ rows[GatedRow].status = "applied"

StartGates(some) ==
  /\ GatesAllowed
  /\ some # {}
  /\ Len(batches) < MaxBatches
  /\ batches' = Append(batches, [dispatch |-> rows[GatedRow].dispatch, todo |-> some,
                                 dead |-> FALSE])
  /\ UNCHANGED <<open, dispatches, reports, saved, rows, tree, results, troubles, history>>

(* One gate after the other, each with its row; whether the patch is still *)
(* applied is not asked again.                                             *)
RunGate(b, g, verdict) ==
  /\ b \in 1..Len(batches)
  /\ ~batches[b].dead /\ g \in batches[b].todo
  /\ batches' = [batches EXCEPT ![b].todo = @ \ {g}]
  /\ results' = Append(results, [batch |-> b, status |-> verdict])
  /\ UNCHANGED <<open, dispatches, reports, saved, rows, tree, troubles, history>>

(* overallStatus of the statuses of a batch *)
Overall(statuses) ==
  LET ran == statuses \ {"skipped"}
  IN IF statuses = {} THEN "not_run"
     ELSE IF ran = {"passed"} THEN "passed"
     ELSE IF ran = {"failed"} THEN "failed" ELSE "partial"

(* buildHermesPostApplyQualityGatesSummary: the batch whose row is the     *)
(* newest, with the rows it has so far.                                    *)
NewestBatch == results[Len(results)].batch

SummaryStatuses ==
  IF results = <<>> THEN {}
  ELSE {results[i].status : i \in {j \in 1..Len(results) : results[j].batch = NewestBatch}}

-----------------------------------------------------------------------------
(* What a review sign-off is told *)

(* getLatestHermesWorkerEvidenceForRun: the newest dispatch with a report, *)
(* else the newest; 0 if there is none.                                    *)
Reported == {d \in Ids : Has(d) /\ reports[d] # "none"}
Shown ==
  IF Reported = {} THEN Len(dispatches)
  ELSE CHOOSE d \in Reported : \A e \in Reported : e <= d

(* Mutant: the summary follows the report, the row is not looked at. *)
ShownPatchOfReport ==
  IF Shown # 0 /\ reports[Shown] = "patch_applied" THEN "patch_applied" ELSE "not_applied"

(* buildPatchApplicationSummary: the row, or what the report says. *)
ShownPatch ==
  IF Shown = 0 THEN "not_applied"
  ELSE IF RowsOf(Shown) # {} THEN IF Applied(Shown) THEN "patch_applied" ELSE "rolled_back"
  ELSE IF reports[Shown] = "patch_applied" THEN "patch_applied" ELSE "not_applied"

(* qualityGatesSatisfiedForApproval *)
GatesSatisfied ==
  \/ Overall(SummaryStatuses) = "passed"
  \/ "passed" \in SummaryStatuses /\ "failed" \notin SummaryStatuses

(* validateEngineeringReviewSignoffInput lets an approval pass. *)
Approvable(override) ==
  Shown # 0 => ShownPatch = "patch_applied" /\ (GatesSatisfied \/ override)

-----------------------------------------------------------------------------
(* Around the worker *)

CloseRun ==
  /\ open
  /\ open' = FALSE
  /\ UNCHANGED <<dispatches, reports, saved, rows, tree, batches, results, troubles, history>>

Edit(p) ==
  /\ Trouble
  /\ tree' = [tree EXCEPT ![p] = <<Other>>]
  /\ history' = [history EXCEPT !.touched = @ \cup {d \in Ids : Has(d) /\ p \in Targets(d)}]
  /\ UNCHANGED <<open, dispatches, reports, saved, rows, batches, results>>

(* The requests that run gates are gone, and what they had left with them. *)
Crash ==
  /\ Trouble
  /\ \E b \in 1..Len(batches) : ~batches[b].dead /\ batches[b].todo # {}
  /\ batches' = [b \in 1..Len(batches) |->
                   [batches[b] EXCEPT !.dead = @ \/ batches[b].todo # {}]]
  /\ UNCHANGED <<open, dispatches, reports, saved, rows, tree, results, history>>

Init ==
  /\ open = TRUE
  /\ dispatches = <<>>
  /\ reports = [d \in Ids |-> "none"]
  /\ tree \in [Paths -> {<<>>, <<0>>, <<Raw>>}]
  /\ saved = [d \in Ids |-> [known |-> FALSE, files |-> tree]]
  /\ rows = <<>> /\ batches = <<>> /\ results = <<>>
  /\ troubles = 0
  /\ history = [before |-> [d \in Ids |-> tree], broken |-> {}, touched |-> {}]

Patch(d) ==
  \/ Export(d) \/ ApplyPatch(d) \/ Rollback(d)
  \/ \E status \in {"failed", "patch_proposed"} : Report(d, status)
  \/ \E some \in SUBSET Paths :
       \/ \E at \in {"files", "rollback_file", "row"} : ApplyBreaksOff(d, some, at)
       \/ RollbackBreaksOff(d, some)

Next ==
  \/ \E ops \in Plans : Prepare(ops)
  \/ \E d \in Ids : Patch(d)
  \/ \E some \in SUBSET Gates : StartGates(some)
  \/ \E b \in 1..MaxBatches, g \in Gates, verdict \in Verdicts : RunGate(b, g, verdict)
  \/ CloseRun
  \/ \E p \in Paths : Edit(p)
  \/ Crash

Spec == Init /\ [][Next]_vars

-----------------------------------------------------------------------------
(* Properties *)

(* Every variable keeps its type, and a row has its dispatch. *)
TypeOK ==
  /\ open \in BOOLEAN
  /\ dispatches \in Seq(Dispatches) /\ Len(dispatches) <= MaxDispatches
  /\ reports \in [Ids -> Reports]
  /\ saved \in [Ids -> Snapshots]
  /\ rows \in Seq(Rows) /\ \A i \in 1..Len(rows) : Has(rows[i].dispatch)
  /\ tree \in Trees
  /\ batches \in Seq(Batches) /\ Len(batches) <= MaxBatches
  /\ results \in Seq(Results)
  /\ \A i \in 1..Len(results) : results[i].batch \in 1..Len(batches)
  /\ troubles \in 0..MaxTroubles
  /\ history \in Histories

(* Whatever was written over it since, rolling a patch back gives each of  *)
(* its files what the file was before, read as UTF-8; a file that an       *)
(* attempt to apply left half done when it broke off keeps that half,      *)
(* since the retry has saved it (apply-hermes-patch.ts: snapshotFile,      *)
(* applyOperationsFromPacket, rollbackHermesPatchForRun).                  *)
RollbackRestores ==
  [][\A d \in Ids : Applied(d) /\ ~Applied(d)' =>
       \A p \in Targets(d) :
         \/ tree'[p] = Decoded(history.before[d][p])
         \/ d \in history.broken /\ EndsWith(tree'[p], d)]_vars

(* What an approving sign-off is about is in the tree: when the summary of *)
(* the worker's evidence lets it pass, the files hold that patch on top of *)
(* what was there, also after attempts that broke off, unless another's    *)
(* write or a broken-off rollback came in between                          *)
(* (read-hermes-worker-evidence.ts, validate-engineering-review-signoff).  *)
SignedPatchIsInTree ==
  LET d == Shown
  IN (\E override \in BOOLEAN : Approvable(override)) /\ d # 0 /\ d \notin history.touched =>
     \A p \in Targets(d) :
       \/ tree[p] = Put(dispatches[d].ops[p], d, history.before[d][p])
       \/ d \in history.broken /\ EndsWith(tree[p], d)

=============================================================================
