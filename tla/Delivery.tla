------------------------------- MODULE Delivery -------------------------------
(***************************************************************************)
(* The delivery of a merged commit candidate: deploy readiness, deployment *)
(* packet, staging, production readiness, production packet, production,   *)
(* completion readiness and the closeout of the governed run.              *)
(*                                                                         *)
(* Each step is a request that validates the row and the evidence files,   *)
(* waits for GitHub, a deploy script or a health check where it needs one, *)
(* writes its evidence file and then updates the row.  The row's status    *)
(* column is overwritten by every step, so the validations rest on columns *)
(* that the steps fill and that nothing clears; every step but the         *)
(* closeout can be requested again at any time.                            *)
(*                                                                         *)
(* Scope: one candidate whose merge commit is known and whose gates had    *)
(* passed; readiness decisions blocked and not_ready are the same; files   *)
(* once written are not removed; a withdrawn sign-off or patch does not    *)
(* come back; a deploy script that the validation found is there when it   *)
(* is started, right after it.                                             *)
(***************************************************************************)
EXTENDS Naturals

CONSTANTS
  Requests,   \* requests in flight at once
  MaxCrashes  \* bound: deaths of the server process

ASSUME CrashAssumption == MaxCrashes \in Nat

VARIABLES
  row,       \* the candidate's columns in engineer_commit_candidates
  file,      \* what its evidence files say
  run,       \* engineering_runs.status, with the step that set it
  vetted,    \* the sign-off stands and the patch is applied
  world,     \* how the last finished script left staging and production
  request,   \* the local state of each request in flight
  crashes,   \* deaths so far
  disturbed  \* history: requests have overlapped, or the server has died

vars == <<row, file, run, vetted, world, request, crashes, disturbed>>

-----------------------------------------------------------------------------
(* Types *)

Decisions == {"none", "ready", "not_ready"}
Outcomes == {"none", "deployed", "failed"}

(* The status column is looked at for one value only. *)
Rows == [status : {"production_readiness_recorded", "other"},
         deploy : Decisions, packet : BOOLEAN, staging : Outcomes,
         prodReady : Decisions, prodPacket : BOOLEAN, production : Outcomes,
         completion : Decisions, closed : BOOLEAN]
Files == [deploy : Decisions, staging : Outcomes, prodReady : Decisions,
          production : Outcomes, completion : Decisions]
Worlds == [staging : Outcomes, production : Outcomes]
Runs == {"open", "completed", "governed_run_completed"}

RequestStates ==
  [pc : {"idle", "deploy_view", "staging_script", "staging_ended",
         "staging_check", "production_script", "production_ended",
         "production_check"},
   decision : Decisions, outcome : Outcomes]

Idle == [pc |-> "idle", decision |-> "none", outcome |-> "none"]

-----------------------------------------------------------------------------
(* What the validations look at.  All require the merge, which is there,   *)
(* and a sign-off and patch that stand.                                    *)

DeployReady == row.deploy = "ready" /\ file.deploy = "ready"
StagingWorked == row.staging = "deployed" /\ file.staging = "deployed"
ProductionReady == row.prodReady = "ready" /\ file.prodReady = "ready"

MayPack == vetted /\ DeployReady

MayStage == vetted /\ DeployReady /\ row.packet

(* Mutant: a deployment packet is enough. *)
MayAttestUnstaged == vetted /\ DeployReady /\ row.packet

MayAttestProduction ==
  /\ vetted
  /\ DeployReady
  /\ row.packet
  /\ row.staging = "deployed" \/ row.status = "production_readiness_recorded"
  /\ file.staging = "deployed"

MayPackProduction == vetted /\ ProductionReady /\ StagingWorked /\ row.packet

(* Mutant: readiness was decided over the staging of that time. *)
MayProduceUnstaged == vetted /\ row.prodPacket /\ ProductionReady

MayProduce == vetted /\ row.prodPacket /\ ProductionReady /\ StagingWorked

MayAttestCompletion ==
  /\ vetted
  /\ row.production = "deployed" /\ file.production = "deployed"
  /\ ProductionReady
  /\ row.staging = "deployed"

(* Mutant: the attestation is taken for the evidence it was made over. *)
MayCloseAttested == /\ run = "open"
                    /\ ~row.closed
                    /\ row.completion = "ready" /\ file.completion = "ready"

MayClose ==
  /\ run = "open"
  /\ ~row.closed
  /\ row.completion = "ready" /\ file.completion = "ready"
  /\ MayAttestCompletion

-----------------------------------------------------------------------------
(* Requests *)

Free(q) == request[q].pc = "idle"
At(q, pc) == request[q].pc = pc

(* A request is validated and goes on to wait at pc. *)
Begin(q, pc, decision) ==
  /\ Free(q)
  /\ request' = [request EXCEPT ![q] = [Idle EXCEPT !.pc = pc, !.decision = decision]]
  /\ disturbed' = (disturbed \/ \E p \in Requests : ~Free(p))
  /\ UNCHANGED <<row, file, run, vetted, world, crashes>>

Dies ==
  /\ crashes < MaxCrashes
  /\ crashes' = crashes + 1
  /\ request' = [q \in Requests |-> Idle]
  /\ disturbed' = TRUE

(* The block that ends a step: the evidence file, then the row, then the   *)
(* answer; a server that dies in it may leave the row recorded or not.     *)
Save(q, columns, evidence) ==
  /\ file' = evidence
  /\ \/ /\ row' = columns
        /\ request' = [request EXCEPT ![q] = Idle]
        /\ UNCHANGED <<crashes, disturbed>>
     \/ Dies /\ row' \in {row, columns}
  /\ UNCHANGED <<run, vetted, world>>

(* Every mark sets the status; this one is read again. *)
Other(columns) == [columns EXCEPT !.status = "other"]

(* recordDeployReadinessForRun waits for GitHub and git when they are      *)
(* there; a merged pull request does not change any more.                  *)
RequestDeployReadiness(q, decision) == vetted /\ Begin(q, "deploy_view", decision)

RecordDeployReadiness(q) ==
  /\ At(q, "deploy_view")
  /\ Save(q, Other([row EXCEPT !.deploy = request[q].decision]),
             [file EXCEPT !.deploy = request[q].decision])

PreparePacket(q) ==
  /\ Free(q)
  /\ MayPack
  /\ Save(q, Other([row EXCEPT !.packet = TRUE]), file)

RequestStaging(q) == MayStage /\ Begin(q, "staging_script", "none")

(* The script ends by itself or is killed after its time: exit 124. *)
StagingEnds(q, outcome) ==
  /\ At(q, "staging_script")
  /\ world' = [world EXCEPT !.staging = outcome]
  /\ request' = [request EXCEPT ![q].pc = "staging_ended", ![q].outcome = outcome]
  /\ UNCHANGED <<row, file, run, vetted, crashes, disturbed>>

RecordStaging(q) ==
  /\ At(q, "staging_ended")
  /\ Save(q, Other([row EXCEPT !.staging = request[q].outcome]),
             [file EXCEPT !.staging = request[q].outcome])

RequestProductionReadiness(q, decision) ==
  MayAttestProduction /\ Begin(q, "staging_check", decision)

(* The health check of staging is noted in the evidence and decides nothing. *)
RecordProductionReadiness(q) ==
  /\ At(q, "staging_check")
  /\ Save(q, [row EXCEPT !.prodReady = request[q].decision,
                         !.status = "production_readiness_recorded"],
             [file EXCEPT !.prodReady = request[q].decision])

PrepareProductionPacket(q) ==
  /\ Free(q)
  /\ MayPackProduction
  /\ Save(q, Other([row EXCEPT !.prodPacket = TRUE]), file)

RequestProduction(q) == MayProduce /\ Begin(q, "production_script", "none")

ProductionEnds(q, outcome) ==
  /\ At(q, "production_script")
  /\ world' = [world EXCEPT !.production = outcome]
  /\ request' = [request EXCEPT ![q].pc = "production_ended", ![q].outcome = outcome]
  /\ UNCHANGED <<row, file, run, vetted, crashes, disturbed>>

RecordProduction(q) ==
  /\ At(q, "production_ended")
  /\ Save(q, Other([row EXCEPT !.production = request[q].outcome]),
             [file EXCEPT !.production = request[q].outcome])

RequestCompletionReadiness(q, decision) ==
  MayAttestCompletion /\ Begin(q, "production_check", decision)

(* So is the health check of production. *)
RecordCompletionReadiness(q) ==
  /\ At(q, "production_check")
  /\ Save(q, Other([row EXCEPT !.completion = request[q].decision]),
             [file EXCEPT !.completion = request[q].decision])

ClosedRow == Other([row EXCEPT !.closed = TRUE])

(* Mutant: the run is completed first, the candidate after it. *)
CloseOutRunFirst(q) ==
  /\ Free(q)
  /\ MayClose
  /\ run' = "governed_run_completed"
  /\ \/ row' = ClosedRow /\ UNCHANGED <<request, crashes, disturbed>>
     \/ Dies /\ UNCHANGED row
  /\ UNCHANGED <<file, vetted, world>>

(* completeGovernedRunForRun waits for nothing: the closeout packet, the   *)
(* candidate, then the run.                                                *)
CloseOut(q) ==
  /\ Free(q)
  /\ MayClose
  /\ row' = ClosedRow
  /\ \/ run' = "governed_run_completed" /\ UNCHANGED <<request, crashes, disturbed>>
     \/ Dies /\ run' \in {run, "governed_run_completed"}
  /\ UNCHANGED <<file, vetted, world>>

(* The inspection objects. *)
Refuse(q) ==
  /\ request[q].pc \in {"deploy_view", "staging_check", "production_check"}
  /\ request' = [request EXCEPT ![q] = Idle]
  /\ UNCHANGED <<row, file, run, vetted, world, crashes, disturbed>>

-----------------------------------------------------------------------------
(* Around the requests *)

(* A later sign-off or a rollback of the patch. *)
Withdraw ==
  /\ vetted
  /\ vetted' = FALSE
  /\ UNCHANGED <<row, file, run, world, request, crashes, disturbed>>

(* The orchestrator completes the run on an approval, or takes it back to  *)
(* work on a request for a fix or a new plan, whatever was delivered.      *)
Orchestrate(status) ==
  /\ run' = status
  /\ UNCHANGED <<row, file, vetted, world, request, crashes, disturbed>>

Crash ==
  /\ \E q \in Requests : ~Free(q)
  /\ Dies
  /\ UNCHANGED <<row, file, run, vetted, world>>

Init ==
  /\ row = [status |-> "other", deploy |-> "none", packet |-> FALSE,
            staging |-> "none", prodReady |-> "none", prodPacket |-> FALSE,
            production |-> "none", completion |-> "none", closed |-> FALSE]
  /\ file = [deploy |-> "none", staging |-> "none", prodReady |-> "none",
             production |-> "none", completion |-> "none"]
  /\ run = "open"
  /\ vetted = TRUE
  /\ world = [staging |-> "none", production |-> "none"]
  /\ request = [q \in Requests |-> Idle]
  /\ crashes = 0
  /\ disturbed = FALSE

Ask(q) ==
  \/ \E decision \in {"ready", "not_ready"} :
       \/ RequestDeployReadiness(q, decision)
       \/ RequestProductionReadiness(q, decision)
       \/ RequestCompletionReadiness(q, decision)
  \/ PreparePacket(q) \/ PrepareProductionPacket(q)
  \/ RequestStaging(q) \/ RequestProduction(q)
  \/ CloseOut(q)

Continue(q) ==
  \/ RecordDeployReadiness(q) \/ RecordProductionReadiness(q)
  \/ RecordCompletionReadiness(q)
  \/ \E outcome \in {"deployed", "failed"} : StagingEnds(q, outcome)
                                          \/ ProductionEnds(q, outcome)
  \/ RecordStaging(q) \/ RecordProduction(q)
  \/ Refuse(q)

Next ==
  \/ \E q \in Requests : Ask(q) \/ Continue(q)
  \/ Withdraw
  \/ \E status \in {"open", "completed"} : Orchestrate(status)
  \/ Crash

Spec == Init /\ [][Next]_vars

-----------------------------------------------------------------------------
(* Properties *)

(* Every variable keeps its shape. *)
TypeOK ==
  /\ row \in Rows
  /\ file \in Files
  /\ run \in Runs
  /\ vetted \in BOOLEAN
  /\ world \in Worlds
  /\ request \in [Requests -> RequestStates]
  /\ crashes \in 0..MaxCrashes
  /\ disturbed \in BOOLEAN

(* How far the columns say the candidate came. *)
Reached ==
  IF row.closed THEN 8
  ELSE IF row.completion # "none" THEN 7
  ELSE IF row.production # "none" THEN 6
  ELSE IF row.prodPacket THEN 5
  ELSE IF row.prodReady # "none" THEN 4
  ELSE IF row.staging # "none" THEN 3
  ELSE IF row.packet THEN 2
  ELSE IF row.deploy # "none" THEN 1
  ELSE 0

Steps == INSTANCE GovernedSteps
           WITH Items <- {"candidate"}, Steps <- 8,
                reached <- [c \in {"candidate"} |-> Reached]

(* No step of the delivery is recorded before its predecessor, and none is *)
(* ever lost, however often steps are repeated, overlap, or die halfway.   *)
StepsInOrder == Steps!Spec

(* A run that a closeout completed belongs to a closed candidate, also     *)
(* when the server dies between the two writes (completeGovernedRunForRun).*)
RunFollowsCandidate == run = "governed_run_completed" => row.closed

(* While requests do not overlap and the server does not die, the script   *)
(* that last touched production, and the one that last touched staging,    *)
(* had succeeded when a run is closed out, although both can be run again  *)
(* after the operator attested that production is fit for it.              *)
ClosesOnWorkingDeployments ==
  [][~disturbed /\ (\A q \in Requests : Free(q)) /\ row'.closed /\ ~row.closed =>
       world = [staging |-> "deployed", production |-> "deployed"]]_vars

(* Under the same conditions a production script only starts over a        *)
(* staging that works, even if staging was deployed again since its        *)
(* readiness was decided.                                                  *)
ProductionOverWorkingStaging ==
  [][\A q \in Requests :
       ~disturbed' /\ ~At(q, "production_script") /\ request'[q].pc = "production_script"
         => world.staging = "deployed"]_vars

=============================================================================
