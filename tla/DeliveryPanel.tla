----------------------------- MODULE DeliveryPanel -----------------------------
(***************************************************************************)
(* The commit candidate panel of a run, from deploy readiness to closeout: *)
(* which forms it offers, what it says of each step, and what it keeps of  *)
(* the answers to its own requests.                                        *)
(*                                                                         *)
(* Scope: one visit of the panel, from which all requests come; it ends    *)
(* with the server that served it.  The adapters are there; the candidate  *)
(* is the one of Delivery.                                                 *)
(***************************************************************************)
EXTENDS Delivery

VARIABLE own  \* the answers the panel keeps, by step

StepNames == {"deploy", "packet", "staging", "prodReady", "prodPacket", "production",
              "completion", "closeout"}

Silence == [step \in StepNames |-> "none"]

Prepared(flag) == IF flag THEN "prepared" ELSE "none"

-----------------------------------------------------------------------------
(* The forms: what the panel asks of the row it loaded *)

CanRecordDeployReadiness == vetted

CanPrepareDeploymentPacket == vetted /\ row.deploy = "ready"

CanDeployToStaging == vetted /\ row.packet

(* Mutant: the status alone will do. *)
CanRecordProductionReadinessAnew ==
  vetted /\ row.status # "production_readiness_recorded" /\ row.staging = "deployed"

CanRecordProductionReadiness ==
  /\ vetted /\ row.packet
  /\ row.staging = "deployed" \/ row.status = "production_readiness_recorded"
  /\ row.staging \notin {"failed", "none"}

CanPrepareProductionPacket ==
  /\ vetted /\ row.packet
  /\ row.prodReady = "ready"
  /\ \/ row.staging = "deployed"
     \/ row.status = "production_readiness_recorded" /\ row.staging # "none"

CanDeployToProduction ==
  vetted /\ row.prodPacket /\ row.prodReady = "ready" /\ row.staging = "deployed"

CanRecordCompletionReadiness ==
  vetted /\ row.production = "deployed" /\ row.prodReady = "ready"

CanCompleteGovernedRun ==
  vetted /\ row.completion = "ready" /\ row.production = "deployed" /\ ~row.closed

-----------------------------------------------------------------------------
(* The sections: the form, and what is said of the step *)

Said(step, loaded) == IF own[step] # "none" THEN own[step] ELSE loaded

DeployReadinessSection ==
  [form |-> CanRecordDeployReadiness, says |-> Said("deploy", row.deploy)]

PacketSection ==
  [form |-> CanPrepareDeploymentPacket, says |-> Said("packet", Prepared(row.packet))]

StagingSection == [form |-> CanDeployToStaging, says |-> Said("staging", row.staging)]

ProductionReadinessSection ==
  [form |-> CanRecordProductionReadiness, says |-> Said("prodReady", row.prodReady)]

ProductionPacketSection ==
  [form |-> CanPrepareProductionPacket,
   says |-> Said("prodPacket", Prepared(row.prodPacket))]

ProductionSection ==
  [form |-> CanDeployToProduction, says |-> Said("production", row.production)]

CompletionSection ==
  [form |-> CanRecordCompletionReadiness, says |-> Said("completion", row.completion)]

CloseoutSection ==
  [form |-> CanCompleteGovernedRun, says |-> Said("closeout", Prepared(row.closed))]

-----------------------------------------------------------------------------
(* The handlers: the request's last step, and what the panel keeps of the  *)
(* answer                                                                  *)

VisitGoesOn == crashes' = 0

(* Mutant: an answer that is already there stays. *)
KeepsFirst(step, answer) ==
  own' = IF ~VisitGoesOn THEN Silence
         ELSE IF own[step] # "none" THEN own
         ELSE [own EXCEPT ![step] = answer]

Keeps(step, answer) ==
  own' = IF VisitGoesOn THEN [own EXCEPT ![step] = answer] ELSE Silence

HandleDeployReadiness(q) ==
  RecordDeployReadiness(q) /\ Keeps("deploy", request[q].decision)

HandlePrepareDeploymentPacket(q) ==
  PreparePacket(q) /\ Keeps("packet", "prepared")

HandleDeployToStaging(q) ==
  RecordStaging(q) /\ Keeps("staging", request[q].outcome)

HandleProductionReadiness(q) ==
  RecordProductionReadiness(q) /\ Keeps("prodReady", request[q].decision)

HandlePrepareProductionPacket(q) ==
  PrepareProductionPacket(q) /\ Keeps("prodPacket", "prepared")

HandleDeployToProduction(q) ==
  RecordProduction(q) /\ Keeps("production", request[q].outcome)

HandleCompletionReadiness(q) ==
  RecordCompletionReadiness(q) /\ Keeps("completion", request[q].decision)

HandleCompleteGovernedRun(q) ==
  CloseOut(q) /\ Keeps("closeout", "prepared")

Handles(q) ==
  \/ HandleDeployReadiness(q) \/ HandlePrepareDeploymentPacket(q)
  \/ HandleDeployToStaging(q) \/ HandleProductionReadiness(q)
  \/ HandlePrepareProductionPacket(q) \/ HandleDeployToProduction(q)
  \/ HandleCompletionReadiness(q) \/ HandleCompleteGovernedRun(q)

PanelInit == Init /\ own = Silence

(* What leaves the row as it is. *)
Elsewhere ==
  /\ \/ \E q \in Requests :
          \/ \E decision \in {"ready", "not_ready"} :
               \/ RequestDeployReadiness(q, decision)
               \/ RequestProductionReadiness(q, decision)
               \/ RequestCompletionReadiness(q, decision)
          \/ RequestStaging(q) \/ RequestProduction(q)
          \/ \E outcome \in {"deployed", "failed"} :
               StagingEnds(q, outcome) \/ ProductionEnds(q, outcome)
          \/ Refuse(q)
     \/ Withdraw
     \/ \E status \in {"open", "completed"} : Orchestrate(status)
  /\ UNCHANGED own

VisitEnds == Crash /\ own' = Silence

PanelNext == Elsewhere \/ VisitEnds \/ \E q \in Requests : Handles(q)

PanelSpec == PanelInit /\ [][PanelNext]_<<vars, own>>

-----------------------------------------------------------------------------
(* Properties *)

(* The panel hides no step that would be accepted, unless the server died; *)
(* and a step it offers is refused for three reasons only, when it did not:*)
(* deploy or production readiness was taken back, a later deployment of    *)
(* staging failed, or the run is not open (the forms of                    *)
(* CommitCandidatePanel against the validations of the handlers).          *)
PanelOffersWhatIsAccepted ==
  crashes = 0 =>
    /\ MayPack <=> PacketSection.form
    /\ MayStage <=> StagingSection.form /\ row.deploy = "ready"
    /\ MayAttestProduction <=> ProductionReadinessSection.form /\ row.deploy = "ready"
    /\ MayPackProduction <=> ProductionPacketSection.form /\ row.staging = "deployed"
    /\ MayProduce <=> ProductionSection.form
    /\ MayAttestCompletion <=> CompletionSection.form /\ row.staging = "deployed"
    /\ MayClose <=> /\ CloseoutSection.form
                    /\ run = "open" /\ row.prodReady = "ready" /\ row.staging = "deployed"

(* While the visit lasts, what the panel says of every step is on the row, *)
(* and the evidence it points at says the same, however often and in what  *)
(* order steps are repeated (the results CommitCandidatePanel keeps beside *)
(* the loaded candidate).                                                  *)
PanelSaysWhatIsRecorded ==
  crashes = 0 =>
    /\ DeployReadinessSection.says = row.deploy
    /\ PacketSection.says = Prepared(row.packet)
    /\ StagingSection.says = row.staging
    /\ ProductionReadinessSection.says = row.prodReady
    /\ ProductionPacketSection.says = Prepared(row.prodPacket)
    /\ ProductionSection.says = row.production
    /\ CompletionSection.says = row.completion
    /\ CloseoutSection.says = Prepared(row.closed)
    /\ file = [deploy |-> DeployReadinessSection.says, staging |-> StagingSection.says,
               prodReady |-> ProductionReadinessSection.says,
               production |-> ProductionSection.says,
               completion |-> CompletionSection.says]

=============================================================================
