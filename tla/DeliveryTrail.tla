----------------------------- MODULE DeliveryTrail -----------------------------
(***************************************************************************)
(* The audit events of the delivery: a handler appends that it was asked   *)
(* and that the request is valid, a deployment that its script started,    *)
(* and each the record of what was done, after the row says so.  The       *)
(* scripts outlive a server that dies.                                     *)
(*                                                                         *)
(* Scope: a request that is not valid appends its rejection only, under    *)
(* codes of its own, and is left out.                                      *)
(***************************************************************************)
EXTENDS DeliveryPanel, Sequences, FiniteSets

ASSUME RequestsAssumption == IsFiniteSet(Requests)

VARIABLES
  told,        \* what the ledger last says was done, by step
  irregular,   \* steps with a request that nothing will answer, and
               \* scripts that were started twice before one was answered
  orphans      \* running scripts whose server died, by environment

trail == <<told, irregular, orphans>>

Scripts == {"staging", "production"}
RunsAt == [staging |-> "staging_script", production |-> "production_script"]

-----------------------------------------------------------------------------
(* What the handlers append: when they begin, and when they are done, are  *)
(* refused after all, or throw                                             *)

Asked == <<"requested", "validated">>
Started == Asked \o <<"started">>

DeployReadinessEvents ==
  [begun |-> Asked, done |-> <<"recorded">>, refused |-> <<"rejected">>]

PacketEvents == [begun |-> Asked, done |-> <<"prepared">>]

(* Mutant: everything is appended when the outcome is known. *)
StagingEventsAtEnd ==
  [begun |-> <<>>, done |-> Started \o <<"succeeded or failed">>]

StagingEvents ==
  [begun |-> Started, done |-> <<"succeeded or failed">>]

ProductionReadinessEvents ==
  [begun |-> Asked, done |-> <<"recorded">>, refused |-> <<"rejected">>]

ProductionPacketEvents == [begun |-> Asked, done |-> <<"prepared">>]

ProductionEvents ==
  [begun |-> Started, done |-> <<"succeeded or failed">>]

CompletionReadinessEvents ==
  [begun |-> Asked, done |-> <<"recorded">>, refused |-> <<"rejected">>]

(* The run is told to be completed after its own row is. *)
RunCompletionEvents == [begun |-> Asked, done |-> <<"completed">>]

Events ==
  [deploy |-> DeployReadinessEvents, packet |-> PacketEvents, staging |-> StagingEvents,
   prodReady |-> ProductionReadinessEvents, prodPacket |-> ProductionPacketEvents,
   production |-> ProductionEvents, completion |-> CompletionReadinessEvents,
   closeout |-> RunCompletionEvents]

-----------------------------------------------------------------------------
(* Appending *)

(* The step a waiting request is about. *)
StepOf ==
  [deploy_view |-> "deploy", staging_script |-> "staging", staging_ended |-> "staging",
   staging_check |-> "prodReady", production_script |-> "production",
   production_ended |-> "production", production_check |-> "completion"]

IsAbout(state, step) == state.pc # "idle" /\ StepOf[state.pc] = step

Dead == crashes' # crashes

Open(events) == events # <<>> /\ events[Len(events)] \in {"validated", "started"}

(* The steps that are left without an answer by events after their begin. *)
LeftBy(steps, events) == {step \in steps : Open(Events[step].begun \o events)}

Lost == LeftBy({step \in StepNames : \E q \in Requests : IsAbout(request[q], step)}, <<>>)

Together ==
  {script \in Scripts : Cardinality({q \in Requests : IsAbout(request'[q], script)}) > 1}

(* What goes on whatever is appended: steps are left without an answer. *)
Watches(left) ==
  /\ irregular' = irregular \cup left \cup Together \cup (IF Dead THEN Lost ELSE {})
  /\ orphans' = [script \in Scripts |->
       IF Dead THEN orphans[script] +
                    Cardinality({q \in Requests : At(q, RunsAt[script])})
       ELSE orphans[script]]

Silent == UNCHANGED told /\ Watches({})

(* The event of what was done is the last of a step. *)
Reaches(step, answer) ==
  /\ told' = IF Dead THEN told ELSE [told EXCEPT ![step] = answer]
  /\ Watches(LeftBy({step}, IF Dead THEN <<>> ELSE Events[step].done))

-----------------------------------------------------------------------------
(* The steps of the delivery, with what they append *)

Answers(q) ==
  \/ HandleDeployReadiness(q) /\ Reaches("deploy", request[q].decision)
  \/ HandlePrepareDeploymentPacket(q) /\ Reaches("packet", "prepared")
  \/ HandleDeployToStaging(q) /\ Reaches("staging", request[q].outcome)
  \/ HandleProductionReadiness(q) /\ Reaches("prodReady", request[q].decision)
  \/ HandlePrepareProductionPacket(q) /\ Reaches("prodPacket", "prepared")
  \/ HandleDeployToProduction(q) /\ Reaches("production", request[q].outcome)
  \/ HandleCompletionReadiness(q) /\ Reaches("completion", request[q].decision)
  \/ HandleCompleteGovernedRun(q) /\ Reaches("closeout", "prepared")

RefusalTold(q) ==
  LET step == StepOf[request[q].pc] IN
  /\ Refuse(q)
  /\ UNCHANGED <<own, told>>
  /\ Watches(LeftBy({step}, Events[step].refused))

(* A script whose server died goes on, and ends. *)
OrphanEnds(script, outcome) ==
  /\ orphans[script] > 0
  /\ orphans' = [orphans EXCEPT ![script] = @ - 1]
  /\ world' = [world EXCEPT ![script] = outcome]
  /\ UNCHANGED <<row, file, run, vetted, request, crashes, disturbed, own>>
  /\ UNCHANGED <<told, irregular>>

TrailInit ==
  /\ PanelInit
  /\ told = Silence
  /\ irregular = {}
  /\ orphans = [script \in Scripts |-> 0]

(* Bound: after a death requests come one at a time. *)
OneAtATime ==
  crashes' > 0 => Cardinality({q \in Requests : request'[q].pc # "idle"}) <= 1

TrailNext ==
  /\ \/ \E q \in Requests : Answers(q) \/ RefusalTold(q)
     \/ (Elsewhere \/ VisitEnds) /\ Silent
     \/ \E script \in Scripts, outcome \in {"deployed", "failed"} :
          OrphanEnds(script, outcome)
  /\ OneAtATime

TrailSpec == TrailInit /\ [][TrailNext]_<<vars, own, trail>>

-----------------------------------------------------------------------------
(* Properties *)

Recorded ==
  [deploy |-> row.deploy, packet |-> Prepared(row.packet), staging |-> row.staging,
   prodReady |-> row.prodReady, prodPacket |-> Prepared(row.prodPacket),
   production |-> row.production, completion |-> row.completion,
   closeout |-> Prepared(row.closed)]

(* Where the ledger, the evidence file, or the environment itself, is not  *)
(* what the row says, the ledger shows why: a request that has no answer   *)
(* (yet), or two scripts that ran at a time.  So an operator can tell a    *)
(* deployment that ended unrecorded (the REQUESTED and STARTED events of   *)
(* the handlers, before anything is done).                                 *)
InterruptionsShow ==
  \A step \in StepNames :
    \/ told[step] # Recorded[step]
    \/ step \in DOMAIN file /\ file[step] # Recorded[step]
    \/ step \in Scripts /\ world[step] # Recorded[step]
    => step \in irregular \/ \E q \in Requests : IsAbout(request[q], step)

=============================================================================
