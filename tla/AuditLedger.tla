----------------------------- MODULE AuditLedger -----------------------------
(***************************************************************************)
(* The audit ledger: one hash chain per scope, to which every governed     *)
(* operation of every run appends, and its three verifications: of the     *)
(* scope, of one run, and the AUDIT_CHAIN check of replay verification.    *)
(*                                                                         *)
(* An append reads the latest event and inserts the next one in one        *)
(* synchronous transaction, so it is one step.  The latest event is the    *)
(* one with the greatest createdAt (rowid breaks ties), and createdAt is   *)
(* the wall clock's milliseconds: many events share one, and an operator   *)
(* or a time service may set the clock back.                               *)
(*                                                                         *)
(* Scope: one scope, one process, events written by appendAuditEvent.      *)
(* SHA-256 is modelled as an injection: a chain hash is the sequence of    *)
(* what was hashed along the chain.  The payload hash is part of `what`:   *)
(* it is taken of the payload redacted twice, which a third redaction (of  *)
(* the stored payload, when it is verified) leaves as it is.               *)
(***************************************************************************)
EXTENDS Naturals, Sequences

CONSTANTS
  Runs,       \* run ids
  NoRun,      \* events of a task, which carry no run id
  Contents,   \* what an event says: its type, entity and payload hash
  MaxEvents,  \* bound: length of the ledger
  MaxTime     \* bound: greatest clock reading

ASSUME LedgerAssumption ==
  /\ NoRun \notin Runs
  /\ MaxEvents \in Nat /\ MaxTime \in Nat

VARIABLES
  ledger,  \* engineer_audit_events in insertion order; the index is the rowid
  clock    \* the wall clock

vars == <<ledger, clock>>

-----------------------------------------------------------------------------
Genesis == <<>>
Hashes == Seq((Runs \cup {NoRun}) \X Contents \X Nat)
Events == [run : Runs \cup {NoRun}, what : Contents, at : Nat,
           prev : Hashes, hash : Hashes]

(* computeChainHash *)
ChainHash(prev, run, what, at) == Append(prev, <<run, what, at>>)

(* ORDER BY created_at, rowid *)
Before(i, j) == ledger[i].at < ledger[j].at \/ (ledger[i].at = ledger[j].at /\ i < j)

Newest(S) == CHOOSE i \in S : \A j \in S \ {i} : Before(j, i)

(* The hash that the next event is linked to. *)
LatestHash == IF ledger = <<>> THEN Genesis ELSE ledger[Newest(DOMAIN ledger)].hash

-----------------------------------------------------------------------------
(* Verification of the events whose indices are in S *)

Forked(S) ==
  \E i, j \in S :
    /\ i # j
    /\ \/ ledger[i].hash = ledger[j].hash
       \/ ledger[i].prev = ledger[j].prev /\ ledger[i].prev # Genesis

HashBefore(S, i) ==
  LET earlier == {j \in S : Before(j, i)}
  IN  IF earlier = {} THEN Genesis ELSE ledger[Newest(earlier)].hash

(* Mutant: every event is checked against the predecessor it names. *)
LinkedToNamed(S) ==
  \A i \in S : ledger[i].hash = ChainHash(ledger[i].prev, ledger[i].run,
                                          ledger[i].what, ledger[i].at)

Linked(S) ==
  \A i \in S :
    /\ ledger[i].prev = HashBefore(S, i)
    /\ ledger[i].hash = ChainHash(HashBefore(S, i), ledger[i].run,
                                  ledger[i].what, ledger[i].at)

VerifyAuditChain(S) == ~Forked(S) /\ Linked(S)

VerifyScope == VerifyAuditChain(DOMAIN ledger)

EventsOf(r) == {i \in DOMAIN ledger : ledger[i].run = r}

(* verifyAuditChainForRun: the run's events as a chain of their own, and   *)
(* the forks of the whole scope.                                           *)
VerifyRun(r) == VerifyAuditChain(EventsOf(r)) /\ ~Forked(DOMAIN ledger)

(* verifyAuditChainCheck, the AUDIT_CHAIN check of a replay verification.  *)
AuditChainCheck(r) ==
  IF ~VerifyScope THEN "failed"
  ELSE IF EventsOf(r) = {} THEN "warning"
  ELSE IF \A i \in EventsOf(r) :
            ledger[i].hash = ChainHash(ledger[i].prev, ledger[i].run,
                                       ledger[i].what, ledger[i].at)
  THEN "passed" ELSE "failed"

-----------------------------------------------------------------------------
Init ==
  /\ ledger = <<>>
  /\ clock = 0

AppendAuditEvent(run, what) ==
  /\ Len(ledger) < MaxEvents
  /\ ledger' = Append(ledger,
       [run |-> run, what |-> what, at |-> clock, prev |-> LatestHash,
        hash |-> ChainHash(LatestHash, run, what, clock)])
  /\ UNCHANGED clock

(* createTask, updateTask *)
AuditTask == \E what \in Contents : AppendAuditEvent(NoRun, what)

(* Every event of a run, from RUN_CREATED on; a run belongs to a task.     *)
AuditRun(r) ==
  /\ \E i \in DOMAIN ledger : ledger[i].run = NoRun
  /\ \E what \in Contents : AppendAuditEvent(r, what)

Tick ==
  /\ clock < MaxTime
  /\ clock' = clock + 1
  /\ UNCHANGED ledger

SetClockBack ==
  /\ clock > 0
  /\ clock' = clock - 1
  /\ UNCHANGED ledger

Next ==
  \/ AuditTask
  \/ \E r \in Runs : AuditRun(r)
  \/ Tick
  \/ SetClockBack

Spec == Init /\ [][Next]_vars

-----------------------------------------------------------------------------
(* Properties *)

(* The ledger holds well-formed events and the clock is a natural number. *)
TypeOK == ledger \in Seq(Events) /\ clock \in Nat

InOrder == \A i, j \in DOMAIN ledger : i < j => ledger[i].at <= ledger[j].at

(* The scope verifies exactly when no event carries an earlier time than   *)
(* one that was inserted before it: interleaved runs, and any number of    *)
(* events in one millisecond, never break the chain, and a clock that was  *)
(* set back between two appends is always detected                         *)
(* (verifyAuditChainForScope against appendAuditEvent).                    *)
VerifiesExactlyInOrder == VerifyScope <=> InOrder

(* A scope that does not verify never verifies again: appending more       *)
(* events cannot hide a break (verifyAuditChain).                          *)
FailureIsPermanent == [][~VerifyScope => ~VerifyScope']_vars

(* As long as the events are in the order of their times, the AUDIT_CHAIN *)
(* check passes for every run that has events, however the appends of runs *)
(* and tasks interleave (verifyAuditChainCheck).  RunLifecycle rests on it.*)
AuditCheckPasses ==
  InOrder => \A r \in Runs : EventsOf(r) # {} => AuditChainCheck(r) = "passed"

(* docs/audit-ledger.md:48: the verification of a run's own events.  On a  *)
(* ledger that verifies as a whole, it succeeds for every run.             *)
RunVerifies == VerifyScope => \A r \in Runs : VerifyRun(r)

=============================================================================
