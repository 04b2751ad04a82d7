-------------------------- MODULE AuditLedgerProofs --------------------------
(***************************************************************************)
(* Proofs about AuditLedger, for any number of runs, events and readings   *)
(* of the clock.                                                           *)
(*                                                                         *)
(* Newest is a CHOOSE, so its proofs need a newest event to exist in every *)
(* set that the ledger asks it of; NewestExists carries that along the     *)
(* steps instead of an induction over finite sets.                         *)
(***************************************************************************)
EXTENDS AuditLedger, TLAPS

HasNewest(S) == \E m \in S : \A j \in S \ {m} : Before(j, m)

(* The events up to a place in the order of time and rowid. *)
UpTo(t, k) ==
  {i \in DOMAIN ledger : ledger[i].at < t \/ (ledger[i].at = t /\ i < k)}

NewestExists ==
  /\ ledger # <<>> => HasNewest(DOMAIN ledger)
  /\ \A t, k \in Nat : UpTo(t, k) # {} => HasNewest(UpTo(t, k))

(* Every event names the event that was the newest when it was appended. *)
Linking ==
  \A j \in DOMAIN ledger :
    /\ ledger[j].hash = ChainHash(ledger[j].prev, ledger[j].run,
                                  ledger[j].what, ledger[j].at)
    /\ j = 1 => ledger[j].prev = Genesis
    /\ j > 1 => \E k \in DOMAIN ledger :
                  /\ k < j
                  /\ ledger[j].prev = ledger[k].hash
                  /\ \A i \in DOMAIN ledger : i < j /\ i # k => Before(i, k)

(* The hash of an ordered ledger's event tells its place. *)
Depth == InOrder => \A j \in DOMAIN ledger : Len(ledger[j].hash) = j

LedgerInv == TypeOK /\ NewestExists /\ Linking /\ Depth

-----------------------------------------------------------------------------
(* What the type gives of a single event. *)
LEMMA EventTypes ==
  ASSUME TypeOK
  PROVE  /\ Len(ledger) \in Nat /\ DOMAIN ledger = 1..Len(ledger)
         /\ \A i \in DOMAIN ledger :
              /\ i \in Nat /\ i > 0
              /\ ledger[i].at \in Nat
              /\ ledger[i].run \in Runs \cup {NoRun}
              /\ ledger[i].what \in Contents
              /\ ledger[i].prev \in Hashes
              /\ ledger[i].hash \in Hashes
<1>1. Len(ledger) \in Nat /\ DOMAIN ledger = 1..Len(ledger)
  BY DEF TypeOK
<1>2. \A i \in DOMAIN ledger : ledger[i] \in Events
  BY DEF TypeOK
<1>3. ASSUME NEW e \in Events
      PROVE  /\ e.at \in Nat /\ e.run \in Runs \cup {NoRun} /\ e.what \in Contents
             /\ e.prev \in Hashes /\ e.hash \in Hashes
  BY DEF Events
<1>4. \A i \in DOMAIN ledger : i \in Nat /\ i > 0
  BY <1>1
<1> QED
  BY <1>1, <1>2, <1>3, <1>4

(* Before is a total order, and Newest the greatest element where one is.  *)

LEMMA NewestIs ==
  ASSUME TypeOK, NEW S \in SUBSET DOMAIN ledger, HasNewest(S)
  PROVE  Newest(S) \in S /\ \A j \in S \ {Newest(S)} : Before(j, Newest(S))
  BY DEF HasNewest, Newest

LEMMA NewestUnique ==
  ASSUME TypeOK, NEW S \in SUBSET DOMAIN ledger, NEW m \in S,
         \A j \in S \ {m} : Before(j, m)
  PROVE  Newest(S) = m
<1>1. HasNewest(S)
  BY DEF HasNewest
<1>2. Newest(S) \in S /\ \A j \in S \ {Newest(S)} : Before(j, Newest(S))
  BY <1>1, NewestIs
<1>3. \A i \in DOMAIN ledger : ledger[i].at \in Nat /\ i \in Nat
  BY EventTypes
<1> QED
  BY <1>2, <1>3 DEF Before

LEMMA LatestHashType ==
  ASSUME LedgerInv
  PROVE  LatestHash \in Hashes
<1>1. CASE ledger = <<>>
  BY <1>1 DEF LatestHash, Genesis, Hashes
<1>2. CASE ledger # <<>>
  <2>1. Newest(DOMAIN ledger) \in DOMAIN ledger
    BY <1>2, NewestIs DEF LedgerInv, NewestExists
  <2> QED
    BY <1>2, <2>1, EventTypes DEF LatestHash, LedgerInv
<1> QED
  BY <1>1, <1>2

-----------------------------------------------------------------------------
(* What an append does to the ledger. *)

LEMMA AppendStep ==
  ASSUME LedgerInv, NEW run \in Runs \cup {NoRun}, NEW what \in Contents,
         AppendAuditEvent(run, what), NEW n \in Nat, n = Len(ledger) + 1
  PROVE  /\ ledger' \in Seq(Events)
         /\ n \notin DOMAIN ledger
         /\ DOMAIN ledger' = DOMAIN ledger \cup {n}
         /\ \A i \in DOMAIN ledger : ledger'[i] = ledger[i]
         /\ ledger'[n].run = run
         /\ ledger'[n].what = what
         /\ ledger'[n].at = clock
         /\ ledger'[n].prev = LatestHash
         /\ ledger'[n].hash = ChainHash(LatestHash, run, what, clock)
<1> DEFINE e == [run |-> run, what |-> what, at |-> clock, prev |-> LatestHash,
                hash |-> ChainHash(LatestHash, run, what, clock)]
<1>1. LatestHash \in Hashes
  BY LatestHashType
<1>2. ChainHash(LatestHash, run, what, clock) \in Hashes
  BY <1>1 DEF ChainHash, Hashes, LedgerInv, TypeOK
<1>3. e \in Events
  BY <1>1, <1>2 DEF Events, LedgerInv, TypeOK
<1>4. /\ e.run = run /\ e.what = what /\ e.at = clock /\ e.prev = LatestHash
      /\ e.hash = ChainHash(LatestHash, run, what, clock)
  OBVIOUS
<1>5. ledger' = Append(ledger, e) /\ ledger \in Seq(Events)
  BY DEF AppendAuditEvent, LedgerInv, TypeOK
<1> HIDE DEF e
<1>6. /\ ledger' \in Seq(Events)
      /\ ledger'[n] = e
      /\ n \notin DOMAIN ledger
      /\ DOMAIN ledger' = DOMAIN ledger \cup {n}
      /\ \A i \in DOMAIN ledger : ledger'[i] = ledger[i]
  BY <1>3, <1>5
<1> QED
  BY <1>4, <1>6

(* Before compares two old events as it did; the new event, at the clock's *)
(* reading, comes after an old one exactly if that is not later.           *)
LEMMA AppendOrder ==
  ASSUME LedgerInv, NEW run \in Runs \cup {NoRun}, NEW what \in Contents,
         AppendAuditEvent(run, what), NEW n \in Nat, n = Len(ledger) + 1
  PROVE  /\ \A i, j \in DOMAIN ledger : Before(i, j)' <=> Before(i, j)
         /\ \A i \in DOMAIN ledger :
              /\ Before(i, n)' <=> ledger[i].at <= clock
              /\ Before(n, i)' <=> clock < ledger[i].at
<1>1. /\ Len(ledger) \in Nat /\ DOMAIN ledger = 1..Len(ledger) /\ clock \in Nat
      /\ \A i \in DOMAIN ledger : ledger[i].at \in Nat
  BY EventTypes DEF LedgerInv, TypeOK
<1>2. /\ \A i \in DOMAIN ledger : ledger'[i] = ledger[i]
      /\ ledger'[n].at = clock
  BY AppendStep
<1> QED
  BY <1>1, <1>2 DEF Before

(* NewestExists is kept: the new event is the newest of a set it enters,   *)
(* or the set's newest event stays.                                        *)
LEMMA AppendKeepsNewest ==
  ASSUME LedgerInv, NEW run \in Runs \cup {NoRun}, NEW what \in Contents,
         AppendAuditEvent(run, what), NEW n \in Nat, n = Len(ledger) + 1
  PROVE  NewestExists'
<1>1. /\ Len(ledger) \in Nat /\ DOMAIN ledger = 1..Len(ledger) /\ clock \in Nat
      /\ \A i \in DOMAIN ledger : ledger[i].at \in Nat
  BY EventTypes DEF LedgerInv, TypeOK
<1>2. /\ DOMAIN ledger' = DOMAIN ledger \cup {n}
      /\ n \notin DOMAIN ledger
      /\ \A i \in DOMAIN ledger : ledger'[i] = ledger[i]
      /\ ledger'[n].at = clock
  BY <1>1, AppendStep
<1>3. /\ \A i, j \in DOMAIN ledger : Before(i, j)' <=> Before(i, j)
      /\ \A i \in DOMAIN ledger :
           /\ Before(i, n)' <=> ledger[i].at <= clock
           /\ Before(n, i)' <=> clock < ledger[i].at
  BY AppendOrder
<1>4. ASSUME NEW S \in SUBSET DOMAIN ledger, S # {} => HasNewest(S)
      PROVE  /\ \E m \in S \cup {n} : \A j \in (S \cup {n}) \ {m} : Before(j, m)'
             /\ S # {} => \E m \in S : \A j \in S \ {m} : Before(j, m)'
  <2>1. CASE S = {}
    BY <2>1
  <2>2. CASE S # {}
    <3>1. PICK m \in S : \A j \in S \ {m} : Before(j, m)
      BY <2>2, <1>4 DEF HasNewest
    <3>2. \A j \in S \ {m} : Before(j, m)'
      BY <3>1, <1>3
    <3>3. \A j \in S : ledger[j].at <= ledger[m].at
      BY <3>1, <1>1 DEF Before
    <3>4. CASE ledger[m].at <= clock
      <4>1. \A j \in S : Before(j, n)'
        <5>1. \A j \in S : ledger[j].at <= clock
          BY <3>3, <3>4, <1>1
        <5> QED
          BY <5>1, <1>3
      <4> QED
        BY <4>1, <3>2
    <3>5. CASE clock < ledger[m].at
      <4>1. Before(n, m)'
        BY <3>5, <1>3
      <4> QED
        BY <4>1, <3>2
    <3> QED
      BY <3>4, <3>5, <1>1
  <2> QED
    BY <2>1, <2>2
<1>5. \E m \in DOMAIN ledger' : \A j \in DOMAIN ledger' \ {m} : Before(j, m)'
  <2>1. DOMAIN ledger # {} => HasNewest(DOMAIN ledger)
    BY <1>1 DEF LedgerInv, NewestExists
  <2> QED
    BY <1>2, <1>4, <2>1
<1>6. ASSUME NEW t \in Nat, NEW k \in Nat, UpTo(t, k)' # {}
      PROVE  \E m \in UpTo(t, k)' : \A j \in UpTo(t, k)' \ {m} : Before(j, m)'
  <2>1. UpTo(t, k) \in SUBSET DOMAIN ledger
    BY DEF UpTo
  <2>2. UpTo(t, k) # {} => HasNewest(UpTo(t, k))
    BY DEF LedgerInv, NewestExists
  <2>3. UpTo(t, k)' = UpTo(t, k) \/ UpTo(t, k)' = UpTo(t, k) \cup {n}
    BY <1>2 DEF UpTo
  <2> QED
    BY <1>4, <1>6, <2>1, <2>2, <2>3
<1> QED
  BY <1>5, <1>6 DEF NewestExists, HasNewest

LEMMA AppendKeepsLinking ==
  ASSUME LedgerInv, NEW run \in Runs \cup {NoRun}, NEW what \in Contents,
         AppendAuditEvent(run, what), NEW n \in Nat, n = Len(ledger) + 1
  PROVE  Linking'
<1>1. /\ Len(ledger) \in Nat /\ DOMAIN ledger = 1..Len(ledger)
  BY EventTypes DEF LedgerInv
<1>2. /\ DOMAIN ledger' = DOMAIN ledger \cup {n}
      /\ \A i \in DOMAIN ledger : ledger'[i] = ledger[i]
      /\ ledger'[n].hash = ChainHash(LatestHash, run, what, clock)
      /\ ledger'[n].prev = LatestHash /\ ledger'[n].run = run
      /\ ledger'[n].what = what /\ ledger'[n].at = clock
  <2>1. /\ DOMAIN ledger' = DOMAIN ledger \cup {n}
        /\ \A i \in DOMAIN ledger : ledger'[i] = ledger[i]
    BY AppendStep
  <2>2. ledger'[n].prev = LatestHash /\ ledger'[n].run = run
    BY AppendStep, Zenon
  <2>3. ledger'[n].what = what
    BY AppendStep, ZenonT(60)
  <2>4. ledger'[n].hash = ChainHash(LatestHash, run, what, clock)
    BY AppendStep, Zenon
  <2>5. ledger'[n].at = clock
    BY AppendStep
  <2> QED
    BY <2>1, <2>2, <2>3, <2>4, <2>5
<1>3. \A i, j \in DOMAIN ledger : Before(i, j)' <=> Before(i, j)
  BY AppendOrder
<1>4. ASSUME NEW j \in DOMAIN ledger
      PROVE  /\ ledger'[j].hash = ChainHash(ledger'[j].prev, ledger'[j].run,
                                            ledger'[j].what, ledger'[j].at)
             /\ j = 1 => ledger'[j].prev = Genesis
             /\ j > 1 => \E k \in DOMAIN ledger' :
                           /\ k < j
                           /\ ledger'[j].prev = ledger'[k].hash
                           /\ \A i \in DOMAIN ledger' : i < j /\ i # k => Before(i, k)'
  <2>1. j > 1 => \E k \in DOMAIN ledger :
                   /\ k < j
                   /\ ledger[j].prev = ledger[k].hash
                   /\ \A i \in DOMAIN ledger : i < j /\ i # k => Before(i, k)
    BY DEF LedgerInv, Linking
  <2>2. \A i \in DOMAIN ledger' : i < j => i \in DOMAIN ledger
    BY <1>1, <1>2
  <2>3. j > 1 => \E k \in DOMAIN ledger' :
                   /\ k < j
                   /\ ledger'[j].prev = ledger'[k].hash
                   /\ \A i \in DOMAIN ledger' : i < j /\ i # k => Before(i, k)'
    BY <1>2, <1>3, <2>1, <2>2
  <2> QED
    BY <1>2, <2>3 DEF LedgerInv, Linking
<1>5. n = 1 => ledger'[n].prev = Genesis
  BY <1>1, <1>2 DEF LatestHash, LedgerInv, TypeOK
<1>6. ASSUME n > 1
      PROVE  \E k \in DOMAIN ledger' :
               /\ k < n
               /\ ledger'[n].prev = ledger'[k].hash
               /\ \A i \in DOMAIN ledger' : i < n /\ i # k => Before(i, k)'
  <2>1. ledger # <<>>
    BY <1>1, <1>6
  <2>2. /\ Newest(DOMAIN ledger) \in DOMAIN ledger
        /\ \A i \in DOMAIN ledger \ {Newest(DOMAIN ledger)} :
             Before(i, Newest(DOMAIN ledger))
    BY <2>1, NewestIs DEF LedgerInv, NewestExists
  <2>3. LatestHash = ledger[Newest(DOMAIN ledger)].hash
    BY <2>1 DEF LatestHash
  <2>4. \A i \in DOMAIN ledger' : i < n => i \in DOMAIN ledger
    BY <1>1, <1>2
  <2>5. Newest(DOMAIN ledger) < n
    BY <1>1, <2>2
  <2> QED
    BY <1>2, <1>3, <2>2, <2>3, <2>4, <2>5
<1> QED
  BY <1>1, <1>2, <1>4, <1>5, <1>6 DEF Linking

LEMMA AppendKeepsDepth ==
  ASSUME LedgerInv, NEW run \in Runs \cup {NoRun}, NEW what \in Contents,
         AppendAuditEvent(run, what), NEW n \in Nat, n = Len(ledger) + 1
  PROVE  Depth'
<1>1. /\ Len(ledger) \in Nat /\ DOMAIN ledger = 1..Len(ledger) /\ clock \in Nat
      /\ \A i \in DOMAIN ledger : ledger[i].at \in Nat
  BY EventTypes DEF LedgerInv, TypeOK
<1>2. /\ DOMAIN ledger' = DOMAIN ledger \cup {n}
      /\ \A i \in DOMAIN ledger : ledger'[i] = ledger[i]
      /\ ledger'[n].at = clock
  BY AppendStep
<1>3. ledger'[n].hash = ChainHash(LatestHash, run, what, clock)
  BY AppendStep, Zenon
<1>4. ASSUME InOrder'
      PROVE  /\ \A j \in DOMAIN ledger : Len(ledger[j].hash) = j
             /\ Len(LatestHash) = Len(ledger)
  <2>1. InOrder
    BY <1>1, <1>2, <1>4 DEF InOrder
  <2>2. \A j \in DOMAIN ledger : Len(ledger[j].hash) = j
    BY <2>1 DEF LedgerInv, Depth
  <2>3. CASE ledger = <<>>
    BY <2>3 DEF LatestHash, Genesis
  <2>4. CASE ledger # <<>>
    <3>1. Len(ledger) \in DOMAIN ledger
      BY <2>4, <1>1
    <3>2. \A j \in DOMAIN ledger \ {Len(ledger)} : Before(j, Len(ledger))
      BY <1>1, <2>1, <3>1 DEF InOrder, Before
    <3>3. Newest(DOMAIN ledger) = Len(ledger)
      BY <3>1, <3>2, NewestUnique DEF LedgerInv
    <3> QED
      BY <2>2, <2>4, <3>1, <3>3 DEF LatestHash
  <2> QED
    BY <2>2, <2>3, <2>4
<1>5. LatestHash \in Hashes
  BY LatestHashType
<1>6. Len(ChainHash(LatestHash, run, what, clock)) = Len(LatestHash) + 1
  BY <1>1, <1>5 DEF ChainHash, Hashes
<1> QED
  BY <1>1, <1>2, <1>3, <1>4, <1>6 DEF Depth

(* A step that leaves the ledger alone. *)
LEMMA ClockStep ==
  ASSUME LedgerInv, UNCHANGED ledger, clock' \in Nat
  PROVE  LedgerInv'
<1>1. \A i, j \in DOMAIN ledger : Before(i, j)' <=> Before(i, j)
  BY DEF Before
<1>2. \A t, k \in Nat : UpTo(t, k)' = UpTo(t, k) /\ UpTo(t, k) \in SUBSET DOMAIN ledger
  BY DEF UpTo
<1>3. NewestExists'
  BY <1>1, <1>2 DEF LedgerInv, NewestExists, HasNewest
<1>4. Linking'
  BY <1>1 DEF LedgerInv, Linking
<1> QED
  BY <1>3, <1>4 DEF LedgerInv, TypeOK, Depth, InOrder

LEMMA AppendKeepsInv ==
  ASSUME LedgerInv, NEW run \in Runs \cup {NoRun}, NEW what \in Contents,
         AppendAuditEvent(run, what)
  PROVE  LedgerInv'
<1> DEFINE n == Len(ledger) + 1
<1>1. n \in Nat
  BY EventTypes DEF LedgerInv
<1>2. TypeOK'
  BY <1>1, AppendStep DEF TypeOK, LedgerInv, AppendAuditEvent
<1>3. NewestExists'
  BY <1>1, AppendKeepsNewest
<1>4. Linking'
  BY <1>1, AppendKeepsLinking
<1>5. Depth'
  BY <1>1, AppendKeepsDepth
<1> QED
  BY <1>2, <1>3, <1>4, <1>5 DEF LedgerInv

LEMMA NextKeepsInv ==
  ASSUME LedgerInv, [Next]_vars
  PROVE  LedgerInv'
<1>1. ASSUME NEW run \in Runs \cup {NoRun}, NEW what \in Contents,
             AppendAuditEvent(run, what)
      PROVE  LedgerInv'
  BY <1>1, AppendKeepsInv
<1>2. CASE AuditTask
  BY <1>1, <1>2 DEF AuditTask
<1>3. ASSUME NEW r \in Runs, AuditRun(r)
      PROVE  LedgerInv'
  BY <1>1, <1>3 DEF AuditRun
<1>4. CASE Tick
  BY <1>4, ClockStep DEF Tick, LedgerInv, TypeOK
<1>5. CASE SetClockBack
  <2>1. clock' \in Nat
    BY <1>5 DEF SetClockBack, LedgerInv, TypeOK
  <2> QED
    BY <1>5, <2>1, ClockStep DEF SetClockBack
<1>6. CASE UNCHANGED vars
  BY <1>6, ClockStep DEF vars, LedgerInv, TypeOK
<1> QED
  BY <1>2, <1>3, <1>4, <1>5, <1>6 DEF Next

LEMMA InitInv ==
  ASSUME Init
  PROVE  LedgerInv
  BY DEF Init, LedgerInv, TypeOK, NewestExists, UpTo, Linking, Depth

(* Types hold, every newest event that is asked for exists, and every      *)
(* event is linked to the newest of those inserted before it.              *)
THEOREM LedgerInvariant == Spec => []LedgerInv
<1>1. Init => LedgerInv
  BY InitInv
<1>2. LedgerInv /\ [Next]_vars => LedgerInv'
  BY NextKeepsInv
<1> QED
  BY <1>1, <1>2, PTL DEF Spec

(* Every reachable ledger is well typed, for any number of runs, events    *)
(* and clock readings.                                                     *)
THEOREM LedgerTypes == Spec => []TypeOK
  BY LedgerInvariant, PTL DEF LedgerInv

-----------------------------------------------------------------------------
(* Order and verification *)

LEMMA HashLength ==
  ASSUME LedgerInv, NEW i \in DOMAIN ledger
  PROVE  Len(ledger[i].hash) = Len(ledger[i].prev) + 1
<1>1. ledger[i].prev \in Hashes
  BY EventTypes DEF LedgerInv
<1>2. ledger[i].hash = Append(ledger[i].prev, <<ledger[i].run, ledger[i].what, ledger[i].at>>)
  BY DEF LedgerInv, Linking, ChainHash
<1> QED
  BY <1>1, <1>2 DEF Hashes

(* In an ordered ledger the predecessor that an event was linked to, and   *)
(* the one that verification expects, are both the event inserted before.  *)
LEMMA OrderedLinks ==
  ASSUME LedgerInv, InOrder, NEW j \in DOMAIN ledger
  PROVE  ledger[j].prev = HashBefore(DOMAIN ledger, j)
<1> DEFINE earlier == {i \in DOMAIN ledger : Before(i, j)}
<1>1. /\ Len(ledger) \in Nat /\ DOMAIN ledger = 1..Len(ledger)
      /\ \A i \in DOMAIN ledger : ledger[i].at \in Nat
  BY EventTypes DEF LedgerInv
<1>2. earlier = {i \in DOMAIN ledger : i < j}
  BY <1>1 DEF InOrder, Before
<1>3. CASE j = 1
  <2>1. earlier = {}
    BY <1>1, <1>2, <1>3
  <2> QED
    BY <1>3, <2>1 DEF HashBefore, LedgerInv, Linking
<1>4. CASE j > 1
  <2>1. PICK k \in DOMAIN ledger :
          /\ k < j
          /\ ledger[j].prev = ledger[k].hash
          /\ \A i \in DOMAIN ledger : i < j /\ i # k => Before(i, k)
    BY <1>4 DEF LedgerInv, Linking
  <2>2. k \in earlier /\ \A i \in earlier \ {k} : Before(i, k)
    BY <1>2, <2>1
  <2>3. Newest(earlier) = k
    BY <2>2, NewestUnique DEF LedgerInv
  <2> QED
    BY <2>1, <2>2, <2>3 DEF HashBefore
<1> QED
  BY <1>1, <1>3, <1>4

LEMMA OrderVerifies ==
  ASSUME LedgerInv, InOrder
  PROVE  VerifyScope
<1>1. Linked(DOMAIN ledger)
  BY OrderedLinks DEF Linked, LedgerInv, Linking
<1>2. ASSUME NEW i \in DOMAIN ledger, NEW j \in DOMAIN ledger, i # j,
             \/ ledger[i].hash = ledger[j].hash
             \/ ledger[i].prev = ledger[j].prev
      PROVE  FALSE
  <2>1. Len(ledger[i].hash) = i /\ Len(ledger[j].hash) = j
    BY DEF LedgerInv, Depth
  <2>2. Len(ledger[i].hash) = Len(ledger[j].hash)
    BY <1>2, HashLength
  <2> QED
    BY <1>2, <2>1, <2>2
<1> QED
  BY <1>1, <1>2 DEF VerifyScope, VerifyAuditChain, Forked

(* An event with an earlier time than one before it names a predecessor    *)
(* that the order of time puts after it; the event that verification       *)
(* expects in its place would have to have the same hash: a fork.          *)
LEMMA VerifyOrders ==
  ASSUME LedgerInv, VerifyScope
  PROVE  InOrder
<1>1. /\ Len(ledger) \in Nat /\ DOMAIN ledger = 1..Len(ledger)
      /\ \A i \in DOMAIN ledger : ledger[i].at \in Nat
  BY EventTypes DEF LedgerInv
<1>2. ASSUME NEW i \in DOMAIN ledger, NEW j \in DOMAIN ledger, i < j,
             ~(ledger[i].at <= ledger[j].at)
      PROVE  FALSE
  <2>1. PICK k \in DOMAIN ledger :
          /\ k < j
          /\ ledger[j].prev = ledger[k].hash
          /\ \A l \in DOMAIN ledger : l < j /\ l # k => Before(l, k)
    BY <1>1, <1>2 DEF LedgerInv, Linking
  <2>2. ledger[j].at < ledger[k].at
    BY <1>1, <1>2, <2>1 DEF Before
  <2>3. ledger[k].hash = HashBefore(DOMAIN ledger, j)
    BY <2>1 DEF VerifyScope, VerifyAuditChain, Linked
  <2>4. ledger[k].hash # Genesis
    <3>1. ledger[k].prev \in Hashes
      BY EventTypes DEF LedgerInv
    <3>2. Len(ledger[k].hash) # 0
      BY <3>1, HashLength DEF Hashes
    <3> QED
      BY <3>2 DEF Genesis
  <2>5. {l \in DOMAIN ledger : Before(l, j)} = UpTo(ledger[j].at, j)
    BY DEF UpTo, Before
  <2>6. UpTo(ledger[j].at, j) # {} /\ ledger[k].hash = ledger[Newest(UpTo(ledger[j].at, j))].hash
    BY <2>3, <2>4, <2>5 DEF HashBefore
  <2>7. HasNewest(UpTo(ledger[j].at, j)) /\ UpTo(ledger[j].at, j) \in SUBSET DOMAIN ledger
    <3>1. ledger[j].at \in Nat /\ j \in Nat
      BY <1>1
    <3>2. HasNewest(UpTo(ledger[j].at, j))
      BY <2>6, <3>1 DEF LedgerInv, NewestExists
    <3> QED
      BY <3>2 DEF UpTo
  <2>8. Newest(UpTo(ledger[j].at, j)) \in UpTo(ledger[j].at, j)
    BY <2>7, NewestIs DEF LedgerInv
  <2>9. Newest(UpTo(ledger[j].at, j)) # k
    <3>1. k \notin UpTo(ledger[j].at, j)
      BY <1>1, <2>2 DEF UpTo
    <3> QED
      BY <3>1, <2>8
  <2> QED
    BY <2>6, <2>7, <2>8, <2>9 DEF VerifyScope, VerifyAuditChain, Forked
<1> QED
  BY <1>2 DEF InOrder

(* The scope verifies exactly when the events were inserted in the order   *)
(* of their times.                                                         *)
THEOREM ExactlyInOrder == Spec => []VerifiesExactlyInOrder
<1>1. LedgerInv => VerifiesExactlyInOrder
  BY OrderVerifies, VerifyOrders DEF VerifiesExactlyInOrder
<1> QED
  BY <1>1, LedgerInvariant, PTL

(* No later append makes a broken scope verify again. *)
THEOREM PermanentFailure == Spec => FailureIsPermanent
<1>1. ASSUME LedgerInv, LedgerInv', [Next]_vars, VerifyScope'
      PROVE  VerifyScope
  <2>1. InOrder'
    <3>1. LedgerInv' /\ VerifyScope' => InOrder'
      BY VerifyOrders, PTL
    <3> QED
      BY <1>1, <3>1
  <2>2. ASSUME NEW run \in Runs \cup {NoRun}, NEW what \in Contents,
               AppendAuditEvent(run, what)
        PROVE  InOrder
    <3> DEFINE n == Len(ledger) + 1
    <3>1. n \in Nat
      BY <1>1, EventTypes DEF LedgerInv
    <3>2. /\ DOMAIN ledger' = DOMAIN ledger \cup {n}
          /\ \A i \in DOMAIN ledger : ledger'[i] = ledger[i]
      BY <1>1, <2>2, <3>1, AppendStep
    <3> QED
      BY <2>1, <3>2 DEF InOrder
  <2>3. ASSUME UNCHANGED ledger
        PROVE  InOrder
    BY <2>1, <2>3 DEF InOrder
  <2>4. InOrder
    BY <1>1, <2>2, <2>3 DEF Next, AuditTask, AuditRun, Tick, SetClockBack, vars
  <2> QED
    BY <1>1, <2>4, OrderVerifies
<1>2. LedgerInv /\ LedgerInv' /\ [Next]_vars => [~VerifyScope => ~VerifyScope']_vars
  BY <1>1
<1> QED
  BY <1>2, LedgerInvariant, PTL DEF Spec, FailureIsPermanent

(* The audit-chain check of a replay verification passes for every run     *)
(* that has events, as long as the events are in the order of their times. *)
THEOREM CheckPasses == Spec => []AuditCheckPasses
<1>1. LedgerInv => AuditCheckPasses
  <2> SUFFICES ASSUME LedgerInv, InOrder, NEW r \in Runs, EventsOf(r) # {}
               PROVE  AuditChainCheck(r) = "passed"
    BY DEF AuditCheckPasses
  <2>1. VerifyScope
    BY OrderVerifies
  <2>2. \A i \in EventsOf(r) :
          ledger[i].hash = ChainHash(ledger[i].prev, ledger[i].run,
                                     ledger[i].what, ledger[i].at)
    BY DEF LedgerInv, Linking, EventsOf
  <2> QED
    BY <2>1, <2>2 DEF AuditChainCheck
<1> QED
  BY <1>1, LedgerInvariant, PTL

=============================================================================
