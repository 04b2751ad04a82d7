-------------------------- MODULE HermesWorkerProofs --------------------------
(***************************************************************************)
(* Proofs about HermesWorker, for any files, plans, gates and bounds: the  *)
(* rows and files keep their shape, what a rollback gives the files of a   *)
(* patch back is what they were before it, read as UTF-8, or the half that *)
(* a broken-off attempt had left, and the patch that an approving sign-off *)
(* is told of is in the tree.                                              *)
(***************************************************************************)
EXTENDS HermesWorker, FiniteSetTheorems, WellFoundedInduction, TLAPS

(* What a rollback would write: what was there before, or the half that an *)
(* attempt which broke off has left.                                       *)
Kept(d) ==
  RowsOf(d) # {} =>
    \A p \in Targets(d) :
      \/ saved[d].files[p] = Decoded(history.before[d][p])
      \/ d \in history.broken /\ EndsWith(saved[d].files[p], d)

(* Only a dispatch has a report. *)
Filed(d) == reports[d] # "none" => Has(d)

(* The patch is said to be applied, by its row or, without one, by its     *)
(* report.                                                                 *)
Claimed(d) == Applied(d) \/ (RowsOf(d) = {} /\ reports[d] = "patch_applied")

InTree(d, p) ==
  \/ tree[p] = Put(dispatches[d].ops[p], d, history.before[d][p])
  \/ d \in history.broken /\ EndsWith(tree[p], d)

(* What was applied is there until something else writes its files.        *)
Intact(d) == Claimed(d) /\ d \notin history.touched => \A p \in Targets(d) : InTree(d, p)

IInv == TypeOK /\ \A d \in Ids : Kept(d) /\ Filed(d) /\ Intact(d)

-----------------------------------------------------------------------------
(* Tables *)

LEMMA Bounds ==
  /\ MaxDispatches \in Nat /\ MaxDispatches >= 1 /\ MaxBatches \in Nat /\ MaxTroubles \in Nat
  /\ Plans \subseteq Operations /\ Ids \subseteq Nat /\ Ids \subseteq 0..Mangled
  /\ Other \in 0..Mangled /\ Raw \in 0..Mangled /\ 0 \in 0..Mangled
  /\ Mangled \in 0..Mangled /\ Raw \notin Ids
  BY BoundsAssumption, SetsAssumption DEF Ids, Other, Raw, Mangled

(* A row at the end of a table. *)
LEMMA Added ==
  ASSUME NEW S, NEW s \in Seq(S), NEW x \in S
  PROVE  /\ Append(s, x) \in Seq(S)
         /\ Len(Append(s, x)) = Len(s) + 1
         /\ Append(s, x)[Len(s) + 1] = x
         /\ \A i \in 1..Len(s) : Append(s, x)[i] = s[i]
  OBVIOUS

(* Every row of a table is written anew. *)
LEMMA Rewritten ==
  ASSUME NEW S, NEW s \in Seq(S), NEW t \in [1..Len(s) -> S]
  PROVE  t \in Seq(S) /\ Len(t) = Len(s)
  OBVIOUS

LEMMA Shapes ==
  ASSUME TypeOK
  PROVE  /\ Len(dispatches) \in Nat /\ Len(rows) \in Nat
         /\ Len(batches) \in Nat /\ Len(results) \in Nat
         /\ \A d \in 1..Len(dispatches) : d \in Ids /\ dispatches[d] \in Dispatches
         /\ \A i \in 1..Len(rows) : rows[i] \in Rows
         /\ \A b \in 1..Len(batches) : batches[b] \in Batches
         /\ history.before \in [Ids -> Trees] /\ history.broken \subseteq Ids
         /\ history.touched \subseteq Ids
  BY Bounds DEF TypeOK, Ids, Histories

-----------------------------------------------------------------------------
(* Trees *)

(* Reading a file as UTF-8 keeps its shape and what a patch has added.     *)
LEMMA DecodedType ==
  ASSUME NEW c \in Contents
  PROVE  /\ Decoded(c) \in Contents
         /\ \A d \in Ids : EndsWith(c, d) => EndsWith(Decoded(c), d)
<1>1. Decoded(c) \in [1..Len(c) -> 0..Mangled] /\ Len(c) \in Nat
  BY Bounds DEF Decoded, Contents
<1>2. Decoded(c) \in Contents /\ Len(Decoded(c)) = Len(c)
  BY <1>1, Rewritten DEF Contents
<1>3. ASSUME NEW d \in Ids, EndsWith(c, d) PROVE EndsWith(Decoded(c), d)
  <2>1. Len(c) \in 1..Len(c) /\ c[Len(c)] = d /\ d # Raw
    BY <1>3, Bounds DEF EndsWith, Contents
  <2>2. Decoded(c)[Len(c)] = d
    BY <2>1 DEF Decoded
  <2>3. Decoded(c) # <<>>
    BY <1>2, <2>1
  <2> QED
    BY <1>2, <2>2, <2>3 DEF EndsWith
<1> QED
  BY <1>2, <1>3

(* A file written by a patch. *)
LEMMA PutType ==
  ASSUME NEW c \in Contents, NEW d \in Ids, NEW op
  PROVE  Put(op, d, c) \in Contents /\ EndsWith(Put(op, d, c), d)
<1> DEFINE x == Decoded(c)
<1>1. x \in Seq(0..Mangled) /\ d \in 0..Mangled
  BY DecodedType, Bounds DEF Contents
<1> HIDE DEF x
<1>2. Append(x, d) \in Contents /\ EndsWith(Append(x, d), d)
  BY <1>1 DEF Contents, EndsWith
<1>3. <<d>> \in Contents /\ EndsWith(<<d>>, d)
  BY <1>1 DEF Contents, EndsWith
<1> QED
  BY <1>2, <1>3 DEF Put, x

LEMMA TreeType ==
  ASSUME TypeOK
  PROVE  \A p \in Paths : tree[p] \in Contents
  BY DEF TypeOK, Trees

LEMMA PatchedType ==
  ASSUME TypeOK, NEW d \in Ids, NEW some
  PROVE  Patched(d, some) \in Trees
  BY TreeType, PutType DEF Patched, Trees

LEMMA SnapshotType ==
  ASSUME TypeOK, NEW d
  PROVE  Snapshot(d) \in Snapshots /\ Snapshot(d).files = [p \in Paths |-> Decoded(tree[p])]
  BY TreeType, DecodedType DEF Snapshot, Snapshots, Trees

LEMMA RestoredType ==
  ASSUME TypeOK, NEW d \in Ids, NEW some
  PROVE  Restored(d, some) \in Trees
  BY DEF Restored, TypeOK, Trees, Snapshots

LEMMA OverwrittenType ==
  ASSUME NEW d \in Ids
  PROVE  Overwritten(d) \subseteq Ids
  BY DEF Overwritten

LEMMA AttemptedType ==
  ASSUME TypeOK, NEW d \in Ids
  PROVE  /\ Attempted(d) \in Histories
         /\ Attempted(d).broken = history.broken
         /\ \A e \in Ids \ {d} : Attempted(d).before[e] = history.before[e]
         /\ \A p \in Paths :
              IF d \in history.broken /\ EndsWith(tree[p], d)
              THEN Attempted(d).before[d][p] = history.before[d][p]
              ELSE Attempted(d).before[d][p] = tree[p]
<1> DEFINE b == [p \in Paths |-> IF d \in history.broken /\ EndsWith(tree[p], d)
                                 THEN history.before[d][p] ELSE tree[p]]
<1>1. Attempted(d) = [before |-> [history.before EXCEPT ![d] = b],
                      broken |-> history.broken, touched |-> WroteAll(d)]
  BY Shapes DEF Attempted
<1>2. b \in Trees
  <2>1. \A p \in Paths : history.before[d][p] \in Contents
    BY Shapes DEF Trees
  <2> QED
    BY <2>1, TreeType DEF Trees
<1>3. \A p \in Paths : IF d \in history.broken /\ EndsWith(tree[p], d)
                        THEN b[p] = history.before[d][p] ELSE b[p] = tree[p]
  OBVIOUS
<1> HIDE DEF b
<1>4. Attempted(d).before[d] = b
  BY <1>1, Shapes
<1> QED
  BY <1>1, <1>2, <1>3, <1>4, Shapes, OverwrittenType DEF WroteAll, Histories

(* What an attempt that wrote all its files leaves of the patch.           *)
LEMMA AttemptIsInTree ==
  ASSUME TypeOK, NEW d \in Ids, NEW p \in Targets(d)
  PROVE  \/ Patched(d, Targets(d))[p] = Put(dispatches[d].ops[p], d, Attempted(d).before[d][p])
         \/ d \in history.broken /\ EndsWith(Patched(d, Targets(d))[p], d)
<1>1. p \in Paths /\ Patched(d, Targets(d))[p] = Put(dispatches[d].ops[p], d, tree[p])
  BY DEF Patched, Targets
<1> QED
  BY <1>1, AttemptedType, TreeType, PutType

(* What a patch did not write is as it was. *)
LEMMA ElsewherePatched ==
  ASSUME TypeOK, NEW d \in Ids, NEW some \in SUBSET Targets(d),
         NEW e \in Ids, e # d, Has(e), e \notin Overwritten(d), NEW p \in Targets(e)
  PROVE  Patched(d, some)[p] = tree[p] /\ Restored(d, some)[p] = tree[p]
<1>1. p \in Paths /\ p \notin some
  BY DEF Targets, Overwritten
<1> QED
  BY <1>1 DEF Patched, Restored

LEMMA AppliedHas ==
  ASSUME TypeOK, NEW d \in Ids, RowsOf(d) # {}
  PROVE  Has(d)
  BY DEF TypeOK, RowsOf

LEMMA ClaimedHas ==
  ASSUME IInv, NEW d \in Ids, Claimed(d)
  PROVE  Has(d)
<1>1. Applied(d) => Has(d)
  BY AppliedHas DEF Applied, IInv
<1> QED
  BY <1>1 DEF Claimed, IInv, Filed

-----------------------------------------------------------------------------
(* Actions *)

(* Nothing of the patches and the files changes. *)
LEMMA SamePatches ==
  ASSUME IInv, TypeOK', UNCHANGED <<rows, reports, saved, tree, history>>,
         \A d \in Ids : Has(d) => /\ Has(d)' /\ Targets(d)' = Targets(d)
                                  /\ \A p \in Targets(d) : dispatches'[d].ops[p] = dispatches[d].ops[p]
  PROVE  IInv'
<1>1. ASSUME NEW d \in Ids PROVE Kept(d)' /\ Filed(d)'
  <2>1. RowsOf(d)' = RowsOf(d)
    BY DEF RowsOf
  <2>2. RowsOf(d) # {} => Has(d)
    BY AppliedHas DEF IInv
  <2>3. Kept(d) /\ Filed(d)
    BY DEF IInv
  <2> QED
    BY <2>1, <2>2, <2>3 DEF Kept, Filed
<1>2. ASSUME NEW d \in Ids PROVE Intact(d)'
  <2>1. Claimed(d)' <=> Claimed(d)
    BY DEF Claimed, Applied, RowsOf
  <2>2. Claimed(d) => Has(d)
    BY ClaimedHas
  <2>3. Intact(d)
    BY DEF IInv
  <2> QED
    BY <2>1, <2>2, <2>3 DEF Intact, InTree
<1> QED
  BY <1>1, <1>2 DEF IInv

LEMMA InitHolds == Init => IInv
<1> SUFFICES ASSUME Init PROVE IInv
  OBVIOUS
<1> USE DEF Init
<1>1. tree \in Trees
  <2>1. <<>> \in Contents /\ <<0>> \in Contents /\ <<Raw>> \in Contents
    BY Bounds DEF Contents
  <2> QED
    BY <2>1 DEF Trees
<1>2. /\ dispatches \in Seq(Dispatches) /\ rows \in Seq(Rows)
      /\ batches \in Seq(Batches) /\ results \in Seq(Results)
      /\ Len(dispatches) = 0 /\ Len(rows) = 0 /\ Len(batches) = 0 /\ Len(results) = 0
  OBVIOUS
<1>3. saved \in [Ids -> Snapshots] /\ history \in Histories
  BY <1>1 DEF Snapshots, Histories
<1>4. TypeOK
  <2>1. open \in BOOLEAN /\ reports \in [Ids -> Reports]
    BY DEF Reports
  <2>2. troubles \in 0..MaxTroubles /\ Len(dispatches) <= MaxDispatches
        /\ Len(batches) <= MaxBatches
    BY <1>2, Bounds
  <2>3. 1..Len(rows) = {} /\ 1..Len(results) = {}
    BY <1>2
  <2> QED
    BY <1>1, <1>2, <1>3, <2>1, <2>2, <2>3 DEF TypeOK
<1>5. \A d \in Ids : RowsOf(d) = {} /\ reports[d] = "none"
  BY DEF RowsOf
<1> QED
  BY <1>4, <1>5 DEF IInv, Kept, Filed, Intact, Claimed, Applied

LEMMA PrepareKeeps ==
  ASSUME IInv, NEW ops \in Plans, Prepare(ops)
  PROVE  IInv'
<1> DEFINE x == [status |-> "prepared", ops |-> ops]
<1>1. /\ dispatches' \in Seq(Dispatches) /\ Len(dispatches') = Len(dispatches) + 1
      /\ \A d \in 1..Len(dispatches) : dispatches'[d] = dispatches[d]
  <2>1. x \in Dispatches
    BY DEF Dispatches
  <2> QED
    BY <2>1, Added DEF IInv, TypeOK, Prepare
<1>2. Len(dispatches') <= MaxDispatches
  BY <1>1, Bounds, Shapes DEF IInv, Prepare
<1>3. \A d \in Ids : Has(d) => Has(d)'
  BY <1>1, Shapes DEF Has, IInv
<1>4. \A i \in 1..Len(rows) : Has(rows[i].dispatch)'
  BY <1>3, Shapes DEF IInv, TypeOK, Rows, Prepare
<1>5. TypeOK'
  BY <1>1, <1>2, <1>4 DEF IInv, TypeOK, Prepare
<1>6. \A d \in Ids : Has(d) => /\ Has(d)' /\ Targets(d)' = Targets(d)
                               /\ \A p \in Targets(d) : dispatches'[d].ops[p] = dispatches[d].ops[p]
  BY <1>1, <1>3 DEF Has, Targets
<1> QED
  BY <1>5, <1>6, SamePatches DEF Prepare

LEMMA ExportKeeps ==
  ASSUME IInv, NEW d \in Ids, Export(d)
  PROVE  IInv'
<1> DEFINE x == [dispatches[d] EXCEPT !.status = "dispatched"]
<1>1. d \in 1..Len(dispatches) /\ dispatches' = [dispatches EXCEPT ![d] = x]
  BY DEF Export, Has, IInv, TypeOK
<1>2. x \in Dispatches /\ x.ops = dispatches[d].ops
  BY <1>1, Shapes DEF IInv, Dispatches
<1> HIDE DEF x
<1>3. /\ dispatches' \in Seq(Dispatches) /\ Len(dispatches') = Len(dispatches)
      /\ \A e \in 1..Len(dispatches) : dispatches'[e].ops = dispatches[e].ops
  BY <1>1, <1>2 DEF IInv, TypeOK
<1>4. TypeOK'
  BY <1>3 DEF IInv, TypeOK, Export, Has
<1>5. \A e \in Ids : Has(e) => /\ Has(e)' /\ Targets(e)' = Targets(e)
                               /\ \A p \in Targets(e) : dispatches'[e].ops[p] = dispatches[e].ops[p]
  BY <1>3 DEF Has, Targets
<1> QED
  BY <1>4, <1>5, SamePatches DEF Export

LEMMA ReportKeeps ==
  ASSUME IInv, NEW d \in Ids, NEW status \in {"failed", "patch_proposed"}, Report(d, status)
  PROVE  IInv'
<1>1. TypeOK'
  BY DEF IInv, TypeOK, Report, Reports, Has
<1>2. ASSUME NEW e \in Ids PROVE Kept(e)' /\ Filed(e)' /\ Intact(e)'
  <2>1. Kept(e) /\ Filed(e) /\ Intact(e)
    BY DEF IInv
  <2>2. reports'[e] = "patch_applied" => reports[e] = "patch_applied"
    BY DEF Report, IInv, TypeOK
  <2>3. reports'[e] # "none" => reports[e] # "none" \/ Has(e)
    BY DEF Report, IInv, TypeOK
  <2>4. Targets(e)' = Targets(e) /\ RowsOf(e)' = RowsOf(e) /\ (Applied(e)' <=> Applied(e))
    BY DEF Report, Targets, RowsOf, Applied
  <2>5. Kept(e)' /\ Filed(e)'
    BY <2>1, <2>3, <2>4 DEF Kept, Filed, Report, Has
  <2> QED
    BY <2>1, <2>2, <2>4, <2>5 DEF Intact, InTree, Claimed, Report
<1> QED
  BY <1>1, <1>2 DEF IInv

(* The others, while one patch or its rollback writes the files it names.  *)
LEMMA OthersIntact ==
  ASSUME IInv, NEW d \in Ids, NEW e \in Ids, e # d, NEW some \in SUBSET Targets(d),
         tree' = Patched(d, some) \/ tree' = Restored(d, some),
         dispatches' = dispatches, Claimed(e)' => Claimed(e),
         history'.before[e] = history.before[e],
         e \in history.broken => e \in history'.broken,
         Overwritten(d) \subseteq history'.touched,
         e \in history.touched => e \in history'.touched
  PROVE  Intact(e)'
<1>1. SUFFICES ASSUME Claimed(e)', e \notin history'.touched, NEW p \in Targets(e)'
               PROVE  InTree(e, p)'
  BY DEF Intact
<1>2. Has(e)
  BY <1>1, ClaimedHas
<1>3. p \in Targets(e)
  BY <1>1 DEF Targets
<1>4. tree'[p] = tree[p]
  BY <1>1, <1>2, <1>3, ElsewherePatched DEF IInv
<1>5. Intact(e)
  BY DEF IInv
<1> QED
  BY <1>1, <1>3, <1>4, <1>5 DEF Intact, InTree

(* A row of an application at the end of the table. *)
LEMMA RowAdded ==
  ASSUME TypeOK, NEW d \in Ids, rows' = Append(rows, [dispatch |-> d, status |-> "applied"])
  PROVE  /\ rows' \in Seq(Rows) /\ Len(rows') = Len(rows) + 1
         /\ rows'[Len(rows) + 1].dispatch = d
         /\ \A i \in 1..Len(rows) : rows'[i] = rows[i]
         /\ RowsOf(d)' # {}
         /\ \A e \in Ids \ {d} : RowsOf(e)' = RowsOf(e) /\ (Applied(e)' <=> Applied(e))
<1> DEFINE x == [dispatch |-> d, status |-> "applied"]
<1>1. /\ rows' \in Seq(Rows) /\ Len(rows') = Len(rows) + 1 /\ Len(rows) \in Nat
      /\ rows'[Len(rows) + 1] = x /\ \A i \in 1..Len(rows) : rows'[i] = rows[i]
  <2>1. x \in Rows
    BY DEF Rows
  <2> QED
    BY <2>1, Added, Shapes DEF TypeOK
<1>2. \A i : i \in 1..Len(rows') <=> i \in 1..Len(rows) \/ i = Len(rows) + 1
  BY <1>1
<1>3. Len(rows) + 1 \in RowsOf(d)'
  BY <1>1, <1>2 DEF RowsOf
<1>4. \A e \in Ids \ {d} : RowsOf(e)' = RowsOf(e)
  BY <1>1, <1>2 DEF RowsOf
<1>5. \A e \in Ids \ {d} : Applied(e)' <=> Applied(e)
  <2>1. \A e \in Ids \ {d} : \A i \in RowsOf(e) : rows'[i] = rows[i]
    BY <1>1 DEF RowsOf
  <2> QED
    BY <1>4, <2>1 DEF Applied
<1> QED
  BY <1>1, <1>3, <1>4, <1>5

LEMMA ApplyPatchKeeps ==
  ASSUME IInv, NEW d \in Ids, ApplyPatch(d)
  PROVE  IInv'
<1> USE DEF IInv
<1>1. Has(d) /\ rows' = Append(rows, [dispatch |-> d, status |-> "applied"])
      /\ dispatches' = dispatches
  BY DEF ApplyPatch, Ready
<1>2. TypeOK'
  <2>1. tree' \in Trees
    BY PatchedType DEF ApplyPatch
  <2>2. saved' \in [Ids -> Snapshots]
    BY SnapshotType DEF ApplyPatch, TypeOK
  <2>3. reports' \in [Ids -> Reports]
    BY DEF ApplyPatch, TypeOK, Reports
  <2>4. rows' \in Seq(Rows)
    BY <1>1, RowAdded
  <2>5. (\A i \in 1..Len(rows) : Has(rows[i].dispatch))'
    <3>1. Len(rows') = Len(rows) + 1 /\ Len(rows) \in Nat
      BY <1>1, RowAdded, Shapes
    <3>2. \A i \in 1..Len(rows') : i \in 1..Len(rows) \/ i = Len(rows) + 1
      BY <3>1
    <3>3. \A i \in 1..Len(rows) : Has(rows'[i].dispatch)
      BY <1>1, RowAdded DEF TypeOK
    <3>4. Has(rows'[Len(rows) + 1].dispatch)
      BY <1>1, RowAdded
    <3> QED
      BY <1>1, <3>2, <3>3, <3>4 DEF Has
  <2>6. history' \in Histories
    BY AttemptedType DEF ApplyPatch
  <2>7. \A i \in 1..Len(results') : results'[i].batch \in 1..Len(batches')
    BY DEF ApplyPatch, TypeOK
  <2> QED
    BY <2>1, <2>2, <2>3, <2>4, <2>5, <2>6, <2>7 DEF TypeOK, ApplyPatch
<1>3. Targets(d)' = Targets(d) /\ history'.broken = history.broken
      /\ history'.before = Attempted(d).before /\ Targets(d) \subseteq Paths
  BY <1>1, AttemptedType DEF ApplyPatch, Targets
<1>4. Kept(d)' /\ Filed(d)'
  <2>1. ASSUME NEW p \in Targets(d)
        PROVE  \/ saved'[d].files[p] = Decoded(history'.before[d][p])
               \/ d \in history'.broken /\ EndsWith(saved'[d].files[p], d)
    <3>1. saved'[d].files[p] = Decoded(tree[p])
      BY <1>3, SnapshotType DEF ApplyPatch, TypeOK
    <3> QED
      BY <1>3, <3>1, AttemptedType, TreeType, DecodedType
  <2> QED
    BY <1>1, <1>3, <2>1 DEF Kept, Filed, Has
<1>5. Intact(d)'
  <2>1. ASSUME NEW p \in Targets(d) PROVE InTree(d, p)'
    BY <1>1, <1>3, AttemptIsInTree DEF ApplyPatch, InTree
  <2> QED
    BY <1>3, <2>1 DEF Intact
<1>6. ASSUME NEW e \in Ids, e # d PROVE Kept(e)' /\ Filed(e)' /\ Intact(e)'
  <2>1. RowsOf(e)' = RowsOf(e) /\ (Applied(e)' <=> Applied(e))
    BY <1>1, <1>6, RowAdded
  <2>2. history'.before[e] = history.before[e] /\ history'.broken = history.broken
    BY <1>6, AttemptedType DEF ApplyPatch
  <2>3. saved'[e] = saved[e] /\ reports'[e] = reports[e]
    BY <1>6 DEF ApplyPatch, TypeOK
  <2>4. Kept(e)' /\ Filed(e)'
    BY <1>1, <2>1, <2>2, <2>3 DEF Kept, Filed, Has, Targets
  <2>5. Overwritten(d) \subseteq history'.touched
        /\ (e \in history.touched => e \in history'.touched)
    BY <1>6 DEF ApplyPatch, Attempted, WroteAll
  <2>6. tree' = Patched(d, Targets(d)) /\ (Claimed(e)' => Claimed(e))
    BY <2>1, <2>3 DEF ApplyPatch, Claimed
  <2>7. Intact(e)'
    BY <1>1, <1>6, <2>2, <2>5, <2>6, OthersIntact
  <2> QED
    BY <2>4, <2>7
<1> QED
  BY <1>2, <1>4, <1>5, <1>6

LEMMA ApplyBreaksOffKeeps ==
  ASSUME IInv, NEW d \in Ids, NEW some, NEW at, ApplyBreaksOff(d, some, at)
  PROVE  IInv'
<1> USE DEF IInv
<1>1. /\ Has(d) /\ rows' = rows /\ dispatches' = dispatches /\ some \in SUBSET Targets(d)
      /\ tree' = Patched(d, some) /\ RowsOf(d) = {} /\ reports[d] = "patch_proposed"
  BY DEF ApplyBreaksOff, Ready
<1> DEFINE a == Attempted(d)
<1>2. /\ history' = [a EXCEPT !.broken = a.broken \cup {d}]
      /\ a \in Histories /\ a.broken = history.broken
      /\ \A e \in Ids \ {d} : a.before[e] = history.before[e]
      /\ a.touched = WroteAll(d) /\ a.before = Attempted(d).before
  BY AttemptedType DEF ApplyBreaksOff, Attempted
<1> HIDE DEF a
<1>3. /\ history' \in Histories /\ history'.broken = history.broken \cup {d}
      /\ \A e \in Ids \ {d} : history'.before[e] = history.before[e]
      /\ history'.touched = WroteAll(d) /\ history'.before = Attempted(d).before
  BY <1>2 DEF Histories
<1>4. TypeOK'
  <2>1. tree' \in Trees
    BY <1>1, PatchedType
  <2>2. saved' \in [Ids -> Snapshots]
    BY SnapshotType DEF ApplyBreaksOff, TypeOK
  <2>3. reports' \in [Ids -> Reports]
    BY DEF ApplyBreaksOff, TypeOK, Reports
  <2>4. troubles' \in 0..MaxTroubles
    BY Bounds DEF ApplyBreaksOff, Trouble, TypeOK
  <2> QED
    BY <1>1, <1>3, <2>1, <2>2, <2>3, <2>4 DEF TypeOK, ApplyBreaksOff, Has
<1>5. \A e \in Ids : RowsOf(e)' = RowsOf(e) /\ (Applied(e)' <=> Applied(e))
  BY <1>1 DEF RowsOf, Applied
<1>6. Kept(d)' /\ Filed(d)'
  BY <1>1, <1>5 DEF Kept, Filed, Has
<1>7. Intact(d)'
  <2>1. CASE at = "row"
    <3>1. some = Targets(d)
      BY <2>1 DEF ApplyBreaksOff
    <3>2. ASSUME NEW p \in Targets(d) PROVE InTree(d, p)'
      BY <1>1, <1>3, <3>1, AttemptIsInTree DEF InTree
    <3> QED
      BY <1>1, <3>2 DEF Intact, Targets
  <2>2. CASE at # "row"
    BY <1>1, <1>5, <2>2 DEF Intact, Claimed, Applied, ApplyBreaksOff
  <2> QED
    BY <2>1, <2>2
<1>8. ASSUME NEW e \in Ids, e # d PROVE Kept(e)' /\ Filed(e)' /\ Intact(e)'
  <2>1. saved'[e] = saved[e] /\ reports'[e] = reports[e]
    BY <1>8 DEF ApplyBreaksOff, TypeOK
  <2>2. history'.before[e] = history.before[e] /\ (e \in history'.broken <=> e \in history.broken)
    BY <1>3, <1>8
  <2>3. Kept(e)' /\ Filed(e)'
    BY <1>1, <1>5, <2>1, <2>2 DEF Kept, Filed, Has, Targets
  <2>4. Overwritten(d) \subseteq history'.touched
        /\ (e \in history.touched => e \in history'.touched)
    BY <1>3, <1>8 DEF WroteAll
  <2>5. Claimed(e)' => Claimed(e)
    BY <1>5, <2>1 DEF Claimed
  <2>6. Intact(e)'
    BY <1>1, <1>8, <2>2, <2>4, <2>5, OthersIntact
  <2> QED
    BY <2>3, <2>6
<1> QED
  BY <1>4, <1>6, <1>7, <1>8

(* Rolled back, the rows of a patch are the ones it had. *)
LEMMA RowsRewritten ==
  ASSUME TypeOK, NEW d \in Ids,
         rows' = [i \in 1..Len(rows) |->
                    IF rows[i].dispatch = d THEN [rows[i] EXCEPT !.status = "rolled_back"]
                                            ELSE rows[i]]
  PROVE  /\ rows' \in Seq(Rows) /\ Len(rows') = Len(rows)
         /\ \A i \in 1..Len(rows) : rows'[i].dispatch = rows[i].dispatch
         /\ \A e \in Ids : RowsOf(e)' = RowsOf(e)
         /\ \A e \in Ids \ {d} : Applied(e)' <=> Applied(e)
         /\ ~Applied(d)'
<1>1. rows' \in [1..Len(rows) -> Rows]
  BY Shapes DEF Rows
<1>2. rows' \in Seq(Rows) /\ Len(rows') = Len(rows)
  BY <1>1, Rewritten DEF TypeOK
<1>3. \A i \in 1..Len(rows) :
        /\ rows'[i].dispatch = rows[i].dispatch
        /\ rows[i].dispatch = d => rows'[i].status = "rolled_back"
        /\ rows[i].dispatch # d => rows'[i] = rows[i]
  BY Shapes DEF Rows
<1>4. \A e \in Ids : RowsOf(e)' = RowsOf(e)
  BY <1>2, <1>3 DEF RowsOf
<1>5. \A e \in Ids \ {d} : Applied(e)' <=> Applied(e)
  <2>1. \A e \in Ids \ {d} : \A i \in RowsOf(e) : rows'[i] = rows[i]
    BY <1>3 DEF RowsOf
  <2> QED
    BY <1>4, <2>1 DEF Applied
<1>6. ~Applied(d)'
  <2>1. \A i \in RowsOf(d) : rows'[i].status = "rolled_back"
    BY <1>3 DEF RowsOf
  <2> QED
    BY <1>4, <2>1 DEF Applied
<1> QED
  BY <1>2, <1>3, <1>4, <1>5, <1>6

LEMMA RollbackKeeps ==
  ASSUME IInv, NEW d \in Ids, Rollback(d)
  PROVE  IInv'
<1> USE DEF IInv
<1>1. /\ Has(d) /\ Applied(d) /\ dispatches' = dispatches /\ saved' = saved
      /\ reports' = reports /\ tree' = Restored(d, Targets(d))
      /\ history' = [history EXCEPT !.touched = WroteAll(d)]
  BY DEF Rollback
<1>2. /\ history' \in Histories /\ history'.before = history.before
      /\ history'.broken = history.broken /\ history'.touched = WroteAll(d)
  BY <1>1, OverwrittenType DEF TypeOK, Histories, WroteAll
<1>3. /\ rows' \in Seq(Rows) /\ Len(rows') = Len(rows)
      /\ \A i \in 1..Len(rows) : rows'[i].dispatch = rows[i].dispatch
      /\ \A e \in Ids : RowsOf(e)' = RowsOf(e)
      /\ \A e \in Ids \ {d} : Applied(e)' <=> Applied(e)
      /\ ~Applied(d)'
  BY RowsRewritten DEF Rollback
<1>4. TypeOK'
  <2>1. tree' \in Trees
    BY <1>1, RestoredType
  <2> QED
    BY <1>1, <1>2, <1>3, <2>1 DEF TypeOK, Rollback, Has
<1>5. ASSUME NEW e \in Ids PROVE Kept(e)' /\ Filed(e)'
  BY <1>1, <1>2, <1>3 DEF Kept, Filed, Has, Targets
<1>6. ASSUME NEW e \in Ids, e # d PROVE Intact(e)'
  <2>1. Overwritten(d) \subseteq history'.touched
        /\ (e \in history.touched => e \in history'.touched)
    BY <1>2, <1>6 DEF WroteAll
  <2>2. Targets(d) \in SUBSET Targets(d)
    OBVIOUS
  <2>3. Claimed(e)' => Claimed(e)
    BY <1>1, <1>3, <1>6 DEF Claimed
  <2> QED
    BY <1>1, <1>2, <1>3, <1>6, <2>1, <2>2, <2>3, OthersIntact
<1>7. Intact(d)'
  <2>1. RowsOf(d) # {}
    BY <1>1 DEF Applied
  <2> QED
    BY <1>3, <2>1 DEF Intact, Claimed
<1> QED
  BY <1>4, <1>5, <1>6, <1>7

LEMMA RollbackBreaksOffKeeps ==
  ASSUME IInv, NEW d \in Ids, NEW some, RollbackBreaksOff(d, some)
  PROVE  IInv'
<1> USE DEF IInv
<1>1. /\ Has(d) /\ dispatches' = dispatches /\ saved' = saved /\ rows' = rows
      /\ reports' = reports /\ tree' = Restored(d, some) /\ some \in SUBSET Targets(d)
  BY DEF RollbackBreaksOff
<1>2. /\ history' \in Histories /\ history'.before = history.before
      /\ history'.broken = history.broken
      /\ history'.touched = history.touched \cup Overwritten(d) \cup {d}
  BY OverwrittenType DEF TypeOK, Histories, RollbackBreaksOff
<1>3. TypeOK'
  <2>1. tree' \in Trees
    BY <1>1, RestoredType
  <2>2. troubles' \in 0..MaxTroubles
    BY Bounds DEF RollbackBreaksOff, Trouble, TypeOK
  <2> QED
    BY <1>1, <1>2, <2>1, <2>2 DEF TypeOK, RollbackBreaksOff, Has
<1>4. \A e \in Ids : RowsOf(e)' = RowsOf(e) /\ (Applied(e)' <=> Applied(e))
  BY <1>1 DEF RowsOf, Applied
<1>5. ASSUME NEW e \in Ids PROVE Kept(e)' /\ Filed(e)'
  BY <1>1, <1>2, <1>4 DEF Kept, Filed, Has, Targets
<1>6. ASSUME NEW e \in Ids, e # d PROVE Intact(e)'
  <2>1. Claimed(e)' => Claimed(e)
    BY <1>1, <1>4 DEF Claimed
  <2> QED
    BY <1>1, <1>2, <1>6, <2>1, OthersIntact
<1>7. Intact(d)'
  BY <1>2 DEF Intact
<1> QED
  BY <1>3, <1>5, <1>6, <1>7

LEMMA EditKeeps ==
  ASSUME IInv, NEW p \in Paths, Edit(p)
  PROVE  IInv'
<1> USE DEF IInv
<1>1. /\ dispatches' = dispatches /\ saved' = saved /\ rows' = rows /\ reports' = reports
      /\ tree' = [tree EXCEPT ![p] = <<Other>>]
  BY DEF Edit
<1> DEFINE hit == {d \in Ids : Has(d) /\ p \in Targets(d)}
<1>2. /\ history' \in Histories /\ history'.before = history.before
      /\ history'.broken = history.broken
      /\ history'.touched = history.touched \cup hit
  BY DEF TypeOK, Histories, Edit
<1>3. TypeOK'
  <2>1. tree' \in Trees
    <3>1. <<Other>> \in Contents
      BY Bounds DEF Contents
    <3> QED
      BY <1>1, <3>1 DEF TypeOK, Trees
  <2>2. troubles' \in 0..MaxTroubles
    BY Bounds DEF Edit, Trouble, TypeOK
  <2> QED
    BY <1>1, <1>2, <2>1, <2>2 DEF TypeOK, Edit, Has
<1>4. ASSUME NEW e \in Ids PROVE Kept(e)' /\ Filed(e)'
  BY <1>1, <1>2 DEF Kept, Filed, RowsOf, Has, Targets
<1>5. ASSUME NEW e \in Ids, Claimed(e)', e \notin history'.touched, NEW q \in Targets(e)
      PROVE  InTree(e, q)'
  <2>1. Claimed(e) /\ e \notin history.touched
    BY <1>1, <1>2, <1>5 DEF Claimed, Applied, RowsOf
  <2>2. Has(e)
    BY <2>1, ClaimedHas
  <2>3. q # p
    BY <1>2, <1>5, <2>2
  <2>4. tree'[q] = tree[q]
    BY <1>1, <2>3 DEF TypeOK, Trees, Targets
  <2>5. Intact(e)
    OBVIOUS
  <2> QED
    BY <1>1, <1>2, <1>5, <2>1, <2>4, <2>5 DEF Intact, InTree
<1>6. ASSUME NEW e \in Ids PROVE Intact(e)'
  <2>1. Targets(e)' = Targets(e)
    BY <1>1 DEF Targets
  <2> QED
    BY <1>5, <2>1 DEF Intact
<1> QED
  BY <1>3, <1>4, <1>6

(* The requests that run gates leave the patches alone. *)
LEMMA SameDispatches ==
  ASSUME IInv, TypeOK', UNCHANGED <<dispatches, rows, reports, saved, tree, history>>
  PROVE  IInv'
<1>1. \A d \in Ids : Has(d) => /\ Has(d)' /\ Targets(d)' = Targets(d)
                               /\ \A p \in Targets(d) : dispatches'[d].ops[p] = dispatches[d].ops[p]
  BY DEF Targets, Has
<1> QED
  BY <1>1, SamePatches

LEMMA GatedRowIsRow ==
  ASSUME TypeOK, rows # <<>>
  PROVE  GatedRow \in 1..Len(rows)
<1>1. Len(rows) \in 1..Len(rows)
  BY DEF TypeOK
<1>2. RowsOf(Len(dispatches)) \subseteq 1..Len(rows)
  BY DEF RowsOf
<1> QED
  BY <1>1, <1>2 DEF GatedRow

LEMMA StartGatesKeeps ==
  ASSUME IInv, NEW some \in SUBSET Gates, StartGates(some)
  PROVE  IInv'
<1> USE DEF IInv
<1> DEFINE x == [dispatch |-> rows[GatedRow].dispatch, todo |-> some, dead |-> FALSE]
<1>1. x \in Batches
  <2>1. rows[GatedRow] \in Rows
    BY GatedRowIsRow, Shapes DEF StartGates, GatesAllowed
  <2> QED
    BY <2>1 DEF Batches, Rows
<1>2. batches' = Append(batches, x) /\ Len(batches) < MaxBatches
  BY DEF StartGates
<1> HIDE DEF x
<1>3. batches' \in Seq(Batches) /\ Len(batches') = Len(batches) + 1
  BY <1>1, <1>2, Added DEF TypeOK
<1>4. Len(batches') <= MaxBatches
  BY <1>2, <1>3, Bounds, Shapes
<1>5. \A i \in 1..Len(results) : results[i].batch \in 1..Len(batches')
  BY <1>3, Shapes DEF TypeOK
<1>6. TypeOK'
  BY <1>3, <1>4, <1>5 DEF TypeOK, StartGates, Has
<1> QED
  BY <1>6, SameDispatches DEF StartGates

LEMMA RunGateKeeps ==
  ASSUME IInv, NEW b, NEW g, NEW verdict \in Verdicts, RunGate(b, g, verdict)
  PROVE  IInv'
<1> USE DEF IInv
<1> DEFINE x == [batch |-> b, status |-> verdict]
           y == [batches[b] EXCEPT !.todo = @ \ {g}]
<1>1. b \in 1..Len(batches) /\ batches' = [batches EXCEPT ![b] = y]
      /\ results' = Append(results, x)
  BY DEF RunGate
<1>2. y \in Batches
  BY <1>1, Shapes DEF Batches
<1>3. x \in Results
  BY <1>1, Bounds, Shapes DEF Results, TypeOK
<1> HIDE DEF y
<1>4. batches' \in Seq(Batches) /\ Len(batches') = Len(batches)
  BY <1>1, <1>2 DEF TypeOK
<1>5. /\ results' \in Seq(Results) /\ Len(results') = Len(results) + 1
      /\ results'[Len(results) + 1] = x
      /\ \A i \in 1..Len(results) : results'[i] = results[i]
  <2> HIDE DEF x
  <2> QED
    BY <1>1, <1>3, Added DEF TypeOK
<1>6. \A i \in 1..Len(results') : results'[i].batch \in 1..Len(batches)
  <2>1. \A i \in 1..Len(results') : i \in 1..Len(results) \/ i = Len(results) + 1
    BY <1>5, Shapes
  <2> QED
    BY <1>1, <1>5, <2>1 DEF TypeOK
<1>7. TypeOK'
  BY <1>4, <1>5, <1>6 DEF TypeOK, RunGate, Has
<1> QED
  BY <1>7, SameDispatches DEF RunGate

LEMMA CrashKeeps ==
  ASSUME IInv, Crash
  PROVE  IInv'
<1> USE DEF IInv
<1>1. batches' \in [1..Len(batches) -> Batches]
  BY Shapes DEF Crash, Batches
<1>2. batches' \in Seq(Batches) /\ Len(batches') = Len(batches)
  BY <1>1, Rewritten DEF TypeOK
<1>3. troubles' \in 0..MaxTroubles
  BY Bounds DEF Crash, Trouble, TypeOK
<1>4. TypeOK'
  BY <1>2, <1>3 DEF TypeOK, Crash, Has
<1> QED
  BY <1>4, SameDispatches DEF Crash

LEMMA CloseRunKeeps ==
  ASSUME IInv, CloseRun
  PROVE  IInv'
<1>1. TypeOK'
  BY DEF IInv, TypeOK, CloseRun, Has
<1> QED
  BY <1>1, SameDispatches DEF CloseRun

LEMMA StepKeeps ==
  ASSUME IInv, [Next]_vars
  PROVE  IInv'
<1>1. CASE Next
  <2>1. ASSUME NEW d \in Ids, Patch(d) PROVE IInv'
    BY <2>1, ExportKeeps, ApplyPatchKeeps, RollbackKeeps, ReportKeeps, ApplyBreaksOffKeeps,
       RollbackBreaksOffKeeps DEF Patch
  <2> QED
    BY <1>1, <2>1, PrepareKeeps, StartGatesKeeps, RunGateKeeps, CloseRunKeeps, EditKeeps,
       CrashKeeps DEF Next
<1>2. CASE UNCHANGED vars
  <2>1. TypeOK'
    BY <1>2 DEF IInv, TypeOK, Has, vars
  <2> QED
    BY <1>2, <2>1, SameDispatches DEF vars
<1> QED
  BY <1>1, <1>2

LEMMA Inductive == Spec => []IInv
<1> QED
  BY InitHolds, StepKeeps, PTL DEF Spec

-----------------------------------------------------------------------------
(* Theorems *)

(* Every variable keeps its type, and a row has its dispatch, whatever     *)
(* breaks off, dies or is edited (the tables and files of hermes-worker).  *)
THEOREM WorkerTypes == Spec => []TypeOK
<1>1. IInv => TypeOK
  BY DEF IInv
<1> QED
  BY <1>1, Inductive, PTL

(* The rows of the patches are written by two actions only. *)
LEMMA RowsChange ==
  ASSUME Next, rows' # rows
  PROVE  \E e \in Ids : ApplyPatch(e) \/ Rollback(e)
<1>1. ASSUME NEW d \in Ids, Patch(d), ~ApplyPatch(d), ~Rollback(d) PROVE FALSE
  <2>1. rows' = rows
    BY <1>1 DEF Patch, Export, Report, ApplyBreaksOff, RollbackBreaksOff
  <2> QED
    BY <2>1
<1>2. PICK d \in Ids : Patch(d)
  BY DEF Next, Prepare, StartGates, RunGate, CloseRun, Edit, Crash
<1> QED
  BY <1>1, <1>2

(* Only a rollback takes a patch back, and what it writes is what the      *)
(* files were before the patch, read as UTF-8, or the half of it that an   *)
(* attempt has left in them when it broke off (apply-hermes-patch.ts:      *)
(* snapshotFile, rollbackHermesPatchForRun).                               *)
THEOREM RollbackGivesBack == Spec => RollbackRestores
<1>1. ASSUME IInv, Next, NEW d \in Ids, Applied(d), ~Applied(d)', NEW p \in Targets(d)
      PROVE  \/ tree'[p] = Decoded(history.before[d][p])
             \/ d \in history.broken /\ EndsWith(tree'[p], d)
  <2>1. TypeOK /\ Kept(d)
    BY <1>1 DEF IInv
  <2>2. rows' # rows
    BY <1>1 DEF Applied, RowsOf
  <2>3. PICK e \in Ids : ApplyPatch(e) \/ Rollback(e)
    BY <1>1, <2>2, RowsChange
  <2>4. ~ApplyPatch(e)
    <3> SUFFICES ASSUME ApplyPatch(e) PROVE FALSE
      OBVIOUS
    <3>1. RowsOf(e) = {} /\ rows' = Append(rows, [dispatch |-> e, status |-> "applied"])
      BY DEF ApplyPatch, Ready
    <3>2. d # e
      BY <1>1, <3>1 DEF Applied
    <3> QED
      BY <1>1, <2>1, <3>1, <3>2, RowAdded
  <2>5. e = d
    BY <1>1, <2>1, <2>3, <2>4, RowsRewritten DEF Rollback
  <2>6. tree'[p] = saved[d].files[p]
    BY <2>3, <2>4, <2>5 DEF Rollback, Restored, Targets
  <2>7. \/ saved[d].files[p] = Decoded(history.before[d][p])
        \/ d \in history.broken /\ EndsWith(saved[d].files[p], d)
    BY <1>1, <2>1 DEF Kept, Applied
  <2> QED
    BY <2>6, <2>7
<1>2. IInv /\ [Next]_vars =>
        [\A d \in Ids : Applied(d) /\ ~Applied(d)' =>
           \A p \in Targets(d) :
             \/ tree'[p] = Decoded(history.before[d][p])
             \/ d \in history.broken /\ EndsWith(tree'[p], d)]_vars
  BY <1>1
<1> QED
  BY <1>2, Inductive, PTL DEF Spec, RollbackRestores

(* Some dispatches have a newest one: what lies after it is least. *)
LEMMA Newest ==
  ASSUME NEW n \in Nat, NEW S \in SUBSET (1..n), S # {}
  PROVE  \E i \in S : \A j \in S : j <= i
<1> DEFINE From(i) == {j \in S : i <= j}
           T == {From(i) : i \in S}
           R == StrictSubsetOrdering(1..n)
<1>1. IsWellFoundedOn(R, SUBSET (1..n))
  <2>1. IsFiniteSet(1..n)
    BY FS_Interval
  <2>2. FiniteSubsetsOf(1..n) = SUBSET (1..n)
    BY <2>1, FS_FiniteSubsetsOfFinite
  <2> QED
    BY <2>2, FS_StrictSubsetOrderingWellFounded
<1>2. T \subseteq SUBSET (1..n) /\ T # {}
  OBVIOUS
<1> HIDE DEF R, T
<1>3. PICK x \in T : \A y \in T : ~(<<y, x>> \in R)
  BY <1>1, <1>2, WFMin
<1>4. PICK i \in S : x = From(i)
  BY DEF T
<1>5. ASSUME NEW j \in S PROVE j <= i
  <2> SUFFICES ASSUME i < j PROVE FALSE
    OBVIOUS
  <2>1. i \in From(i) /\ i \notin From(j) /\ \A k \in From(j) : k \in From(i)
    OBVIOUS
  <2>2. From(j) \in SUBSET (1..n) /\ From(i) \in SUBSET (1..n) /\ From(j) \in T
    BY DEF T
  <2> HIDE DEF From
  <2>3. From(j) \subseteq From(i) /\ From(j) # From(i)
    BY <2>1
  <2>4. <<From(j), From(i)>> \in R
    BY <2>2, <2>3 DEF R, StrictSubsetOrdering
  <2> QED
    BY <1>3, <1>4, <2>2, <2>4
<1> QED
  BY <1>5

(* The dispatch a sign-off is shown is one of the run's. *)
LEMMA ShownIsDispatch ==
  ASSUME TypeOK, Shown # 0
  PROVE  Shown \in Ids
<1>1. CASE Reported = {}
  BY <1>1, Bounds DEF Shown, TypeOK, Ids
<1>2. CASE Reported # {}
  <2>1. PICK d \in Reported : \A e \in Reported : e <= d
    <3>1. Reported \subseteq Ids /\ Ids = 1..MaxDispatches
      BY DEF Reported, Ids
    <3> QED
      BY <1>2, <3>1, Bounds, Newest
  <2> QED
    BY <1>2, <2>1 DEF Shown, Reported
<1> QED
  BY <1>1, <1>2

(* What an approving sign-off is about is in the tree, also after attempts *)
(* that broke off, unless another's write or a broken-off rollback came in *)
(* between (read-hermes-worker-evidence.ts,                                *)
(* validate-engineering-review-signoff.ts).                                *)
THEOREM SignedIsInTree == Spec => []SignedPatchIsInTree
<1>1. ASSUME IInv, NEW d, d = Shown, \E override \in BOOLEAN : Approvable(override), d # 0,
             d \notin history.touched
      PROVE  \A p \in Targets(d) : InTree(d, p)
  <2>1. ShownPatch = "patch_applied"
    BY <1>1 DEF Approvable
  <2>2. d \in Ids
    BY <1>1, ShownIsDispatch DEF IInv
  <2>3. Intact(d)
    BY <1>1, <2>2 DEF IInv
  <2>4. Claimed(d)
    BY <1>1, <2>1 DEF ShownPatch, Claimed
  <2> QED
    BY <1>1, <2>3, <2>4 DEF Intact
<1>2. IInv => SignedPatchIsInTree
  BY <1>1 DEF SignedPatchIsInTree, InTree
<1> QED
  BY <1>2, Inductive, PTL

=============================================================================
