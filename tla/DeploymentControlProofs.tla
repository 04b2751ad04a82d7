------------------------ MODULE DeploymentControlProofs ------------------------
(***************************************************************************)
(* Proofs about DeploymentControl, for any environments, reports and       *)
(* bounds, with and without the hard gates: the rows keep their shape, an  *)
(* approval is good for one deployment, a completed release was merged,    *)
(* deployed under an approval and found healthy, the health policy follows *)
(* the newest probe, and the run page agrees with itself and gives advice  *)
(* that can be followed.                                                   *)
(***************************************************************************)
EXTENDS ReleasePanels, FiniteSetTheorems, TLAPS

(* The rows of a table refer to rows that are there, and a row that its    *)
(* handler has not finished says so.                                       *)
Granted(x, a) ==
  /\ a[x.approval].decision = "approved"
  /\ x.approval \in 1..Len(a)
  /\ x.step = "script" => x.status = "running"

Probed(x, e) ==
  /\ x.execution \in 1..Len(e)
  /\ e[x.execution].status = "succeeded"
  /\ x.step = "answer" => x.status = "running"

Linked ==
  /\ Len(checks) <= MaxChecks /\ Len(approvals) <= MaxApprovals
  /\ Len(executions) <= MaxExecutions /\ Len(probes) <= MaxProbes
  /\ \A e \in 1..Len(executions) : Granted(executions[e], approvals)
  /\ \A h \in 1..Len(probes) : Probed(probes[h], executions)

Released ==
  /\ published = "merged"
  /\ \E h \in 1..Len(probes) : probes[h].status = "healthy"

Signed == (checklist = "complete" \/ signoff = "completed") => Released

IInv == TypeOK /\ Linked /\ OneDeploymentPerApproval /\ Signed

-----------------------------------------------------------------------------
(* Tables *)

(* A row at the end of a table. *)
LEMMA Added ==
  ASSUME NEW S, NEW s \in Seq(S), NEW x \in S
  PROVE  /\ Append(s, x) \in Seq(S)
         /\ Len(Append(s, x)) = Len(s) + 1
         /\ Append(s, x)[Len(s) + 1] = x
         /\ \A i \in 1..Len(s) : Append(s, x)[i] = s[i]
  OBVIOUS

(* Every row of a table is written anew. *)
LEMMA Rewritten ==
  ASSUME NEW S, NEW s \in Seq(S), NEW t,
                 t \in [1..Len(s) -> S]
  PROVE  t \in Seq(S) /\ Len(t) = Len(s)
  OBVIOUS

LEMMA Bounds ==
  /\ MaxChecks \in Nat /\ MaxApprovals \in Nat /\ MaxExecutions \in Nat
  /\ MaxProbes \in Nat /\ MaxCrashes \in Nat
  /\ Reports \subseteq Standings
  BY BoundsAssumption, ReportsAssumption

(* The newest of some rows is one of them: what lies after it is least.    *)
LEMMA LastOf ==
  ASSUME NEW n \in Nat, NEW S \in SUBSET (1..n), S # {}
  PROVE  Last(S) \in S
<1> DEFINE From(i) == {j \in S : i <= j}
           T == {From(i) : i \in S}
           R == StrictSubsetOrdering(1..n)
<1>1. FiniteSubsetsOf(1..n) = SUBSET (1..n)
  <2>1. IsFiniteSet(1..n)
    BY FS_Interval
  <2> QED
    BY <2>1, FS_FiniteSubsetsOfFinite
<1>2. IsWellFoundedOn(R, SUBSET (1..n))
  BY <1>1, FS_StrictSubsetOrderingWellFounded
<1>3. T \subseteq SUBSET (1..n) /\ T # {}
  OBVIOUS
<1> HIDE DEF R, T
<1>4. PICK x \in T : \A y \in T : ~(<<y, x>> \in R)
  BY <1>2, <1>3, WFMin
<1>5. PICK i \in S : x = From(i)
  BY DEF T
<1>6. ASSUME NEW j \in S PROVE j <= i
  <2>1. SUFFICES ASSUME i < j PROVE FALSE
    BY <1>5
  <2>2. From(j) \in T
    BY DEF T
  <2>3. i \in Nat /\ j \in Nat
    OBVIOUS
  <2>4. From(j) \subseteq From(i) /\ i \in From(i) /\ i \notin From(j)
    <3>1. \A k \in S : k \in Nat /\ (j <= k => i <= k)
      BY <2>1, <2>3
    <3>2. i \in From(i) /\ i \notin From(j)
      BY <2>1, <2>3
    <3> QED
      BY <3>1, <3>2
  <2>5. From(j) \in SUBSET (1..n) /\ From(i) \in SUBSET (1..n) /\ From(j) # From(i)
    BY <2>4
  <2>6. <<From(j), From(i)>> \in R
    BY <2>4, <2>5 DEF R, StrictSubsetOrdering
  <2> QED
    BY <1>4, <1>5, <2>2, <2>6
<1> QED
  BY <1>6 DEF Last

LEMMA Shapes ==
  ASSUME TypeOK
  PROVE  /\ \A c \in 1..Len(checks) : checks[c] \in Checks
         /\ \A a \in 1..Len(approvals) : approvals[a] \in Approvals
         /\ \A e \in 1..Len(executions) : executions[e] \in Executions
         /\ \A h \in 1..Len(probes) : probes[h] \in Probes
         /\ Len(checks) \in Nat /\ Len(approvals) \in Nat
         /\ Len(executions) \in Nat /\ Len(probes) \in Nat
  BY DEF TypeOK

(* What the health policy finds of an execution is one of its verdicts. *)
LEMMA Verdicts ==
  ASSUME TypeOK, NEW e \in 1..Len(executions)
  PROVE  Judgement(e) \in Judgements
  BY DEF Judgement, Judgements

(* A judgement of one of the executions is a health policy result. *)
LEMMA Judged ==
  ASSUME TypeOK, Linked, NEW e \in 1..Len(executions), Judges(e)
  PROVE  policy' \in Policies
<1>1. e \in 0..MaxExecutions
  BY Bounds, Shapes DEF Linked
<1> QED
  BY <1>1, Verdicts DEF Judges, Policies

LEMMA LinkedExecutions ==
  ASSUME IInv, NEW e \in 1..Len(executions)
  PROVE  e \in 1..MaxExecutions
  BY Bounds, Shapes DEF IInv, Linked

-----------------------------------------------------------------------------
(* A release that was complete stays merged and answered *)

LEMMA StillReleased ==
  ASSUME IInv, published' = published,
         Len(probes') \in Nat, Len(probes) <= Len(probes'),
         \A h \in 1..Len(probes) :
           probes[h].status = "healthy" => probes'[h].status = "healthy",
         checklist' = checklist, signoff' = signoff
  PROVE  Signed'
<1>1. Released => Released'
  <2>1. ASSUME Released PROVE Released'
    <3>1. PICK h \in 1..Len(probes) : probes[h].status = "healthy"
      BY <2>1 DEF Released
    <3>2. h \in 1..Len(probes') /\ probes'[h].status = "healthy"
      BY <3>1, Shapes DEF IInv
    <3> QED
      BY <2>1, <3>2 DEF Released
  <2> QED
    BY <2>1
<1> QED
  BY <1>1 DEF IInv, Signed

(* A complete checklist is one of a run that is merged, and whose newest   *)
(* health check answered as expected.                                      *)
LEMMA CompleteIsReleased ==
  ASSUME TypeOK, NEW audit, ChecklistStatus(audit) = "complete"
  PROVE  Released
<1>1. Actionable \cup {AuditItem(audit)} = {"complete"}
  BY DEF ChecklistStatus
<1>2. MergeItem = "complete" /\ HealthCheckItem = "complete"
  BY <1>1 DEF Actionable, DeploymentItems
<1>3. published = "merged"
  BY <1>2 DEF MergeItem, TypeOK, Published
<1>4. probes # <<>> /\ probes[Len(probes)].status = "healthy"
  BY <1>2 DEF HealthCheckItem
<1>5. Len(probes) \in 1..Len(probes)
  BY <1>4 DEF TypeOK
<1> QED
  BY <1>3, <1>4, <1>5 DEF Released

-----------------------------------------------------------------------------
(* Rows that move on *)

(* An execution, or a health check, before and after a step. *)
Follows(y, x) ==
  /\ y.approval = x.approval
  /\ y.step = "script" => x.step = "script" /\ y.status = x.status
  /\ y.status \in {"running", "succeeded"} => x.status \in {"running", "succeeded"}
  /\ x.status = "succeeded" => y.status = "succeeded"

FollowsProbe(y, x) ==
  /\ y.execution = x.execution
  /\ y.step = "answer" => x.step = "answer" /\ y.status = x.status
  /\ x.status = "healthy" => y.status = "healthy"

LEMMA RowsMove ==
  ASSUME IInv, UNCHANGED <<checks, approvals>>,
         executions' \in Seq(Executions), Len(executions') = Len(executions),
         \A e \in 1..Len(executions) : Follows(executions'[e], executions[e]),
         probes' \in Seq(Probes), Len(probes') = Len(probes),
         \A h \in 1..Len(probes) : FollowsProbe(probes'[h], probes[h])
  PROVE  Linked' /\ OneDeploymentPerApproval'
<1>1. \A e \in 1..Len(executions) : Granted(executions[e], approvals)'
  BY DEF IInv, Linked, Granted, Follows
<1>2. \A h \in 1..Len(probes) : Probed(probes[h], executions)'
  BY DEF IInv, Linked, Probed, FollowsProbe, Follows
<1>3. Linked'
  BY <1>1, <1>2 DEF IInv, Linked
<1>4. OneDeploymentPerApproval'
  <2>1. SUFFICES ASSUME NEW e \in 1..Len(executions), NEW f \in 1..Len(executions),
                        executions'[e].approval = executions'[f].approval,
                        {executions'[e].status, executions'[f].status}
                          \subseteq {"running", "succeeded"}
                 PROVE  e = f
    BY DEF OneDeploymentPerApproval
  <2>2. executions[e].approval = executions[f].approval
    BY <2>1 DEF Follows
  <2>3. {executions[e].status, executions[f].status} \subseteq {"running", "succeeded"}
    BY <2>1 DEF Follows
  <2> QED
    BY <2>2, <2>3 DEF IInv, OneDeploymentPerApproval
<1> QED
  BY <1>3, <1>4

LEMMA SameRows ==
  ASSUME IInv, UNCHANGED <<checks, approvals, executions, probes>>
  PROVE  Linked' /\ OneDeploymentPerApproval'
  BY DEF IInv, Linked, Granted, Probed, OneDeploymentPerApproval

(* One execution moves on. *)
LEMMA ExecutionMoves ==
  ASSUME IInv, NEW e \in 1..Len(executions), NEW x \in Executions,
         executions' = [executions EXCEPT ![e] = x], Follows(x, executions[e]),
         UNCHANGED <<checks, approvals, probes>>
  PROVE  executions' \in Seq(Executions) /\ Linked' /\ OneDeploymentPerApproval'
<1>1. /\ executions' \in Seq(Executions) /\ Len(executions') = Len(executions)
      /\ \A f \in 1..Len(executions) :
           executions'[f] = IF f = e THEN x ELSE executions[f]
  BY DEF IInv, TypeOK
<1>2. \A f \in 1..Len(executions) : Follows(executions'[f], executions[f])
  BY <1>1 DEF Follows
<1>3. \A h \in 1..Len(probes) : FollowsProbe(probes'[h], probes[h])
  BY DEF FollowsProbe
<1>4. probes' \in Seq(Probes) /\ Len(probes') = Len(probes)
  BY DEF IInv, TypeOK
<1> QED
  BY <1>1, <1>2, <1>3, <1>4, RowsMove

(* One health check moves on. *)
LEMMA ProbeMoves ==
  ASSUME IInv, NEW h \in 1..Len(probes), NEW x \in Probes,
         probes' = [probes EXCEPT ![h] = x], FollowsProbe(x, probes[h]),
         UNCHANGED <<checks, approvals, executions, published, checklist, signoff>>
  PROVE  probes' \in Seq(Probes) /\ Linked' /\ OneDeploymentPerApproval' /\ Signed'
<1>1. /\ probes' \in Seq(Probes) /\ Len(probes') = Len(probes)
      /\ \A g \in 1..Len(probes) : probes'[g] = IF g = h THEN x ELSE probes[g]
  BY DEF IInv, TypeOK
<1>2. \A g \in 1..Len(probes) : FollowsProbe(probes'[g], probes[g])
  BY <1>1 DEF FollowsProbe
<1>3. \A e \in 1..Len(executions) : Follows(executions'[e], executions[e])
  BY DEF Follows
<1>4. executions' \in Seq(Executions) /\ Len(executions') = Len(executions)
  BY DEF IInv, TypeOK
<1>5. Linked' /\ OneDeploymentPerApproval'
  BY <1>1, <1>2, <1>3, <1>4, RowsMove
<1>6. Signed'
  <2>1. \A g \in 1..Len(probes) :
          probes[g].status = "healthy" => probes'[g].status = "healthy"
    BY <1>2 DEF FollowsProbe
  <2>2. Len(probes') \in Nat /\ Len(probes) <= Len(probes')
    BY <1>1, Shapes DEF IInv
  <2> QED
    BY <2>1, <2>2, StillReleased
<1> QED
  BY <1>1, <1>5, <1>6

LEMMA SameReleased ==
  ASSUME IInv, UNCHANGED <<published, probes, checklist, signoff>>
  PROVE  Signed'
  BY DEF IInv, Signed, Released

-----------------------------------------------------------------------------
(* Actions *)

LEMMA InitHolds == Init => IInv
<1> SUFFICES ASSUME Init PROVE IInv
  OBVIOUS
<1> USE DEF Init
<1>1. checks \in Seq(Checks) /\ approvals \in Seq(Approvals)
      /\ executions \in Seq(Executions) /\ probes \in Seq(Probes)
  OBVIOUS
<1>2. policy \in Policies
  BY Bounds DEF Policies
<1>3. TypeOK
  BY <1>1, <1>2, Bounds DEF TypeOK, Published, Checklists, Decisions
<1>4. Linked
  BY Bounds DEF Linked
<1>5. OneDeploymentPerApproval /\ Signed
  BY DEF OneDeploymentPerApproval, Signed
<1> QED
  BY <1>3, <1>4, <1>5 DEF IInv

LEMMA GovernKeeps ==
  ASSUME IInv, Govern
  PROVE  IInv'
<1>1. TypeOK'
  BY Bounds DEF IInv, TypeOK, Govern
<1> QED
  BY <1>1, SameRows, SameReleased DEF IInv, Govern

LEMMA PublishKeeps ==
  ASSUME IInv, Publish
  PROVE  IInv'
<1>1. TypeOK'
  BY DEF IInv, TypeOK, Publish, Published
<1>2. Linked' /\ OneDeploymentPerApproval'
  BY SameRows DEF Publish
<1>3. published # "merged"
  BY DEF Publish
<1>4. Signed'
  BY <1>3 DEF IInv, Signed, Released, Publish
<1> QED
  BY <1>1, <1>2, <1>4 DEF IInv

LEMMA CheckReadinessKeeps ==
  ASSUME IInv, NEW env \in Environments, CheckReadiness(env)
  PROVE  IInv'
<1>1. [env |-> env, status |-> Readiness(env)] \in Checks
  BY DEF Checks, Readiness
<1>2. checks' \in Seq(Checks) /\ Len(checks') = Len(checks) + 1
  BY <1>1 DEF IInv, TypeOK, CheckReadiness
<1>3. TypeOK'
  BY <1>2 DEF IInv, TypeOK, CheckReadiness
<1>4. Linked' /\ OneDeploymentPerApproval'
  BY <1>2, Bounds, Shapes DEF IInv, Linked, Granted, Probed, OneDeploymentPerApproval,
                              CheckReadiness
<1> QED
  BY <1>3, <1>4, SameReleased DEF IInv, CheckReadiness

(* An approval or a rejection is added. *)
LEMMA ApprovalAdded ==
  ASSUME IInv, NEW x \in Approvals, Len(approvals) < MaxApprovals,
         approvals' = Append(approvals, x),
         UNCHANGED <<standing, published, checks, executions, probes, policy, checklist,
                     signoff, crashes, unjudged>>
  PROVE  IInv'
<1>1. /\ approvals' \in Seq(Approvals) /\ Len(approvals') = Len(approvals) + 1
      /\ \A a \in 1..Len(approvals) : approvals'[a] = approvals[a]
  BY DEF IInv, TypeOK
<1>2. TypeOK'
  BY <1>1 DEF IInv, TypeOK
<1>3. \A e \in 1..Len(executions) : Granted(executions[e], approvals)'
  BY <1>1, Shapes DEF IInv, Linked, Granted
<1>4. Linked'
  BY <1>1, <1>3, Bounds, Shapes DEF IInv, Linked, Probed
<1>5. OneDeploymentPerApproval'
  BY DEF IInv, OneDeploymentPerApproval
<1> QED
  BY <1>2, <1>4, <1>5, SameReleased DEF IInv

LEMMA ApproveDeploymentKeeps ==
  ASSUME IInv, NEW c \in 1..Len(checks), NEW rationale \in BOOLEAN,
         ApproveDeployment(c, rationale)
  PROVE  IInv'
<1>1. c \in 1..MaxChecks
  BY Bounds, Shapes DEF IInv, Linked
<1>2. [check |-> c, decision |-> "approved", rationale |-> rationale] \in Approvals
  BY <1>1 DEF Approvals
<1> QED
  BY <1>2, ApprovalAdded DEF ApproveDeployment

LEMMA RejectDeploymentKeeps ==
  ASSUME IInv, NEW c \in 1..Len(checks), RejectDeployment(c)
  PROVE  IInv'
<1>1. c \in 1..MaxChecks
  BY Bounds, Shapes DEF IInv, Linked
<1>2. [check |-> c, decision |-> "rejected", rationale |-> FALSE] \in Approvals
  BY <1>1 DEF Approvals
<1> QED
  BY <1>2, ApprovalAdded DEF RejectDeployment

(* The row of an execution is inserted, and its script started unless one  *)
(* of the same approval runs.                                              *)
LEMMA ExecuteKeeps ==
  ASSUME IInv, NEW a \in 1..Len(approvals), Execute(a)
  PROVE  IInv'
<1> DEFINE x == IF Has(a, "running")
                THEN [approval |-> a, status |-> "pending", step |-> "done"]
                ELSE [approval |-> a, status |-> "running", step |-> "script"]
           n == Len(executions)
<1>1. a \in 1..MaxApprovals
  BY Bounds, Shapes DEF IInv, Linked
<1>2. x \in Executions
  BY <1>1 DEF Executions
<1>3. executions' = Append(executions, x)
  BY DEF Execute
<1>4. x.approval = a /\ x.status \in {"pending", "running"}
      /\ (x.status = "running" => ~Has(a, "running"))
      /\ (x.step = "script" => x.status = "running")
  OBVIOUS
<1> HIDE DEF x
<1>5. /\ executions' \in Seq(Executions) /\ Len(executions') = n + 1
      /\ executions'[n + 1] = x
      /\ \A e \in 1..n : executions'[e] = executions[e]
  BY <1>2, <1>3 DEF IInv, TypeOK
<1>6. TypeOK'
  BY <1>5 DEF IInv, TypeOK, Execute
<1>7. ExecutionReady(a) /\ Len(executions) < MaxExecutions
  BY DEF Execute
<1>8. approvals[a].decision = "approved" /\ ~Has(a, "succeeded")
  BY <1>7 DEF ExecutionReady
<1>9. \A e \in 1..Len(executions') : Granted(executions[e], approvals)'
  <2>1. TAKE e \in 1..Len(executions')
  <2>2. CASE e \in 1..n
    BY <1>5, <2>2 DEF IInv, Linked, Granted, Execute
  <2>3. CASE e = n + 1
    BY <1>4, <1>5, <1>8, <2>3 DEF Granted, Execute
  <2> QED
    BY <1>5, <2>2, <2>3, Shapes DEF IInv
<1>10. \A h \in 1..Len(probes) : Probed(probes[h], executions)'
  BY <1>5, Shapes DEF IInv, Linked, Probed, Execute
<1>11. Linked'
  BY <1>5, <1>7, <1>9, <1>10, Bounds, Shapes DEF IInv, Linked, Execute
<1>12. OneDeploymentPerApproval'
  <2>1. \A e \in 1..n : /\ executions[e].approval = a
                        /\ executions[e].status \in {"running", "succeeded"}
                        => x.status = "pending"
    BY <1>4, <1>8 DEF Has
  <2>2. SUFFICES ASSUME NEW e \in 1..(n + 1), NEW f \in 1..(n + 1),
                        executions'[e].approval = executions'[f].approval,
                        {executions'[e].status, executions'[f].status}
                          \subseteq {"running", "succeeded"}
                 PROVE  e = f
    BY <1>5 DEF OneDeploymentPerApproval
  <2>3. CASE e \in 1..n /\ f \in 1..n
    BY <1>5, <2>2, <2>3 DEF IInv, OneDeploymentPerApproval
  <2>4. CASE e \in 1..n /\ f = n + 1
    BY <1>4, <1>5, <2>1, <2>2, <2>4
  <2>5. CASE e = n + 1 /\ f \in 1..n
    BY <1>4, <1>5, <2>1, <2>2, <2>5
  <2> QED
    BY <2>3, <2>4, <2>5, Shapes DEF IInv
<1> QED
  BY <1>6, <1>11, <1>12, SameReleased DEF IInv, Execute

LEMMA ScriptEndsKeeps ==
  ASSUME IInv, NEW e \in 1..Len(executions), ScriptEnds(e) \/ ScriptThrows(e)
  PROVE  IInv'
<1>1. executions[e] \in Executions /\ executions[e].step = "script"
      /\ executions[e].status = "running"
  BY Shapes DEF IInv, Linked, Granted, ScriptEnds, ScriptThrows
<1>2. PICK status \in ScriptOutcomes, step \in {"refresh", "done"} :
        executions' = [executions EXCEPT ![e].status = status, ![e].step = step]
  BY DEF ScriptEnds, ScriptThrows, ScriptOutcomes
<1> DEFINE x == [executions[e] EXCEPT !.status = status, !.step = step]
<1>3. executions' = [executions EXCEPT ![e] = x]
  BY <1>2 DEF IInv, TypeOK
<1>4. x \in Executions /\ Follows(x, executions[e])
  BY <1>1 DEF Executions, Follows, ScriptOutcomes
<1>5. UNCHANGED <<standing, published, checks, approvals, probes, policy, checklist,
                  signoff, crashes, unjudged>>
  BY DEF ScriptEnds, ScriptThrows
<1> HIDE DEF x
<1>6. executions' \in Seq(Executions) /\ Linked' /\ OneDeploymentPerApproval'
  BY <1>3, <1>4, <1>5, ExecutionMoves
<1>7. TypeOK'
  BY <1>5, <1>6 DEF IInv, TypeOK
<1> QED
  BY <1>5, <1>6, <1>7, SameReleased DEF IInv

LEMMA JudgeExecutionKeeps ==
  ASSUME IInv, NEW e \in 1..Len(executions), JudgeExecution(e)
  PROVE  IInv'
<1> DEFINE x == [executions[e] EXCEPT !.step = "done"]
<1>1. executions' = [executions EXCEPT ![e] = x]
  BY DEF IInv, TypeOK, JudgeExecution
<1>2. x \in Executions /\ Follows(x, executions[e])
  BY Shapes DEF IInv, Executions, Follows
<1>3. UNCHANGED <<standing, published, checks, approvals, probes, checklist, signoff, crashes>>
  BY DEF JudgeExecution
<1> HIDE DEF x
<1>4. executions' \in Seq(Executions) /\ Linked' /\ OneDeploymentPerApproval'
  BY <1>1, <1>2, <1>3, ExecutionMoves
<1>5. policy' \in Policies
  BY Judged DEF IInv, TypeOK, JudgeExecution
<1>6. unjudged' \subseteq 1..MaxExecutions
  BY LinkedExecutions DEF IInv, TypeOK, JudgeExecution
<1>7. TypeOK'
  BY <1>3, <1>4, <1>5, <1>6 DEF IInv, TypeOK
<1> QED
  BY <1>3, <1>4, <1>7, SameReleased DEF IInv

LEMMA CheckHealthKeeps ==
  ASSUME IInv, NEW e \in 1..Len(executions), CheckHealth(e)
  PROVE  IInv'
<1> DEFINE x == [execution |-> e, status |-> "running", step |-> "answer"]
           n == Len(probes)
<1>1. x \in Probes
  BY LinkedExecutions DEF Probes
<1>2. /\ probes' \in Seq(Probes) /\ Len(probes') = n + 1 /\ probes'[n + 1] = x
      /\ \A h \in 1..n : probes'[h] = probes[h]
  BY <1>1 DEF IInv, TypeOK, CheckHealth
<1>3. UNCHANGED <<standing, published, checks, approvals, executions, policy, checklist,
                  signoff, crashes, unjudged>>
  BY DEF CheckHealth
<1>4. TypeOK'
  BY <1>2, <1>3 DEF IInv, TypeOK
<1>5. \A h \in 1..Len(probes') : Probed(probes[h], executions)'
  <2>1. TAKE h \in 1..Len(probes')
  <2>2. CASE h \in 1..n
    BY <1>2, <1>3, <2>2 DEF IInv, Linked, Probed
  <2>3. CASE h = n + 1
    BY <1>2, <1>3, <2>3 DEF Probed, CheckHealth, HealthCheckReady
  <2> QED
    BY <1>2, <2>2, <2>3, Shapes DEF IInv
<1>6. \A f \in 1..Len(executions) : Granted(executions[f], approvals)'
  BY <1>3 DEF IInv, Linked, Granted
<1>7. Linked'
  BY <1>2, <1>3, <1>5, <1>6, Bounds, Shapes DEF IInv, Linked, CheckHealth
<1>8. OneDeploymentPerApproval'
  BY <1>3 DEF IInv, OneDeploymentPerApproval
<1>9. Signed'
  BY <1>2, <1>3, Shapes, StillReleased DEF IInv
<1> QED
  BY <1>4, <1>7, <1>8, <1>9 DEF IInv

LEMMA ProbeAnswersKeeps ==
  ASSUME IInv, NEW h \in 1..Len(probes), ProbeAnswers(h)
  PROVE  IInv'
<1>1. probes[h] \in Probes /\ probes[h].step = "answer" /\ probes[h].status = "running"
  BY Shapes DEF IInv, Linked, Probed, ProbeAnswers
<1>2. PICK status \in ProbeOutcomes :
        probes' = [probes EXCEPT ![h].status = status, ![h].step = "refresh"]
  BY DEF ProbeAnswers
<1> DEFINE x == [probes[h] EXCEPT !.status = status, !.step = "refresh"]
<1>3. probes' = [probes EXCEPT ![h] = x]
  BY <1>2 DEF IInv, TypeOK
<1>4. x \in Probes /\ FollowsProbe(x, probes[h])
  BY <1>1 DEF Probes, FollowsProbe, ProbeOutcomes
<1>5. UNCHANGED <<standing, published, checks, approvals, executions, policy, checklist,
                  signoff, crashes, unjudged>>
  BY DEF ProbeAnswers
<1> HIDE DEF x
<1>6. probes' \in Seq(Probes) /\ Linked' /\ OneDeploymentPerApproval' /\ Signed'
  BY <1>3, <1>4, <1>5, ProbeMoves
<1>7. TypeOK'
  BY <1>5, <1>6 DEF IInv, TypeOK
<1> QED
  BY <1>6, <1>7 DEF IInv

LEMMA JudgeProbeKeeps ==
  ASSUME IInv, NEW h \in 1..Len(probes), JudgeProbe(h)
  PROVE  IInv'
<1> DEFINE x == [probes[h] EXCEPT !.step = "done"]
<1>1. probes' = [probes EXCEPT ![h] = x]
  BY DEF IInv, TypeOK, JudgeProbe
<1>2. x \in Probes /\ FollowsProbe(x, probes[h])
  BY Shapes DEF IInv, Probes, FollowsProbe
<1>3. UNCHANGED <<standing, published, checks, approvals, executions, checklist,
                  signoff, crashes>>
  BY DEF JudgeProbe
<1> HIDE DEF x
<1>4. probes' \in Seq(Probes) /\ Linked' /\ OneDeploymentPerApproval' /\ Signed'
  BY <1>1, <1>2, <1>3, ProbeMoves
<1> DEFINE e == probes[h].execution
<1>5. e \in 1..Len(executions)
  BY DEF IInv, Linked, Probed
<1>6. \/ Judges(e) /\ unjudged' = unjudged \ {e}
      \/ unjudged' = unjudged \cup {e} /\ UNCHANGED policy
  BY DEF JudgeProbe
<1> HIDE DEF e
<1>7. policy' \in Policies
  BY <1>5, <1>6, Judged DEF IInv, TypeOK
<1>8. unjudged' \subseteq 1..MaxExecutions
  <2>1. e \in 1..MaxExecutions
    BY <1>5, LinkedExecutions
  <2>2. unjudged \subseteq 1..MaxExecutions
    BY DEF IInv, TypeOK
  <2> QED
    BY <1>6, <2>1, <2>2
<1>9. TypeOK'
  BY <1>3, <1>4, <1>7, <1>8 DEF IInv, TypeOK
<1> QED
  BY <1>4, <1>9 DEF IInv

LEMMA EvaluateHealthPolicyKeeps ==
  ASSUME IInv, EvaluateHealthPolicy
  PROVE  IInv'
<1>1. UNCHANGED <<standing, published, checks, approvals, executions, probes, checklist,
                  signoff, crashes>>
  BY DEF EvaluateHealthPolicy
<1>2. policy' \in Policies
  <2>1. CASE Succeeded = {}
    BY <2>1, Bounds DEF EvaluateHealthPolicy, Policies, Judgements
  <2>2. CASE Succeeded # {}
    <3>1. Last(Succeeded) \in 1..Len(executions)
      <4>1. Succeeded \in SUBSET (1..Len(executions)) /\ Len(executions) \in Nat
        BY Shapes DEF Succeeded, IInv
      <4> QED
        BY <2>2, <4>1, LastOf
    <3> QED
      BY <2>2, <3>1, Judged DEF EvaluateHealthPolicy, IInv
  <2> QED
    BY <2>1, <2>2
<1>3. unjudged' \subseteq 1..MaxExecutions
  BY DEF IInv, TypeOK, EvaluateHealthPolicy
<1>4. TypeOK'
  BY <1>1, <1>2, <1>3 DEF IInv, TypeOK
<1> QED
  BY <1>1, <1>4, SameRows, SameReleased DEF IInv

LEMMA EvaluateChecklistKeeps ==
  ASSUME IInv, EvaluateChecklist
  PROVE  IInv'
<1>1. PICK audit \in Audits : checklist' = ChecklistStatus(audit)
  BY DEF EvaluateChecklist
<1>2. UNCHANGED <<standing, published, checks, approvals, executions, probes, policy,
                  signoff, crashes, unjudged>>
  BY DEF EvaluateChecklist
<1>3. ChecklistStatus(audit) \in Checklists
  BY DEF ChecklistStatus, Checklists
<1>4. TypeOK'
  BY <1>1, <1>2, <1>3 DEF IInv, TypeOK
<1>5. Signed'
  <2>1. Released' <=> Released
    BY <1>2 DEF Released
  <2>2. checklist' = "complete" => Released
    BY <1>1, CompleteIsReleased DEF IInv
  <2> QED
    BY <1>2, <2>1, <2>2 DEF IInv, Signed
<1> QED
  BY <1>2, <1>4, <1>5, SameRows DEF IInv

LEMMA SignOffKeeps ==
  ASSUME IInv, NEW decision \in Decisions, SignOff(decision)
  PROVE  IInv'
<1>1. UNCHANGED <<standing, published, checks, approvals, executions, probes, policy,
                  checklist, crashes, unjudged>>
  BY DEF SignOff
<1>2. TypeOK'
  BY <1>1 DEF IInv, TypeOK, SignOff
<1>3. decision = "completed" => checklist = "complete"
  BY DEF SignOff, SignoffAccepted, ChecklistAllows
<1>4. Signed'
  BY <1>1, <1>3 DEF IInv, Signed, Released, SignOff
<1> QED
  BY <1>1, <1>2, <1>4, SameRows DEF IInv

LEMMA CrashKeeps ==
  ASSUME IInv, Crash
  PROVE  IInv'
<1>1. /\ executions' \in Seq(Executions) /\ Len(executions') = Len(executions)
      /\ \A e \in 1..Len(executions) :
           executions'[e] = [executions[e] EXCEPT !.step = "done"]
  <2>1. \A e \in 1..Len(executions) : [executions[e] EXCEPT !.step = "done"] \in Executions
    BY Shapes DEF IInv, Executions
  <2> QED
    BY <2>1, Rewritten DEF IInv, TypeOK, Crash
<1>2. /\ probes' \in Seq(Probes) /\ Len(probes') = Len(probes)
      /\ \A h \in 1..Len(probes) : probes'[h] = [probes[h] EXCEPT !.step = "done"]
  <2>1. \A h \in 1..Len(probes) : [probes[h] EXCEPT !.step = "done"] \in Probes
    BY Shapes DEF IInv, Probes
  <2> QED
    BY <2>1, Rewritten DEF IInv, TypeOK, Crash
<1>3. \A e \in 1..Len(executions) : Follows(executions'[e], executions[e])
  BY <1>1, Shapes DEF IInv, Executions, Follows
<1>4. \A h \in 1..Len(probes) : FollowsProbe(probes'[h], probes[h])
  BY <1>2, Shapes DEF IInv, Probes, FollowsProbe
<1>5. UNCHANGED <<standing, published, checks, approvals, policy, checklist, signoff>>
  BY DEF Crash
<1>6. Linked' /\ OneDeploymentPerApproval'
  BY <1>1, <1>2, <1>3, <1>4, <1>5, RowsMove
<1>7. Signed'
  <2>1. \A h \in 1..Len(probes) :
          probes[h].status = "healthy" => probes'[h].status = "healthy"
    BY <1>4 DEF FollowsProbe
  <2> QED
    BY <1>2, <1>5, <2>1, Shapes, StillReleased DEF IInv
<1>8. unjudged' \subseteq 1..MaxExecutions
  <2>1. \A e \in 1..Len(executions) : e \in 1..MaxExecutions
    BY LinkedExecutions
  <2>2. \A h \in 1..Len(probes) : probes[h].execution \in 1..MaxExecutions
    BY Shapes DEF IInv, Probes
  <2> QED
    BY <2>1, <2>2 DEF IInv, TypeOK, Crash
<1>9. crashes' \in 0..MaxCrashes
  BY Bounds DEF IInv, TypeOK, Crash
<1>10. TypeOK'
  BY <1>1, <1>2, <1>5, <1>8, <1>9 DEF IInv, TypeOK
<1> QED
  BY <1>6, <1>7, <1>10 DEF IInv

LEMMA StepKeeps ==
  ASSUME IInv, [Next]_vars
  PROVE  IInv'
<1>1. CASE UNCHANGED vars
  <2>1. TypeOK'
    BY <1>1 DEF vars, IInv, TypeOK
  <2> QED
    BY <1>1, <2>1, SameRows, SameReleased DEF vars, IInv
<1>2. CASE Next
  BY <1>2, GovernKeeps, PublishKeeps, EvaluateHealthPolicyKeeps, EvaluateChecklistKeeps,
     CrashKeeps, SignOffKeeps, CheckReadinessKeeps, RejectDeploymentKeeps,
     ApproveDeploymentKeeps, ExecuteKeeps, ScriptEndsKeeps, JudgeExecutionKeeps,
     CheckHealthKeeps, ProbeAnswersKeeps, JudgeProbeKeeps DEF Next
<1> QED
  BY <1>1, <1>2

-----------------------------------------------------------------------------
(* Theorems *)

(* Every row keeps the shape that its table and its handler give it. *)
THEOREM DeploymentTypes == Spec => []TypeOK
<1>1. Spec => []IInv
  BY InitHolds, StepKeeps, PTL DEF Spec
<1>2. IInv => TypeOK
  BY DEF IInv
<1> QED
  BY <1>1, <1>2, PTL

(* An approval is good for one deployment, whatever is requested at once,  *)
(* fails or dies on the way (createDeploymentExecution).                   *)
THEOREM OneDeployment == Spec => []OneDeploymentPerApproval
<1>1. Spec => []IInv
  BY InitHolds, StepKeeps, PTL DEF Spec
<1>2. IInv => OneDeploymentPerApproval
  BY DEF IInv
<1> QED
  BY <1>1, <1>2, PTL

(* A release signed off as completed was merged, deployed under an         *)
(* approval, and answered a health check (createReleaseSignoff,            *)
(* buildReleaseChecklist).                                                 *)
THEOREM CompletedIsHealthy == Spec => []CompletedWasDeployedHealthy
<1>1. Spec => []IInv
  BY InitHolds, StepKeeps, PTL DEF Spec
<1>2. IInv => CompletedWasDeployedHealthy
  <2>1. SUFFICES ASSUME IInv, signoff = "completed" PROVE CompletedWasDeployedHealthy
    BY DEF CompletedWasDeployedHealthy
  <2>2. Released
    BY <2>1 DEF IInv, Signed
  <2>3. PICK h \in 1..Len(probes) : probes[h].status = "healthy"
    BY <2>2 DEF Released
  <2>4. executions[probes[h].execution].status = "succeeded"
        /\ probes[h].execution \in 1..Len(executions)
    BY <2>1 DEF IInv, Linked, Probed
  <2>5. approvals[executions[probes[h].execution].approval].decision = "approved"
    BY <2>1, <2>4 DEF IInv, Linked, Granted
  <2> QED
    BY <2>2, <2>3, <2>4, <2>5 DEF Released, CompletedWasDeployedHealthy
<1> QED
  BY <1>1, <1>2, PTL

-----------------------------------------------------------------------------
(* A health policy result and the execution it is about *)

(* A health check of the execution that its handler has not finished. *)
Probing(e) == \E h \in ProbesOf(e) : probes[h].step # "done"

(* The result is about an execution whose script has ended; it says what   *)
(* an evaluation would find now, unless one was lost or is still to come.  *)
PolicyIsCurrent ==
  policy.status # "none" /\ policy.execution # 0 =>
    /\ policy.execution \in 1..Len(executions)
    /\ executions[policy.execution].step # "script"
    /\ policy.execution \notin unjudged /\ ~Probing(policy.execution)
         => policy.status = Judgement(policy.execution)

LEMMA ProbesAreRows ==
  ASSUME TypeOK, NEW e
  PROVE  /\ ProbesOf(e) \in SUBSET (1..Len(probes)) /\ Len(probes) \in Nat
         /\ ProbesOf(e) # {} => LatestProbe(e) \in ProbesOf(e)
<1>1. ProbesOf(e) \in SUBSET (1..Len(probes)) /\ Len(probes) \in Nat
  BY Shapes DEF ProbesOf
<1> QED
  BY <1>1, LastOf DEF LatestProbe

(* The newest of some rows is the one that no other comes after. *)
LEMMA LastIs ==
  ASSUME NEW n \in Nat, NEW S \in SUBSET (1..n), NEW i \in S, \A j \in S : j <= i
  PROVE  Last(S) = i
<1>1. \A k \in S : (\A j \in S : j <= k) => k = i
  BY SMT
<1> QED
  BY <1>1 DEF Last

(* What is found of an execution changes with its own rows only. *)
LEMMA SameVerdict ==
  ASSUME TypeOK, NEW e,
         executions'[e].status = executions[e].status,
         InProduction(e)' <=> InProduction(e),
         ProbesOf(e)' = ProbesOf(e),
         \A h \in ProbesOf(e) : probes'[h].status = probes[h].status
  PROVE  Judgement(e)' = Judgement(e)
<1>1. LatestProbe(e)' = LatestProbe(e)
  BY DEF LatestProbe
<1>2. ProbesOf(e) # {} => probes'[LatestProbe(e)].status = probes[LatestProbe(e)].status
  BY ProbesAreRows
<1> QED
  BY <1>1, <1>2 DEF Judgement

(* The result stays, and so does what it is about. *)
LEMMA StaysCurrent ==
  ASSUME IInv, PolicyIsCurrent, policy' = policy,
         policy.status # "none", policy.execution # 0,
         policy.execution \in unjudged => policy.execution \in unjudged',
         policy.execution \in 1..Len(executions'),
         executions'[policy.execution].step # "script",
         executions'[policy.execution].status = executions[policy.execution].status,
         InProduction(policy.execution)' <=> InProduction(policy.execution),
         \/ policy.execution \in unjudged'
         \/ Probing(policy.execution)'
         \/ /\ ProbesOf(policy.execution)' = ProbesOf(policy.execution)
            /\ \A h \in ProbesOf(policy.execution) :
                 /\ probes'[h].status = probes[h].status
                 /\ probes'[h].step # "done" \/ probes[h].step = "done"
  PROVE  PolicyIsCurrent'
<1> DEFINE e == policy.execution
<1>1. CASE e \in unjudged'
  BY <1>1 DEF PolicyIsCurrent
<1>2. CASE Probing(e)'
  BY <1>2 DEF PolicyIsCurrent
<1>3. CASE /\ ProbesOf(e)' = ProbesOf(e)
           /\ \A h \in ProbesOf(e) :
                 /\ probes'[h].status = probes[h].status
                 /\ probes'[h].step # "done" \/ probes[h].step = "done"
  <2>1. Probing(e) => Probing(e)'
    BY <1>3 DEF Probing
  <2>2. Judgement(e)' = Judgement(e)
    BY <1>3, SameVerdict DEF IInv
  <2>3. e \notin unjudged' /\ ~Probing(e)' => policy.status = Judgement(e)'
    BY <2>1, <2>2 DEF PolicyIsCurrent
  <2> QED
    BY <2>3 DEF PolicyIsCurrent
<1> QED
  BY <1>1, <1>2, <1>3

(* An execution is judged, and nothing it is judged by changes. *)
LEMMA JudgedIsCurrent ==
  ASSUME IInv, NEW e \in 1..Len(executions), Judges(e),
         executions[e].step # "script",
         e \in 1..Len(executions'),
         executions'[e].step # "script",
         executions'[e].status = executions[e].status,
         InProduction(e)' <=> InProduction(e),
         ProbesOf(e)' = ProbesOf(e),
         \A h \in ProbesOf(e) : probes'[h].status = probes[h].status
  PROVE  PolicyIsCurrent'
<1>1. Judgement(e)' = Judgement(e)
  BY SameVerdict DEF IInv
<1>2. policy' = [execution |-> e, status |-> Judgement(e)]
  BY DEF Judges
<1>3. policy'.execution = e /\ policy'.status = Judgement(e)'
  BY <1>1, <1>2
<1> QED
  BY <1>3 DEF PolicyIsCurrent

(* The environment of an execution, when tables only grow. *)
LEMMA SameEnvironment ==
  ASSUME IInv, NEW e \in 1..Len(executions),
         executions'[e].approval = executions[e].approval,
         \A a \in 1..Len(approvals) : approvals'[a].check = approvals[a].check,
         \A c \in 1..Len(checks) : checks'[c].env = checks[c].env,
         \A a \in 1..Len(approvals) : approvals[a].check \in 1..Len(checks)
  PROVE  InProduction(e)' <=> InProduction(e)
<1>1. executions[e].approval \in 1..Len(approvals)
  BY DEF IInv, Linked, Granted
<1> QED
  BY <1>1 DEF InProduction, EnvOf

(* Every approval is of a readiness check that is there. *)
Checked == \A a \in 1..Len(approvals) : approvals[a].check \in 1..Len(checks)

(* Readiness checks and approvals are only added. *)
Growing ==
  /\ \A a \in 1..Len(approvals) : approvals'[a].check = approvals[a].check
  /\ \A c \in 1..Len(checks) : checks'[c].env = checks[c].env

LEMMA SameProduction ==
  ASSUME IInv, Checked, Growing, NEW e \in 1..Len(executions),
         executions'[e].approval = executions[e].approval
  PROVE  InProduction(e)' <=> InProduction(e)
  BY SameEnvironment DEF Checked, Growing

(* A step that leaves the executions, the health checks and the result. *)
LEMMA OtherTables ==
  ASSUME IInv, Checked, PolicyIsCurrent, Growing,
         UNCHANGED <<executions, probes, policy, unjudged>>
  PROVE  PolicyIsCurrent'
<1> SUFFICES ASSUME policy.status # "none", policy.execution # 0
             PROVE  PolicyIsCurrent'
  BY DEF PolicyIsCurrent
<1> DEFINE e == policy.execution
<1>1. e \in 1..Len(executions) /\ executions[e].step # "script"
  BY DEF PolicyIsCurrent
<1>2. InProduction(e)' <=> InProduction(e)
  BY <1>1, SameProduction
<1>3. ProbesOf(e)' = ProbesOf(e)
  BY DEF ProbesOf
<1> QED
  BY <1>1, <1>2, <1>3, StaysCurrent

LEMMA AddingKeeps ==
  ASSUME IInv, Checked, PolicyIsCurrent,
         \/ Govern \/ Publish \/ EvaluateChecklist
         \/ \E decision \in Decisions : SignOff(decision)
         \/ \E env \in Environments : CheckReadiness(env)
         \/ \E c \in 1..Len(checks) :
              RejectDeployment(c) \/ \E rationale \in BOOLEAN : ApproveDeployment(c, rationale)
         \/ UNCHANGED vars
  PROVE  Checked' /\ PolicyIsCurrent'
<1>1. UNCHANGED <<executions, probes, policy, unjudged>>
  BY DEF Govern, Publish, EvaluateChecklist, SignOff, CheckReadiness, RejectDeployment,
         ApproveDeployment, vars
<1>2. /\ Len(checks) <= Len(checks') /\ Len(checks') \in Nat
      /\ \A c \in 1..Len(checks) : checks'[c].env = checks[c].env
  <2>1. CASE UNCHANGED checks
    BY <2>1, Shapes DEF IInv
  <2>2. CASE \E env \in Environments : CheckReadiness(env)
    <3>1. PICK x : checks' = Append(checks, x)
      BY <2>2 DEF CheckReadiness
    <3> QED
      BY <3>1 DEF IInv, TypeOK
  <2> QED
    BY <2>1, <2>2 DEF Govern, Publish, EvaluateChecklist, SignOff, RejectDeployment,
                      ApproveDeployment, vars
<1>3. \/ UNCHANGED approvals
      \/ \E x : /\ approvals' = Append(approvals, x) /\ x.check \in 1..Len(checks)
                /\ checks' = checks
  <2>1. CASE \E c \in 1..Len(checks) :
              RejectDeployment(c) \/ \E rationale \in BOOLEAN : ApproveDeployment(c, rationale)
    <3>1. PICK c \in 1..Len(checks) :
              RejectDeployment(c) \/ \E rationale \in BOOLEAN : ApproveDeployment(c, rationale)
      BY <2>1
    <3>2. checks' = checks
      BY <3>1 DEF RejectDeployment, ApproveDeployment
    <3>3. CASE RejectDeployment(c)
      <4> DEFINE x == [check |-> c, decision |-> "rejected", rationale |-> FALSE]
      <4>1. approvals' = Append(approvals, x) /\ x.check \in 1..Len(checks)
        BY <3>3 DEF RejectDeployment
      <4> QED
        BY <3>2, <4>1
    <3>4. ASSUME NEW rationale \in BOOLEAN, ApproveDeployment(c, rationale)
          PROVE  \E x : approvals' = Append(approvals, x) /\ x.check \in 1..Len(checks)
      <4> DEFINE x == [check |-> c, decision |-> "approved", rationale |-> rationale]
      <4>1. approvals' = Append(approvals, x) /\ x.check \in 1..Len(checks)
        BY <3>4 DEF ApproveDeployment
      <4> QED
        BY <4>1
    <3> QED
      BY <3>1, <3>2, <3>3, <3>4
  <2> QED
    BY <2>1 DEF Govern, Publish, EvaluateChecklist, SignOff, CheckReadiness, vars
<1>4. /\ \A a \in 1..Len(approvals) : approvals'[a] = approvals[a]
      /\ Checked'
  <2>1. CASE UNCHANGED approvals
    BY <1>2, <2>1, Shapes DEF IInv, Checked
  <2>2. CASE \E x : /\ approvals' = Append(approvals, x) /\ x.check \in 1..Len(checks)
                    /\ checks' = checks
    <3>1. PICK x : /\ approvals' = Append(approvals, x) /\ x.check \in 1..Len(checks)
                     /\ checks' = checks
      BY <2>2
    <3>2. /\ Len(approvals') = Len(approvals) + 1
          /\ \A a \in 1..Len(approvals) : approvals'[a] = approvals[a]
          /\ approvals'[Len(approvals) + 1] = x
      BY <3>1 DEF IInv, TypeOK
    <3>3. \A a \in 1..Len(approvals') : a \in 1..Len(approvals) \/ a = Len(approvals) + 1
      BY <3>2, Shapes DEF IInv
    <3> QED
      BY <3>1, <3>2, <3>3 DEF Checked
  <2> QED
    BY <1>3, <2>1, <2>2
<1> QED
  BY <1>1, <1>2, <1>4, OtherTables DEF Growing

(* A new row comes behind the result's execution, and is not about it. *)
LEMMA ExecuteKeepsCurrent ==
  ASSUME IInv, Checked, PolicyIsCurrent, NEW a \in 1..Len(approvals), Execute(a)
  PROVE  PolicyIsCurrent'
<1>0. UNCHANGED <<checks, approvals, probes, policy, unjudged>>
  BY DEF Execute
<1>1. PICK x : executions' = Append(executions, x)
  BY DEF Execute
<1>2. Len(executions') = Len(executions) + 1 /\ Len(executions) \in Nat
      /\ \A e \in 1..Len(executions) : executions'[e] = executions[e]
  BY <1>1, Shapes DEF IInv, TypeOK
<1> SUFFICES ASSUME policy.status # "none", policy.execution # 0
             PROVE  PolicyIsCurrent'
  BY <1>0 DEF PolicyIsCurrent
<1> DEFINE e == policy.execution
<1>3. e \in 1..Len(executions) /\ executions[e].step # "script"
  BY DEF PolicyIsCurrent
<1>4. InProduction(e)' <=> InProduction(e)
  BY <1>0, <1>2, <1>3, SameProduction DEF Growing
<1>5. ProbesOf(e)' = ProbesOf(e)
  BY <1>0 DEF ProbesOf
<1>6. executions'[e] = executions[e] /\ e \in 1..Len(executions')
  BY <1>2, <1>3
<1> QED
  BY <1>0, <1>3, <1>4, <1>5, <1>6, StaysCurrent

LEMMA ScriptKeepsCurrent ==
  ASSUME IInv, Checked, PolicyIsCurrent, NEW f \in 1..Len(executions),
         ScriptEnds(f) \/ ScriptThrows(f)
  PROVE  PolicyIsCurrent'
<1>0. UNCHANGED <<checks, approvals, probes, policy, unjudged>> /\ executions[f].step = "script"
  BY DEF ScriptEnds, ScriptThrows
<1>1. Len(executions') = Len(executions)
      /\ \A e \in 1..Len(executions) : e # f => executions'[e] = executions[e]
  <2>1. PICK status, step :
          executions' = [executions EXCEPT ![f].status = status, ![f].step = step]
    BY DEF ScriptEnds, ScriptThrows
  <2>2. executions' = [executions EXCEPT ![f] =
                         [executions[f] EXCEPT !.status = status, !.step = step]]
    BY <2>1 DEF IInv, TypeOK
  <2>3. \A x : LET t == [executions EXCEPT ![f] = x]
               IN /\ Len(t) = Len(executions)
                  /\ \A e \in 1..Len(executions) : e # f => t[e] = executions[e]
    BY DEF IInv, TypeOK
  <2> QED
    BY <2>2, <2>3
<1> SUFFICES ASSUME policy.status # "none", policy.execution # 0
             PROVE  PolicyIsCurrent'
  BY <1>0 DEF PolicyIsCurrent
<1> DEFINE e == policy.execution
<1>3. e \in 1..Len(executions) /\ executions[e].step # "script" /\ e # f
  BY <1>0 DEF PolicyIsCurrent
<1>6. executions'[e] = executions[e] /\ e \in 1..Len(executions')
  BY <1>1, <1>3
<1>4. InProduction(e)' <=> InProduction(e)
  BY <1>0, <1>6, <1>3, SameProduction DEF Growing
<1>5. ProbesOf(e)' = ProbesOf(e)
  BY <1>0 DEF ProbesOf
<1> QED
  BY <1>0, <1>3, <1>4, <1>5, <1>6, StaysCurrent

LEMMA JudgeExecutionKeepsCurrent ==
  ASSUME IInv, Checked, PolicyIsCurrent, NEW f \in 1..Len(executions), JudgeExecution(f)
  PROVE  PolicyIsCurrent'
<1>0. UNCHANGED <<checks, approvals, probes>> /\ executions[f].step = "refresh"
  BY DEF JudgeExecution
<1>1. /\ Len(executions') = Len(executions)
      /\ \A e \in 1..Len(executions) : /\ executions'[e].status = executions[e].status
                                       /\ executions'[e].approval = executions[e].approval
                                       /\ executions[e].step # "script"
                                            => executions'[e].step # "script"
  BY Shapes DEF IInv, TypeOK, JudgeExecution, Executions
<1>2. \A e \in 1..Len(executions) : InProduction(e)' <=> InProduction(e)
  BY <1>0, <1>1, SameProduction DEF Growing
<1>3. \A e : ProbesOf(e)' = ProbesOf(e)
  BY <1>0 DEF ProbesOf
<1>4. CASE Judges(f)
  BY <1>0, <1>1, <1>2, <1>3, <1>4, JudgedIsCurrent
<1>5. CASE unjudged' = unjudged \cup {f} /\ UNCHANGED policy
  <2> SUFFICES ASSUME policy.status # "none", policy.execution # 0
               PROVE  PolicyIsCurrent'
    BY <1>5 DEF PolicyIsCurrent
  <2> DEFINE e == policy.execution
  <2>1. e \in 1..Len(executions) /\ executions[e].step # "script"
    BY DEF PolicyIsCurrent
  <2>2. e \in unjudged => e \in unjudged'
    BY <1>5
  <2> QED
    BY <1>0, <1>1, <1>2, <1>3, <1>5, <2>1, <2>2, StaysCurrent
<1> QED
  BY <1>4, <1>5 DEF JudgeExecution

(* A health check starts: its execution is no longer judged. *)
LEMMA CheckHealthKeepsCurrent ==
  ASSUME IInv, Checked, PolicyIsCurrent, NEW f \in 1..Len(executions), CheckHealth(f)
  PROVE  PolicyIsCurrent'
<1>0. UNCHANGED <<checks, approvals, executions, policy, unjudged>>
  BY DEF CheckHealth
<1> DEFINE x == [execution |-> f, status |-> "running", step |-> "answer"]
           n == Len(probes)
<1>1. probes' = Append(probes, x)
  BY DEF CheckHealth
<1>2. /\ Len(probes') = n + 1 /\ n \in Nat
      /\ \A h \in 1..n : probes'[h] = probes[h]
      /\ probes'[n + 1] = x
  BY <1>1 DEF IInv, TypeOK
<1> SUFFICES ASSUME policy.status # "none", policy.execution # 0
             PROVE  PolicyIsCurrent'
  BY <1>0 DEF PolicyIsCurrent
<1> DEFINE e == policy.execution
<1>3. e \in 1..Len(executions) /\ executions[e].step # "script"
  BY DEF PolicyIsCurrent
<1>4. InProduction(e)' <=> InProduction(e)
  BY <1>0, <1>3, SameProduction DEF Growing
<1>5. CASE e = f
  <2>1. n + 1 \in ProbesOf(e)' /\ probes'[n + 1].step # "done"
    BY <1>0, <1>2, <1>5 DEF ProbesOf
  <2>2. Probing(e)'
    BY <2>1 DEF Probing
  <2> QED
    BY <1>0, <1>3, <1>4, <2>2, StaysCurrent
<1>6. CASE e # f
  <2>1. ProbesOf(e)' = ProbesOf(e)
    BY <1>0, <1>2, <1>6 DEF ProbesOf
  <2>2. \A h \in ProbesOf(e) : probes'[h] = probes[h]
    BY <1>2 DEF ProbesOf
  <2> QED
    BY <1>0, <1>3, <1>4, <2>1, <2>2, StaysCurrent
<1> QED
  BY <1>5, <1>6

(* One health check is written anew. *)
LEMMA ProbeRows ==
  ASSUME TypeOK, NEW h \in 1..Len(probes), ProbeAnswers(h) \/ JudgeProbe(h)
  PROVE  /\ Len(probes') = Len(probes)
         /\ \A g \in 1..Len(probes) : /\ probes'[g].execution = probes[g].execution
                                      /\ g # h => probes'[g] = probes[g]
         /\ \A e : ProbesOf(e)' = ProbesOf(e)
         /\ ProbeAnswers(h) => probes'[h].step = "refresh"
         /\ JudgeProbe(h) => probes'[h].status = probes[h].status
<1>1. probes[h] \in Probes
  BY Shapes
<1>2. PICK status, step :
        /\ probes' = [probes EXCEPT ![h].status = status, ![h].step = step]
        /\ ProbeAnswers(h) => step = "refresh"
        /\ JudgeProbe(h) => status = probes[h].status
  <2>1. CASE ProbeAnswers(h) /\ ~JudgeProbe(h)
    BY <2>1 DEF ProbeAnswers
  <2>2. CASE JudgeProbe(h)
    <3>1. probes' = [probes EXCEPT ![h].status = probes[h].status, ![h].step = "done"]
      <4>1. probes' = [probes EXCEPT ![h] = [probes[h] EXCEPT !.step = "done"]]
        BY <2>2 DEF JudgeProbe
      <4>2. [probes[h] EXCEPT !.step = "done"]
              = [probes[h] EXCEPT !.status = probes[h].status, !.step = "done"]
        BY <1>1 DEF Probes
      <4> QED
        BY <4>1, <4>2 DEF TypeOK
    <3>2. ~ProbeAnswers(h)
      BY <2>2 DEF ProbeAnswers, JudgeProbe
    <3> QED
      BY <3>1, <3>2
  <2> QED
    BY <2>1, <2>2
<1> DEFINE x == [probes[h] EXCEPT !.status = status, !.step = step]
<1>3. probes' = [probes EXCEPT ![h] = x]
  BY <1>2 DEF TypeOK
<1>4. x.execution = probes[h].execution /\ x.step = step /\ x.status = status
  BY <1>1 DEF Probes
<1> HIDE DEF x
<1>5. /\ Len(probes') = Len(probes)
      /\ \A g \in 1..Len(probes) : g # h => probes'[g] = probes[g]
      /\ probes'[h] = x
  BY <1>3 DEF TypeOK
<1>6. \A g \in 1..Len(probes) : probes'[g].execution = probes[g].execution
  BY <1>4, <1>5
<1>7. \A e : ProbesOf(e)' = ProbesOf(e)
  BY <1>5, <1>6 DEF ProbesOf
<1> QED
  BY <1>2, <1>4, <1>5, <1>6, <1>7

LEMMA ProbeAnswersKeepsCurrent ==
  ASSUME IInv, Checked, PolicyIsCurrent, NEW h \in 1..Len(probes), ProbeAnswers(h)
  PROVE  PolicyIsCurrent'
<1>0. UNCHANGED <<checks, approvals, executions, policy, unjudged>>
  BY DEF ProbeAnswers
<1>1. /\ \A g \in 1..Len(probes) : g # h => probes'[g] = probes[g]
      /\ \A e : ProbesOf(e)' = ProbesOf(e)
      /\ probes'[h].step = "refresh"
  BY ProbeRows DEF IInv
<1> SUFFICES ASSUME policy.status # "none", policy.execution # 0
             PROVE  PolicyIsCurrent'
  BY <1>0 DEF PolicyIsCurrent
<1> DEFINE e == policy.execution
<1>3. e \in 1..Len(executions) /\ executions[e].step # "script"
  BY DEF PolicyIsCurrent
<1>4. InProduction(e)' <=> InProduction(e)
  BY <1>0, <1>3, SameProduction DEF Growing
<1>5. CASE h \in ProbesOf(e)
  <2>1. Probing(e)'
    BY <1>0, <1>1, <1>5 DEF Probing
  <2> QED
    BY <1>0, <1>3, <1>4, <2>1, StaysCurrent
<1>6. CASE h \notin ProbesOf(e)
  <2>1. \A g \in ProbesOf(e) : probes'[g] = probes[g]
    BY <1>1, <1>6 DEF ProbesOf
  <2> QED
    BY <1>0, <1>1, <1>3, <1>4, <2>1, StaysCurrent
<1> QED
  BY <1>5, <1>6

(* The answer of a health check is judged, or the evaluation is lost. *)
LEMMA JudgeProbeKeepsCurrent ==
  ASSUME IInv, Checked, PolicyIsCurrent, NEW h \in 1..Len(probes), JudgeProbe(h)
  PROVE  PolicyIsCurrent'
<1> DEFINE f == probes[h].execution
<1>0. UNCHANGED <<checks, approvals, executions>>
  BY DEF JudgeProbe
<1>1. /\ \A g \in 1..Len(probes) : g # h => probes'[g] = probes[g]
      /\ \A e : ProbesOf(e)' = ProbesOf(e)
      /\ probes'[h].status = probes[h].status
  BY ProbeRows DEF IInv
<1>2. f \in 1..Len(executions) /\ executions[f].status = "succeeded"
  BY DEF IInv, Linked, Probed
<1>3. executions[f].step # "script"
  BY <1>2 DEF IInv, Linked, Granted
<1>4. \A e \in 1..Len(executions) : InProduction(e)' <=> InProduction(e)
  BY <1>0, SameProduction DEF Growing
<1>5. \A e : \A g \in ProbesOf(e) : probes'[g].status = probes[g].status
  BY <1>1 DEF ProbesOf
<1>6. \/ Judges(f)
      \/ unjudged' = unjudged \cup {f} /\ UNCHANGED policy
  BY DEF JudgeProbe
<1> HIDE DEF f
<1>7. CASE Judges(f)
  BY <1>0, <1>1, <1>2, <1>3, <1>4, <1>5, <1>7, JudgedIsCurrent
<1>8. CASE unjudged' = unjudged \cup {f} /\ UNCHANGED policy
  <2> SUFFICES ASSUME policy.status # "none", policy.execution # 0
               PROVE  PolicyIsCurrent'
    BY <1>8 DEF PolicyIsCurrent
  <2> DEFINE e == policy.execution
  <2>1. e \in 1..Len(executions) /\ executions[e].step # "script"
    BY DEF PolicyIsCurrent
  <2>2. CASE e = f
    BY <1>0, <1>4, <1>8, <2>1, <2>2, StaysCurrent
  <2>3. CASE e # f
    <3>1. h \notin ProbesOf(e)
      BY <2>3 DEF ProbesOf, f
    <3>2. \A g \in ProbesOf(e) : probes'[g] = probes[g]
      BY <1>1, <3>1 DEF ProbesOf
    <3> QED
      BY <1>0, <1>1, <1>4, <1>8, <2>1, <3>2, StaysCurrent
  <2> QED
    BY <2>2, <2>3
<1> QED
  BY <1>6, <1>7, <1>8

LEMMA EvaluateHealthPolicyKeepsCurrent ==
  ASSUME IInv, Checked, PolicyIsCurrent, EvaluateHealthPolicy
  PROVE  PolicyIsCurrent'
<1>0. UNCHANGED <<checks, approvals, executions, probes>>
  BY DEF EvaluateHealthPolicy
<1>1. CASE Succeeded = {}
  BY <1>1 DEF EvaluateHealthPolicy, PolicyIsCurrent
<1>2. CASE Succeeded # {}
  <2>0. PICK f : f = Last(Succeeded)
    OBVIOUS
  <2>1. f \in Succeeded /\ Judges(f)
    <3>1. Succeeded \in SUBSET (1..Len(executions)) /\ Len(executions) \in Nat
      BY Shapes DEF Succeeded, IInv
    <3> QED
      BY <1>2, <2>0, <3>1, LastOf DEF EvaluateHealthPolicy
  <2>2. f \in 1..Len(executions) /\ executions[f].step # "script"
    BY <2>1 DEF Succeeded, IInv, Linked, Granted
  <2>3. InProduction(f)' <=> InProduction(f)
    BY <1>0, <2>2, SameProduction DEF Growing
  <2>4. ProbesOf(f)' = ProbesOf(f)
    BY <1>0 DEF ProbesOf
  <2> QED
    BY <1>0, <2>1, <2>2, <2>3, <2>4, JudgedIsCurrent
<1> QED
  BY <1>1, <1>2

(* A death takes the evaluations that were still to come with it. *)
LEMMA CrashKeepsCurrent ==
  ASSUME IInv, Checked, PolicyIsCurrent, Crash
  PROVE  PolicyIsCurrent'
<1>0. UNCHANGED <<checks, approvals, policy>>
  BY DEF Crash
<1>1. /\ Len(executions') = Len(executions)
      /\ \A e \in 1..Len(executions) : /\ executions'[e].status = executions[e].status
                                       /\ executions'[e].approval = executions[e].approval
                                       /\ executions'[e].step = "done"
  <2>1. executions' = [e \in 1..Len(executions) |-> [executions[e] EXCEPT !.step = "done"]]
    BY DEF Crash
  <2>2. \A e \in 1..Len(executions) : executions[e] \in Executions
    BY Shapes DEF IInv
  <2>3. Len(executions') = Len(executions)
    BY <2>1, <2>2, Rewritten, Shapes DEF IInv, Executions, TypeOK
  <2> QED
    BY <2>1, <2>2, <2>3 DEF Executions
<1>2. /\ Len(probes') = Len(probes)
      /\ \A h \in 1..Len(probes) : /\ probes'[h].status = probes[h].status
                                   /\ probes'[h].execution = probes[h].execution
                                   /\ probes'[h].step = "done"
  <2>1. probes' = [h \in 1..Len(probes) |-> [probes[h] EXCEPT !.step = "done"]]
    BY DEF Crash
  <2>2. \A h \in 1..Len(probes) : probes[h] \in Probes
    BY Shapes DEF IInv
  <2>3. Len(probes') = Len(probes)
    BY <2>1, <2>2, Rewritten, Shapes DEF IInv, Probes, TypeOK
  <2> QED
    BY <2>1, <2>2, <2>3 DEF Probes
<1>3. \A e : ProbesOf(e)' = ProbesOf(e)
  BY <1>2 DEF ProbesOf
<1> SUFFICES ASSUME policy.status # "none", policy.execution # 0
             PROVE  PolicyIsCurrent'
  BY <1>0 DEF PolicyIsCurrent
<1> DEFINE e == policy.execution
<1>4. e \in 1..Len(executions) /\ executions[e].step # "script"
  BY DEF PolicyIsCurrent
<1>5. InProduction(e)' <=> InProduction(e)
  BY <1>0, <1>1, <1>4, SameProduction DEF Growing
<1>6. e \in unjudged => e \in unjudged'
  BY DEF Crash
<1>7. CASE Probing(e)
  <2>1. e \in unjudged'
    BY <1>7 DEF Crash, Probing, ProbesOf
  <2> QED
    BY <1>0, <1>1, <1>4, <1>5, <2>1, StaysCurrent
<1>8. CASE ~Probing(e)
  <2>1. \A h \in ProbesOf(e) : probes[h].step = "done" /\ probes'[h].status = probes[h].status
    BY <1>2, <1>8 DEF Probing, ProbesOf
  <2> QED
    BY <1>0, <1>1, <1>3, <1>4, <1>5, <1>6, <2>1, StaysCurrent
<1> QED
  BY <1>7, <1>8

LEMMA CurrentStays ==
  ASSUME IInv, Checked, PolicyIsCurrent, [Next]_vars
  PROVE  Checked' /\ PolicyIsCurrent'
<1>1. ASSUME NEW a \in 1..Len(approvals), Execute(a) PROVE Checked'
  BY <1>1 DEF Execute, Checked
<1>2. ASSUME NEW e \in 1..Len(executions),
             ScriptEnds(e) \/ ScriptThrows(e) \/ JudgeExecution(e) \/ CheckHealth(e)
      PROVE  Checked'
  BY <1>2 DEF ScriptEnds, ScriptThrows, JudgeExecution, CheckHealth, Checked
<1>3. ASSUME NEW h \in 1..Len(probes), ProbeAnswers(h) \/ JudgeProbe(h) PROVE Checked'
  BY <1>3 DEF ProbeAnswers, JudgeProbe, Checked
<1>4. ASSUME EvaluateHealthPolicy \/ Crash PROVE Checked'
  BY <1>4 DEF EvaluateHealthPolicy, Crash, Checked
<1> QED
  BY <1>1, <1>2, <1>3, <1>4, AddingKeeps, ExecuteKeepsCurrent, ScriptKeepsCurrent,
     JudgeExecutionKeepsCurrent, CheckHealthKeepsCurrent, ProbeAnswersKeepsCurrent,
     JudgeProbeKeepsCurrent, EvaluateHealthPolicyKeepsCurrent, CrashKeepsCurrent DEF Next

(* A health policy result says what the newest health check of its         *)
(* execution found, in whatever order the checks of it were answered and   *)
(* judged (createDeploymentHealthCheck, evaluateDeploymentHealthPolicy).   *)
THEOREM PolicyFollowsProbes == Spec => []PolicyFollowsNewestProbe
<1>1. Spec => []IInv
  BY InitHolds, StepKeeps, PTL DEF Spec
<1>2. Init => Checked /\ PolicyIsCurrent
  BY DEF Init, Checked, PolicyIsCurrent
<1>3. IInv /\ Checked /\ PolicyIsCurrent /\ [Next]_vars => Checked' /\ PolicyIsCurrent'
  BY CurrentStays
<1>4. IInv /\ PolicyIsCurrent => PolicyFollowsNewestProbe
  <2> SUFFICES ASSUME IInv, PolicyIsCurrent,
                      policy.status # "none", policy.execution # 0,
                      policy.execution \notin unjudged, ~InFlight(policy.execution),
                      NEW h \in ProbesOf(policy.execution),
                      \A g \in ProbesOf(policy.execution) : g <= h,
                      NEW status \in {"healthy", "unhealthy"}
               PROVE  probes[h].status = status <=> policy.status = status
    BY DEF PolicyFollowsNewestProbe
  <2> DEFINE e == policy.execution
  <2>1. LatestProbe(e) = h
    BY ProbesAreRows, LastIs DEF LatestProbe, IInv
  <2>2. executions[e].status = "succeeded"
    BY DEF IInv, Linked, Probed, ProbesOf
  <2>3. policy.status = Judgement(e)
    BY DEF PolicyIsCurrent, InFlight, Probing
  <2> QED
    BY <2>1, <2>2, <2>3 DEF Judgement
<1> QED
  BY <1>1, <1>2, <1>3, <1>4, PTL DEF Spec

-----------------------------------------------------------------------------
(* The run page *)

(* What the command center asks of each step. *)
Asks(s) ==
  <<G!AtBranch(s), G!AtWorkerPlan(s), G!AtQualityGates(s), G!AtEvidence(s), G!AtReplay(s),
    G!AtPolicy(s), G!AtReview(s), G!AtApproval(s), G!AtPr(s), G!AtMerge(s),
    G!AtDeployment(s), G!AtHealth(s), G!AtChecklist(s), TRUE>>

(* Of all predecessors of a step the command center asked first. *)
LEMMA StageFound ==
  ASSUME NEW s
  PROVE  \E k \in 1..14 : /\ G!CurrentPlace(s) = k /\ G!CurrentStage(s) = G!Steps[k]
                          /\ Asks(s)[k] /\ \A j \in 1..(k - 1) : ~Asks(s)[j]
<1> DEFINE Is(k) == Asks(s)[k] /\ \A j \in 1..(k - 1) : ~Asks(s)[j]
           None(k) == \A j \in 1..k : ~Asks(s)[j]
<1>1. Asks(s)[14] /\ None(0)
  BY DEF Asks
<1>2. ASSUME NEW k \in 0..13, None(k), ~Asks(s)[k + 1]
      PROVE  None(k + 1)
  <2>1. \A j \in 1..(k + 1) : j \in 1..k \/ j = k + 1
    OBVIOUS
  <2> QED
    BY <1>2, <2>1
<1>3. ASSUME NEW k \in 0..13, None(k), Asks(s)[k + 1]
      PROVE  Is(k + 1)
  BY <1>3
<1> HIDE DEF Is, None
<1>4. \A k \in 0..13 : None(k) => Is(k + 1) \/ None(k + 1)
  BY <1>2, <1>3
<1>5. None(14) => FALSE
  BY <1>1 DEF None
<1>6. \E k \in 1..14 : Is(k)
  <2>1. /\ Is(1) \/ None(1)
        /\ None(1) => Is(2) \/ None(2)
        /\ None(2) => Is(3) \/ None(3)
        /\ None(3) => Is(4) \/ None(4)
        /\ None(4) => Is(5) \/ None(5)
        /\ None(5) => Is(6) \/ None(6)
        /\ None(6) => Is(7) \/ None(7)
    BY <1>1, <1>4
  <2>2. /\ None(7) => Is(8) \/ None(8)
        /\ None(8) => Is(9) \/ None(9)
        /\ None(9) => Is(10) \/ None(10)
        /\ None(10) => Is(11) \/ None(11)
        /\ None(11) => Is(12) \/ None(12)
        /\ None(12) => Is(13) \/ None(13)
        /\ None(13) => Is(14) \/ None(14)
    BY <1>4
  <2> QED
    BY <1>5, <2>1, <2>2
<1> DEFINE first == CHOOSE i \in 1..Len(Asks(s)) :
                      Asks(s)[i] /\ \A j \in 1..(i - 1) : ~Asks(s)[j]
<1>7. Len(Asks(s)) = 14
  BY DEF Asks
<1>8. first \in 1..14 /\ Is(first)
  BY <1>6, <1>7 DEF Is
<1>9. G!CurrentPlace(s) = first
  BY DEF G!CurrentPlace, Asks
<1> HIDE DEF first
<1> QED
  BY <1>8, <1>9 DEF Is, G!CurrentStage

(* The summary of a run, field by field. *)
LEMMA SummaryFields ==
  ASSUME TypeOK, NEW s, s = Summary
  PROVE  /\ s.branch = TRUE /\ s.execution = "executed" /\ s.validation = "valid"
         /\ s.gates.passed = 1 /\ s.gates.failed = 0 /\ s.gates.skipped = 0 /\ s.can = TRUE
         /\ s.status = IF standing.completed THEN "completed" ELSE "waiting_for_approval"
         /\ s.stepOf = IF standing.completed THEN "approved_by_operator" ELSE "other"
         /\ s.decision = IF standing.approved THEN "approved" ELSE "none"
         /\ s.evidence = standing.evidence /\ s.replay = standing.replay
         /\ s.policy = standing.policy
         /\ s.stages.approved = IF standing.reviews = "approved" THEN 1 ELSE 0
         /\ s.stages.pending = IF standing.reviews = "pending" THEN 1 ELSE 0
         /\ s.stages.rejected = IF standing.reviews = "rejected" THEN 1 ELSE 0
         /\ s.pr = CASE published = "nothing" -> "none"
                     [] published = "pr_failed" -> "failed"
                     [] OTHER -> "pr_created"
         /\ s.merge = CASE published = "merged" -> "merged"
                        [] published = "merge_failed" -> "failed"
                        [] OTHER -> "none"
         /\ s.approval = Newest(approvals, "decision") /\ s.deployed = Newest(executions, "status")
         /\ s.probe = Newest(probes, "status") /\ s.health = policy.status
         /\ s.checklist = checklist /\ s.signoff = signoff /\ s.gated = Gated
         /\ s.approvals = Len(approvals)
  BY DEF Summary

(* The status of each step is a field of one of the three tables. *)
LEMMA StatusOf ==
  ASSUME NEW s
  PROVE  /\ \A step \in {"branch", "worker_plan", "quality_gates", "evidence"} :
              G!StepStatus(s, step) = G!PreparationStatus(s)[step]
         /\ \A step \in {"replay", "policy", "review", "approval"} :
              G!StepStatus(s, step) = G!GovernanceStatus(s)[step]
         /\ \A step \in {"pr", "merge", "deployment", "health", "checklist", "signoff"} :
              G!StepStatus(s, step) = G!ReleaseStatus(s)[step]
  BY DEF G!StepStatus, G!StatusIn, G!Stepper

Pending == {"not_started", "ready", "blocked"}

(* A review that the command center does not stop at is over. *)
LEMMA ReviewOver ==
  ASSUME TypeOK, NEW s, s = Summary, ~G!AtPolicy(s), ~G!AtReview(s)
  PROVE  G!ReviewComplete(s) /\ s.stages.rejected = 0
<1>1. /\ s.policy = standing.policy
      /\ s.stages.approved = IF standing.reviews = "approved" THEN 1 ELSE 0
      /\ s.stages.pending = IF standing.reviews = "pending" THEN 1 ELSE 0
      /\ s.stages.rejected = IF standing.reviews = "rejected" THEN 1 ELSE 0
  BY SummaryFields
<1> QED
  BY <1>1 DEF G!AtPolicy, G!AtReview, G!ReviewComplete, G!ReviewOpen, G!StageCount

(* What the command center has left behind, the stepper shows as done. *)
LEMMA PreparedBehind ==
  ASSUME TypeOK, NEW s, s = Summary
  PROVE  /\ G!StepStatus(s, "branch") \notin Pending
         /\ G!StepStatus(s, "worker_plan") \notin Pending
         /\ G!StepStatus(s, "quality_gates") \notin Pending
         /\ ~G!AtEvidence(s) => G!StepStatus(s, "evidence") \notin Pending
         /\ ~G!AtEvidence(s) /\ ~G!AtReplay(s) => G!StepStatus(s, "replay") \notin Pending
         /\ ~G!AtEvidence(s) /\ ~G!AtPolicy(s) => G!StepStatus(s, "policy") \notin Pending
<1>1. /\ s.branch = TRUE /\ s.execution = "executed"
      /\ s.gates.passed = 1 /\ s.gates.failed = 0 /\ s.gates.skipped = 0
      /\ s.replay = standing.replay /\ s.policy = standing.policy
  BY SummaryFields
<1>2. /\ standing.replay \in {"none", "passed", "warning", "failed"}
      /\ standing.policy \in {"none", "passed", "warning", "requires_review", "blocked"}
  BY DEF TypeOK, Standings
<1>3. /\ G!StepStatus(s, "branch") = "complete"
      /\ G!StepStatus(s, "worker_plan") = "complete"
      /\ G!StepStatus(s, "quality_gates") = "passed"
  <2>1. s.branch /\ ~(s.gates.failed > 0) /\ ~(s.gates.skipped > 0) /\ G!GateCount(s) # 0
    BY <1>1 DEF G!GateCount
  <2>2. /\ G!PreparationStatus(s)["branch"] = "complete"
        /\ G!PreparationStatus(s)["worker_plan"] = "complete"
        /\ G!PreparationStatus(s)["quality_gates"] = "passed"
    BY <1>1, <2>1 DEF G!PreparationStatus
  <2> QED
    BY <2>2, StatusOf
<1>4. ~G!AtEvidence(s) => G!StepStatus(s, "evidence") = "complete"
  <2>1. ASSUME s.evidence PROVE G!PreparationStatus(s)["evidence"] = "complete"
    <3>1. ~(s.gates.failed > 0)
      BY <1>1
    <3> QED
      BY <1>1, <2>1, <3>1 DEF G!PreparationStatus
  <2> QED
    BY <2>1, StatusOf DEF G!AtEvidence
<1>5. ASSUME ~G!AtEvidence(s), ~G!AtReplay(s)
      PROVE  G!StepStatus(s, "replay") \in {"passed", "warning"}
  <2>1. s.replay \in {"passed", "warning"} /\ s.evidence
    BY <1>1, <1>2, <1>5 DEF G!AtEvidence, G!AtReplay
  <2> QED
    BY <2>1, StatusOf DEF G!GovernanceStatus
<1>6. ASSUME ~G!AtEvidence(s), ~G!AtPolicy(s)
      PROVE  G!StepStatus(s, "policy") \in {"passed", "warning"}
  <2>1. s.policy \in {"passed", "warning", "requires_review"} /\ s.evidence
    BY <1>1, <1>2, <1>6 DEF G!AtEvidence, G!AtPolicy
  <2> QED
    BY <2>1, StatusOf DEF G!GovernanceStatus
<1> QED
  BY <1>3, <1>4, <1>5, <1>6 DEF Pending

LEMMA ReleasedBehind ==
  ASSUME TypeOK, NEW s, s = Summary, ~G!AtPolicy(s)
  PROVE  /\ ~G!AtReview(s) => G!StepStatus(s, "review") \notin Pending
         /\ ~G!AtReview(s) /\ ~G!AtApproval(s) => G!StepStatus(s, "approval") \notin Pending
         /\ ~G!AtApproval(s) /\ ~G!AtPr(s) => G!StepStatus(s, "pr") \notin Pending
         /\ ~G!AtPr(s) /\ ~G!AtMerge(s) => G!StepStatus(s, "merge") \notin Pending
         /\ ~G!AtMerge(s) /\ ~G!AtDeployment(s) => G!StepStatus(s, "deployment") \notin Pending
         /\ ~G!AtDeployment(s) /\ ~G!AtHealth(s) /\ "health" \notin G!Differing(s)
              => G!StepStatus(s, "health") \notin Pending
         /\ ~G!AtDeployment(s) /\ ~G!AtChecklist(s) /\ "checklist" \notin G!Differing(s)
              => G!StepStatus(s, "checklist") \notin Pending
<1>1. /\ s.health = policy.status /\ s.checklist = checklist /\ s.policy = standing.policy
  BY SummaryFields
<1>2. /\ policy.status \in {"not_checked", "needs_attention", "healthy", "unhealthy", "none"}
      /\ checklist \in {"none", "not_started", "needs_attention", "blocked", "complete"}
  BY DEF TypeOK, Policies, Judgements, Checklists
<1>3. ASSUME ~G!AtReview(s) PROVE G!StepStatus(s, "review") = "complete"
  <2>1. s.policy # "none" /\ G!ReviewComplete(s) /\ ~(s.stages.rejected > 0)
    BY ReviewOver, <1>3 DEF G!AtPolicy
  <2>2. G!GovernanceStatus(s)["review"] = "complete"
    BY <2>1 DEF G!GovernanceStatus
  <2> QED
    BY <2>2, StatusOf
<1>4. ~G!AtReview(s) /\ ~G!AtApproval(s) => G!StepStatus(s, "approval") = "complete"
  BY ReviewOver, StatusOf DEF G!GovernanceStatus, G!AtApproval
<1>5. ~G!AtApproval(s) /\ ~G!AtPr(s) => G!StepStatus(s, "pr") = "complete"
  BY StatusOf DEF G!ReleaseStatus, G!AtApproval, G!AtPr
<1>6. ~G!AtPr(s) /\ ~G!AtMerge(s) => G!StepStatus(s, "merge") = "complete"
  BY StatusOf DEF G!ReleaseStatus, G!AtPr, G!AtMerge
<1>7. ~G!AtMerge(s) /\ ~G!AtDeployment(s) => G!StepStatus(s, "deployment") = "complete"
  BY StatusOf DEF G!ReleaseStatus, G!AtMerge, G!AtDeployment
<1>8. ASSUME ~G!AtDeployment(s), ~G!AtHealth(s), "health" \notin G!Differing(s)
      PROVE  G!StepStatus(s, "health") \in {"passed", "warning"}
  <2>1. s.health \in {"healthy", "needs_attention"}
    BY <1>1, <1>2, <1>8 DEF G!AtHealth, G!Differing
  <2> QED
    BY <2>1, <1>8, StatusOf DEF G!ReleaseStatus, G!AtDeployment
<1>9. ASSUME ~G!AtDeployment(s), ~G!AtChecklist(s), "checklist" \notin G!Differing(s)
      PROVE  G!StepStatus(s, "checklist") \in {"passed", "warning"}
  <2>1. s.checklist \in {"not_started", "needs_attention", "complete"}
    BY <1>1, <1>2, <1>9 DEF G!AtChecklist, G!Differing
  <2> QED
    BY <2>1, <1>9, StatusOf DEF G!ReleaseStatus, G!AtDeployment
<1> QED
  BY <1>3, <1>4, <1>5, <1>6, <1>7, <1>8, <1>9 DEF Pending

Finished == {"complete", "passed"}

(* The step at which the command center stops is not shown as done. *)
LEMMA GovernanceAhead ==
  ASSUME TypeOK, NEW s, s = Summary
  PROVE  /\ G!AtEvidence(s) => G!StepStatus(s, "evidence") \notin Finished
         /\ ~G!AtEvidence(s) /\ G!AtReplay(s) => G!StepStatus(s, "replay") \notin Finished
         /\ ~G!AtEvidence(s) /\ G!AtPolicy(s) => G!StepStatus(s, "policy") \notin Finished
         /\ ~G!AtPolicy(s) /\ G!AtReview(s) /\ "review" \notin G!Differing(s)
              => G!StepStatus(s, "review") \notin Finished
         /\ ~G!AtPolicy(s) /\ ~G!AtReview(s) /\ G!AtApproval(s) /\ "approval" \notin G!Differing(s)
              => G!StepStatus(s, "approval") \notin Finished
<1>1. /\ s.execution = "executed" /\ s.gates.failed = 0 /\ s.can = TRUE
      /\ s.policy = standing.policy
      /\ s.stages.approved = IF standing.reviews = "approved" THEN 1 ELSE 0
      /\ s.stages.pending = IF standing.reviews = "pending" THEN 1 ELSE 0
      /\ s.stages.rejected = IF standing.reviews = "rejected" THEN 1 ELSE 0
      /\ s.status = IF standing.completed THEN "completed" ELSE "waiting_for_approval"
      /\ s.stepOf = IF standing.completed THEN "approved_by_operator" ELSE "other"
      /\ s.decision = IF standing.approved THEN "approved" ELSE "none"
  BY SummaryFields
<1>2. ASSUME G!AtEvidence(s) PROVE G!StepStatus(s, "evidence") = "ready"
  <2>1. ~s.evidence /\ ~(s.gates.failed > 0)
    BY <1>1, <1>2 DEF G!AtEvidence
  <2>2. G!PreparationStatus(s)["evidence"] = "ready"
    BY <1>1, <2>1 DEF G!PreparationStatus
  <2> QED
    BY <2>2, StatusOf
<1>3. ASSUME ~G!AtEvidence(s), G!AtReplay(s)
      PROVE  G!StepStatus(s, "replay") \in {"ready", "blocked"}
  <2>1. s.evidence /\ s.replay \in {"none", "failed"}
    BY <1>3 DEF G!AtEvidence, G!AtReplay
  <2> QED
    BY <2>1, StatusOf DEF G!GovernanceStatus
<1>4. ASSUME ~G!AtEvidence(s), G!AtPolicy(s)
      PROVE  G!StepStatus(s, "policy") \in {"ready", "blocked"}
  <2>1. s.evidence /\ s.policy \in {"none", "blocked"}
    BY <1>4 DEF G!AtEvidence, G!AtPolicy
  <2> QED
    BY <2>1, StatusOf DEF G!GovernanceStatus
<1>5. ASSUME ~G!AtPolicy(s), G!AtReview(s), "review" \notin G!Differing(s)
      PROVE  G!StepStatus(s, "review") \in {"ready", "blocked"}
  <2>1. s.policy # "none" /\ s.policy # "requires_review"
    BY <1>5 DEF G!AtPolicy, G!Differing
  <2>2. G!ReviewOpen(s)
    BY <1>1, <1>5, <2>1 DEF G!AtReview, G!NeedsGeneration, G!ReviewRequired
  <2>3. ~G!ReviewComplete(s)
    BY <1>1, <2>2 DEF G!ReviewComplete, G!ReviewOpen, G!StageCount
  <2>4. G!GovernanceStatus(s)["review"] \in {"ready", "blocked"}
    BY <2>1, <2>3 DEF G!GovernanceStatus
  <2> QED
    BY <2>4, StatusOf
<1>6. ASSUME ~G!AtPolicy(s), ~G!AtReview(s), G!AtApproval(s),
             "approval" \notin G!Differing(s)
      PROVE  G!StepStatus(s, "approval") \in {"ready", "blocked"}
  <2>1. G!ReviewComplete(s)
    BY <1>6, ReviewOver
  <2>2. ~G!Approved(s)
    BY <1>1, <1>6 DEF G!AtApproval, G!Approved, G!Differing
  <2>3. G!GovernanceStatus(s)["approval"] \in {"ready", "blocked"}
    BY <2>1, <2>2 DEF G!GovernanceStatus
  <2> QED
    BY <2>3, StatusOf
<1> QED
  BY <1>2, <1>3, <1>4, <1>5, <1>6 DEF Finished

LEMMA ReleaseAhead ==
  ASSUME TypeOK, NEW s, s = Summary
  PROVE  /\ ~G!AtApproval(s) /\ G!AtPr(s) => G!StepStatus(s, "pr") \notin Finished
         /\ ~G!AtPr(s) /\ G!AtMerge(s) => G!StepStatus(s, "merge") \notin Finished
         /\ ~G!AtMerge(s) /\ G!AtDeployment(s) => G!StepStatus(s, "deployment") \notin Finished
         /\ ~G!AtDeployment(s) /\ G!AtHealth(s) => G!StepStatus(s, "health") \notin Finished
         /\ ~G!AtDeployment(s) /\ G!AtChecklist(s) => G!StepStatus(s, "checklist") \notin Finished
<1>1. ASSUME ~G!AtApproval(s), G!AtPr(s)
      PROVE  G!StepStatus(s, "pr") \in {"ready", "blocked"}
  BY <1>1, StatusOf DEF G!ReleaseStatus, G!AtApproval, G!AtPr
<1>2. ASSUME ~G!AtPr(s), G!AtMerge(s)
      PROVE  G!StepStatus(s, "merge") \in {"ready", "blocked"}
  BY <1>2, StatusOf DEF G!ReleaseStatus, G!AtPr, G!AtMerge
<1>3. ASSUME ~G!AtMerge(s), G!AtDeployment(s)
      PROVE  G!StepStatus(s, "deployment") \in {"ready", "blocked"}
  BY <1>3, StatusOf DEF G!ReleaseStatus, G!AtMerge, G!AtDeployment
<1>4. ASSUME ~G!AtDeployment(s), G!AtHealth(s)
      PROVE  G!StepStatus(s, "health") \in {"ready", "blocked"}
  <2>1. s.deployed = "succeeded" /\ s.health \in {"none", "unhealthy"}
    BY <1>4 DEF G!AtDeployment, G!AtHealth
  <2>2. G!ReleaseStatus(s)["health"] \in {"ready", "blocked"}
    BY <2>1 DEF G!ReleaseStatus
  <2> QED
    BY <2>2, StatusOf
<1>5. ASSUME ~G!AtDeployment(s), G!AtChecklist(s)
      PROVE  G!StepStatus(s, "checklist") \in {"ready", "blocked"}
  <2>1. s.deployed = "succeeded" /\ s.checklist \in {"none", "blocked"}
    BY <1>5 DEF G!AtDeployment, G!AtChecklist
  <2>2. G!ReleaseStatus(s)["checklist"] \in {"ready", "blocked"}
    BY <2>1 DEF G!ReleaseStatus
  <2> QED
    BY <2>2, StatusOf
<1> QED
  BY <1>1, <1>2, <1>3, <1>4, <1>5 DEF Finished

(* The steps have names of their own. *)
LEMMA ViewsAgree ==
  ASSUME TypeOK
  PROVE  ReleaseViewsAgree
<1> SUFFICES ASSUME NEW s, s = Summary PROVE G!Agree(s)
  BY DEF ReleaseViewsAgree
<1>1. PICK k \in 1..14 : /\ G!CurrentPlace(s) = k
                         /\ Asks(s)[k] /\ \A j \in 1..(k - 1) : ~Asks(s)[j]
  BY StageFound
<1>2. /\ (k > 4 => ~G!AtEvidence(s)) /\ (k > 5 => ~G!AtReplay(s)) /\ (k > 6 => ~G!AtPolicy(s))
      /\ (k > 7 => ~G!AtReview(s)) /\ (k > 8 => ~G!AtApproval(s)) /\ (k > 9 => ~G!AtPr(s))
      /\ (k > 10 => ~G!AtMerge(s)) /\ (k > 11 => ~G!AtDeployment(s))
      /\ (k > 12 => ~G!AtHealth(s)) /\ (k > 13 => ~G!AtChecklist(s))
  <2>1. \A j \in 1..14 : k > j => ~Asks(s)[j]
    BY <1>1
  <2> HIDE <1>1
  <2> QED
    BY <2>1 DEF Asks
<1>3. /\ k \notin {1, 2, 3}
      /\ (k = 4 => G!AtEvidence(s)) /\ (k = 5 => G!AtReplay(s)) /\ (k = 6 => G!AtPolicy(s))
      /\ (k = 7 => G!AtReview(s)) /\ (k = 8 => G!AtApproval(s)) /\ (k = 9 => G!AtPr(s))
      /\ (k = 10 => G!AtMerge(s)) /\ (k = 11 => G!AtDeployment(s))
      /\ (k = 12 => G!AtHealth(s)) /\ (k = 13 => G!AtChecklist(s))
  <2>1. ~G!AtBranch(s) /\ ~G!AtWorkerPlan(s) /\ ~G!AtQualityGates(s)
    <3>1. /\ s.branch = TRUE /\ s.execution = "executed"
          /\ s.gates.passed = 1 /\ s.gates.failed = 0 /\ s.gates.skipped = 0
      BY SummaryFields
    <3> QED
      BY <3>1 DEF G!AtBranch, G!AtWorkerPlan, G!AtQualityGates, G!GateCount
  <2> QED
    BY <1>1, <2>1 DEF Asks
<1>4. \A j \in 1..14 : j < k /\ G!Steps[j] \notin G!Differing(s)
                         => G!StepStatus(s, G!Steps[j]) \notin Pending
  <2>1. CASE k <= 6
    BY <1>2, <2>1, PreparedBehind DEF G!Steps
  <2>2. CASE k > 6
    BY <1>2, <2>2, PreparedBehind, ReleasedBehind DEF G!Steps
  <2> QED
    BY <2>1, <2>2
<1>5. G!Steps[k] \notin G!Differing(s) \cup {"signoff"}
        => G!StepStatus(s, G!Steps[k]) \notin Finished
  BY <1>2, <1>3, GovernanceAhead, ReleaseAhead DEF G!Steps
<1>6. \A j \in 1..(k - 1) : j \in 1..14 /\ j < k
  OBVIOUS
<1>7. \A step : G!StatusIn(G!Stepper(s), step) = G!StepStatus(s, step)
  BY DEF G!StepStatus
<1> QED
  BY <1>1, <1>4, <1>5, <1>6, <1>7 DEF G!Agree, Pending, Finished

(* The command center names the first step that the stepper of the same    *)
(* page (deriveRunLifecycleSteps) has not ticked off, whatever the rest of *)
(* the Console and the release handlers have done, but for the steps that  *)
(* Differing names.                                                        *)
THEOREM ViewsOfAReleaseAgree == Spec => []ReleaseViewsAgree
<1>1. Spec => []TypeOK
  BY DeploymentTypes
<1>2. TypeOK => ReleaseViewsAgree
  BY ViewsAgree
<1> QED
  BY <1>1, <1>2, PTL

-----------------------------------------------------------------------------
(* The panels of a release *)

(* An approval that approves was given on a check that allows it. *)
Vouched ==
  \A a \in 1..Len(approvals) : approvals[a].decision = "approved" =>
    LET check == checks[approvals[a].check]
    IN  check.status # "blocked" /\ (check.status = "requires_review" => approvals[a].rationale)

(* Readiness checks and approvals stay what they are. *)
LEMMA VouchedStays ==
  ASSUME IInv, Checked, Vouched,
         Len(approvals') = Len(approvals),
         \A a \in 1..Len(approvals) : approvals'[a] = approvals[a],
         \A c \in 1..Len(checks) : checks'[c] = checks[c]
  PROVE  Vouched'
  BY DEF Vouched, Checked

LEMMA ApprovalVouched ==
  ASSUME IInv, Checked, Vouched, NEW c \in 1..Len(checks), NEW rationale \in BOOLEAN,
         ApproveDeployment(c, rationale) \/ RejectDeployment(c)
  PROVE  Vouched'
<1>1. PICK x : /\ approvals' = Append(approvals, x) /\ checks' = checks /\ x.check = c
               /\ x.decision = "approved" =>
                    checks[c].status # "blocked" /\ (checks[c].status = "requires_review" => x.rationale)
  <2>1. CASE ApproveDeployment(c, rationale)
    <3> DEFINE x == [check |-> c, decision |-> "approved", rationale |-> rationale]
    <3>1. approvals' = Append(approvals, x) /\ checks' = checks /\ Approvable(c, rationale)
      BY <2>1 DEF ApproveDeployment
    <3>2. checks[c].status # "blocked" /\ (checks[c].status = "requires_review" => x.rationale)
      BY <3>1 DEF Approvable
    <3> QED
      BY <3>1, <3>2
  <2>2. CASE RejectDeployment(c)
    <3> DEFINE x == [check |-> c, decision |-> "rejected", rationale |-> FALSE]
    <3>1. approvals' = Append(approvals, x) /\ checks' = checks
      BY <2>2 DEF RejectDeployment
    <3> QED
      BY <3>1
  <2> QED
    BY <2>1, <2>2
<1>2. /\ Len(approvals') = Len(approvals) + 1 /\ Len(approvals) \in Nat
      /\ \A a \in 1..Len(approvals) : approvals'[a] = approvals[a]
      /\ approvals'[Len(approvals) + 1] = x
  BY <1>1, Shapes DEF IInv, TypeOK
<1>3. \A a \in 1..Len(approvals') : a \in 1..Len(approvals) \/ a = Len(approvals) + 1
  BY <1>2
<1> QED
  BY <1>1, <1>2, <1>3 DEF Vouched

LEMMA VouchedKept ==
  ASSUME IInv, Checked, Vouched, [Next]_vars
  PROVE  Vouched'
<1>1. CASE UNCHANGED <<approvals, checks>>
  BY <1>1, VouchedStays
<1>2. ASSUME NEW env \in Environments, CheckReadiness(env) PROVE Vouched'
  <2>1. PICK x : checks' = Append(checks, x) /\ approvals' = approvals
    BY <1>2 DEF CheckReadiness
  <2>2. \A c \in 1..Len(checks) : checks'[c] = checks[c]
    BY <2>1 DEF IInv, TypeOK
  <2> QED
    BY <2>1, <2>2, VouchedStays
<1>3. ASSUME NEW c \in 1..Len(checks), RejectDeployment(c) PROVE Vouched'
  BY <1>3, ApprovalVouched
<1>4. ASSUME NEW c \in 1..Len(checks), NEW r \in BOOLEAN, ApproveDeployment(c, r) PROVE Vouched'
  BY <1>4, ApprovalVouched
<1>5. ASSUME NEW e \in 1..Len(executions),
             ScriptEnds(e) \/ ScriptThrows(e) \/ JudgeExecution(e) \/ CheckHealth(e)
      PROVE  UNCHANGED <<approvals, checks>>
  BY <1>5 DEF ScriptEnds, ScriptThrows, JudgeExecution, CheckHealth
<1>6. ASSUME NEW h \in 1..Len(probes), ProbeAnswers(h) \/ JudgeProbe(h)
      PROVE  UNCHANGED <<approvals, checks>>
  BY <1>6 DEF ProbeAnswers, JudgeProbe
<1>7. ASSUME \/ Govern \/ Publish \/ EvaluateHealthPolicy \/ EvaluateChecklist \/ Crash
             \/ \E decision \in Decisions : SignOff(decision)
             \/ \E a \in 1..Len(approvals) : Execute(a)
             \/ UNCHANGED vars
      PROVE  UNCHANGED <<approvals, checks>>
  BY <1>7 DEF Govern, Publish, EvaluateHealthPolicy, EvaluateChecklist, Crash, SignOff, Execute,
              vars
<1> QED
  BY <1>1, <1>2, <1>3, <1>4, <1>5, <1>6, <1>7 DEF Next

(* The last of all rows is the last of those that count it in. *)
LEMMA LastRow ==
  ASSUME NEW n \in Nat, NEW S \in SUBSET (1..n), n \in S
  PROVE  Last(S) = n
<1>1. \A j \in S : j <= n
  OBVIOUS
<1> QED
  BY <1>1, LastIs

-----------------------------------------------------------------------------
(* Where the command center leads *)

Gates == {"deployment_approval", "deployment_execution"}

LEMMA GatesStop ==
  ASSUME NEW action \in Gates, ~Blocked(action), HardGates
  PROVE  ReplayPassed(standing) /\ ~GateStopsDeployment
<1>1. ~GateStopsDeployment
  BY DEF Blocked, Gates
<1> QED
  BY <1>1 DEF GateStopsDeployment, HardBlocked

LEMMA BannerBlocked ==
  ASSUME NEW action, Blocked(action)
  PROVE  Banner(action) = "blocked"
  BY DEF Banner, Blocked

(* At the deployment, and past its gate, nothing blocks the readiness but  *)
(* what the command center overlooks.                                      *)
LEMMA ReadyToDeploy ==
  ASSUME TypeOK, ~Overlooked, NEW s, s = Summary,
         ~G!AtEvidence(s), ~G!AtReplay(s), ~G!AtPolicy(s), ~G!AtReview(s),
         ~G!AtMerge(s),
         NEW action \in Gates, ~Blocked(action)
  PROVE  ~GateStopsDeployment /\ \A env : Readiness(env) # "blocked"
<1>1. /\ s.evidence = standing.evidence /\ s.replay = standing.replay
      /\ s.policy = standing.policy
      /\ s.stages.pending = IF standing.reviews = "pending" THEN 1 ELSE 0
      /\ s.stages.rejected = IF standing.reviews = "rejected" THEN 1 ELSE 0
      /\ s.merge = CASE published = "merged" -> "merged"
                     [] published = "merge_failed" -> "failed"
                     [] OTHER -> "none"
  BY SummaryFields
<1>2. standing.replay \in {"none", "passed", "warning", "failed"}
  BY DEF TypeOK, Standings
<1>3. published = "merged"
  BY <1>1 DEF G!AtMerge, TypeOK, Published
<1>4. standing.approved /\ standing.sound
  BY DEF Overlooked
<1>5. standing.evidence /\ standing.policy # "blocked"
  BY <1>1 DEF G!AtEvidence, G!AtPolicy
<1>6. ~Unsettled(standing)
  BY <1>1 DEF G!AtReview, G!ReviewOpen, Unsettled
<1>7. ReplayPassed(standing) /\ ~GateStopsDeployment
  <2>1. CASE HardGates
    BY <2>1, GatesStop
  <2>2. CASE ~HardGates
    BY <1>1, <1>2, <2>2 DEF Overlooked, G!AtReplay, ReplayPassed, GateStopsDeployment
  <2> QED
    BY <2>1, <2>2
<1> QED
  BY <1>3, <1>4, <1>5, <1>6, <1>7 DEF Readiness, Unfit

(* What it overlooks blocks every readiness check. *)
LEMMA OverlookedBlocks ==
  ASSUME Overlooked, NEW env
  PROVE  Readiness(env) = "blocked"
<1>1. Unfit(standing) \/ ~ReplayPassed(standing)
  BY DEF Overlooked, Unfit, ReplayPassed
<1> QED
  BY <1>1 DEF Readiness

(* The gates panel then approves the newest check, or a new one can be.    *)
LEMMA OpenForApproval ==
  ASSUME TypeOK, NEW opened, ~GateStopsDeployment, \A env : Readiness(env) # "blocked"
  PROVE  ApprovalOpen(opened)
<1>1. CASE checks = <<>>
  BY <1>1 DEF ApprovalOpen
<1>2. CASE checks # <<>>
  <2> DEFINE n   == Len(checks)
             env == checks[n].env
             own == {c \in 1..n : checks[c].env = env}
  <2>1. n \in Nat /\ n \in 1..n /\ own \in SUBSET (1..n) /\ n \in own
    BY <1>2 DEF TypeOK
  <2>2. Last(own) = n
    BY <2>1, LastRow
  <2>3. CASE checks[n].status = "blocked"
    BY <1>2, <2>3 DEF ApprovalOpen, CheckSent
  <2>4. CASE checks[n].status # "blocked"
    <3>1. ReadinessShown(env, opened) # "blocked"
      BY <2>1, <2>2, <2>4 DEF ReadinessShown
    <3>2. Approvable(n, TRUE)
      BY <2>4 DEF Approvable
    <3>3. n # 0
      BY <2>1
    <3> QED
      BY <1>2, <3>1, <3>2, <3>3 DEF ApprovalOpen, ApproveEnabled, CheckSent
  <2> QED
    BY <2>3, <2>4
<1> QED
  BY <1>1, <1>2

LEMMA NewestApproval ==
  ASSUME TypeOK, Newest(approvals, "decision") = "approved"
  PROVE  /\ Len(approvals) \in 1..Len(approvals)
         /\ approvals[Len(approvals)].decision = "approved"
         /\ ApprovalChosen = Len(approvals)
<1> DEFINE n        == Len(approvals)
           approved == {a \in 1..n : approvals[a].decision = "approved"}
<1>1. approvals # <<>> /\ approvals[n].decision = "approved"
  BY DEF Newest
<1>2. n \in Nat /\ n \in 1..n
  BY <1>1 DEF TypeOK
<1>3. approved \in SUBSET (1..n) /\ n \in approved
  BY <1>1, <1>2
<1>4. Last(approved) = n
  BY <1>2, <1>3, LastRow
<1> QED
  BY <1>1, <1>2, <1>3, <1>4 DEF ApprovalChosen

(* The deployment panel then executes the newest approval, unless a script *)
(* of it runs or has succeeded.                                            *)
LEMMA OpenForExecution ==
  ASSUME TypeOK, Vouched, Newest(approvals, "decision") = "approved",
         ~GateStopsDeployment, \A env : Readiness(env) # "blocked"
  PROVE  ExecutionOpen
<1> DEFINE n == Len(approvals)
<1>1. n \in 1..n /\ n # 0 /\ approvals[n].decision = "approved" /\ ApprovalChosen = n
  <2>1. n \in 1..n /\ approvals[n].decision = "approved" /\ ApprovalChosen = n
    BY NewestApproval
  <2>2. n # 0
    BY <2>1
  <2> QED
    BY <2>1, <2>2
<1>2. CASE Has(n, "succeeded")
  BY <1>1, <1>2 DEF ExecutionOpen
<1>3. CASE ~Has(n, "succeeded")
  <2>1. ExecutionReady(n)
    BY <1>1, <1>3 DEF ExecutionReady, Vouched, EnvOf
  <2> QED
    BY <1>1, <2>1 DEF ExecutionOpen, ExecuteEnabled
<1> QED
  BY <1>2, <1>3

(* What the command center says at the deployment has its way on. *)
Advised(s, opened) ==
  CASE G!DeploymentAdvice(s) = "approve" -> ApprovalOpen(opened) \/ CheckTells
    [] G!DeploymentAdvice(s) = "reevaluate" ->
         \/ ApprovalOpen(opened) \/ CheckTells
         \/ Banner("deployment_approval") = "blocked"
    [] G!DeploymentAdvice(s) = "execute" -> ExecutionOpen \/ ExecutionTells
    [] G!DeploymentAdvice(s) = "review_failure" ->
         \/ ExecutionOpen \/ ExecutionTells
         \/ Banner("deployment_execution") = "blocked"
    [] G!DeploymentAdvice(s) = "clear_gates" ->
         "blocked" \in {Banner("deployment_approval"), Banner("deployment_execution")}

LEMMA DeploymentAdvised ==
  ASSUME TypeOK, Linked, Vouched, NEW s, s = Summary, NEW opened \in BOOLEAN,
         ~G!AtEvidence(s), ~G!AtReplay(s), ~G!AtPolicy(s), ~G!AtReview(s),
         ~G!AtMerge(s)
  PROVE  Advised(s, opened)
<1>1. /\ s.approval = Newest(approvals, "decision")
      /\ s.deployed = Newest(executions, "status") /\ s.gated = Gated
  BY SummaryFields
<1>2. \A action \in Gates : action \in s.gated <=> Blocked(action)
  BY <1>1 DEF Gated, Gates, GateActions
<1>3. ~Blocked("deployment_approval") => ApprovalOpen(opened) \/ CheckTells
  <2>1. CASE Overlooked
    BY <2>1, OverlookedBlocks DEF CheckTells
  <2>2. CASE ~Overlooked
    BY <2>2, ReadyToDeploy, OpenForApproval DEF Gates
  <2> QED
    BY <2>1, <2>2
<1>4. ~Blocked("deployment_execution") /\ s.approval = "approved"
        => ExecutionOpen \/ ExecutionTells
  <2>1. CASE Overlooked /\ s.approval = "approved"
    <3>1. ApprovalChosen # 0
      BY <1>1, <2>1, NewestApproval
    <3>2. ~ExecutionReady(ApprovalChosen)
      BY <2>1, OverlookedBlocks DEF ExecutionReady
    <3> QED
      BY <2>1, <3>1, <3>2 DEF ExecutionTells, ExecuteEnabled
  <2>2. CASE ~Overlooked
    BY <1>1, <2>2, ReadyToDeploy, OpenForExecution DEF Gates
  <2> QED
    BY <2>1, <2>2
<1>5. /\ s.approval \in {"none", "approved", "rejected"}
      /\ approvals # <<>> => s.approval # "none"
  <2>1. CASE approvals = <<>>
    BY <1>1, <2>1 DEF Newest
  <2>2. CASE approvals # <<>>
    <3>1. Len(approvals) \in 1..Len(approvals)
      BY <2>2 DEF TypeOK
    <3>2. approvals[Len(approvals)].decision \in {"approved", "rejected"}
      BY <3>1, Shapes DEF Approvals
    <3> QED
      BY <1>1, <2>2, <3>2 DEF Newest
  <2> QED
    BY <2>1, <2>2
<1>6. s.deployed = "failed" => s.approval # "none"
  <2>1. SUFFICES ASSUME s.deployed = "failed" PROVE approvals # <<>>
    BY <1>5
  <2>2. executions # <<>>
    BY <1>1, <2>1 DEF Newest
  <2>3. Len(executions) \in 1..Len(executions)
    BY <2>2 DEF TypeOK
  <2> QED
    BY <2>3 DEF Linked, Granted
<1>7. \A action \in Gates : action \in s.gated => Banner(action) = "blocked"
  BY <1>2, BannerBlocked
<1>8. CASE s.approval = "rejected"
  <2>1. G!DeploymentAdvice(s) = "reevaluate"
    BY <1>8 DEF G!DeploymentAdvice
  <2> QED
    BY <1>3, <2>1, BannerBlocked DEF Advised
<1>9. CASE s.approval # "rejected" /\ s.deployed = "failed"
  <2>1. G!DeploymentAdvice(s) = "review_failure"
    BY <1>9 DEF G!DeploymentAdvice
  <2> QED
    BY <1>4, <1>5, <1>6, <1>9, <2>1, BannerBlocked DEF Advised
<1>10. CASE s.approval = "none" /\ s.deployed # "failed"
  <2>1. G!DeploymentAdvice(s) =
          IF "deployment_approval" \in s.gated THEN "clear_gates" ELSE "approve"
    BY <1>10 DEF G!DeploymentAdvice
  <2> QED
    BY <1>2, <1>3, <1>7, <2>1 DEF Gates, Advised
<1>11. CASE s.approval = "approved" /\ s.deployed # "failed"
  <2>1. G!DeploymentAdvice(s) =
          IF "deployment_execution" \in s.gated THEN "clear_gates" ELSE "execute"
    BY <1>11 DEF G!DeploymentAdvice
  <2> QED
    BY <1>2, <1>4, <1>7, <1>11, <2>1 DEF Gates, Advised
<1> QED
  BY <1>5, <1>8, <1>9, <1>10, <1>11

LEMMA HealthAdvised ==
  ASSUME TypeOK, NEW s, s = Summary, ~G!AtDeployment(s)
  PROVE  CheckHealthEnabled /\ ExecutionChosen = Len(executions)
<1> DEFINE n == Len(executions)
<1>0. s.deployed = Newest(executions, "status")
  BY SummaryFields
<1>1. executions # <<>> /\ executions[n].status = "succeeded"
  BY <1>0 DEF G!AtDeployment, Newest
<1>2. n \in Nat /\ n \in 1..n /\ n # 0
  BY <1>1 DEF TypeOK
<1>3. Succeeded \in SUBSET (1..n) /\ n \in Succeeded
  BY <1>1, <1>2 DEF Succeeded
<1>4. ExecutionChosen = n
  BY <1>2, <1>3, LastRow DEF ExecutionChosen
<1> QED
  BY <1>1, <1>2, <1>4 DEF CheckHealthEnabled, HealthCheckReady

(* What the sign-off handler takes is what the panel offers. *)
LEMMA SignoffOffered ==
  ASSUME TypeOK, NEW d \in Decisions, SignoffAccepted(d), NEW audit
  PROVE  d \in SignoffsOffered(audit)
<1>1. checklist # "none" /\ ChecklistAllows(d) /\ ChecklistShown(audit) = checklist
  BY DEF SignoffAccepted, ChecklistShown
<1>2. checklist \in Checklists
  BY DEF TypeOK
<1> QED
  BY <1>1, <1>2 DEF SignoffsOffered, ChecklistAllows, Decisions, Checklists

LEMMA SignoffAdvised ==
  ASSUME TypeOK, NEW s, s = Summary, ~G!AtEvidence(s), ~G!AtChecklist(s), NEW audit
  PROVE  \/ \E d \in SignoffsOffered(audit) : SignoffAccepted(d)
         \/ SignoffsOffered(audit) = {"completed"} /\ Banner("signoff_completed") = "blocked"
<1>1. standing.evidence /\ checklist # "none"
  BY SummaryFields DEF G!AtEvidence, G!AtChecklist
<1>2. CASE checklist # "complete"
  <2>1. \/ SignoffAccepted("completed_with_exceptions")
        \/ SignoffAccepted("rejected")
    BY <1>1, <1>2 DEF SignoffAccepted, GateStopsSignoff, ChecklistAllows
  <2> QED
    BY <2>1, SignoffOffered DEF Decisions
<1>3. CASE checklist = "complete" /\ SignoffAccepted("completed")
  BY <1>3, SignoffOffered DEF Decisions
<1>4. CASE checklist = "complete" /\ ~SignoffAccepted("completed")
  <2>1. HardGates /\ (HealthStops \/ RejectionStops)
    BY <1>1, <1>4 DEF SignoffAccepted, GateStopsSignoff, ChecklistAllows, ChecklistStops
  <2>2. Blocked("signoff_completed")
    BY <2>1 DEF Blocked
  <2>3. SignoffsOffered(audit) = {"completed"}
    BY <1>4 DEF SignoffsOffered, ChecklistShown, Decisions
  <2> QED
    BY <2>2, <2>3, BannerBlocked
<1> QED
  BY <1>2, <1>3, <1>4

(* The property at one summary. *)
Followed(s) ==
  /\ G!CurrentStage(s) = "deployment" => \A opened \in BOOLEAN : Advised(s, opened)
  /\ G!CurrentStage(s) = "health" =>
       CheckHealthEnabled /\ ExecutionChosen = Len(executions)
  /\ G!CurrentStage(s) = "signoff" => \A audit \in Audits :
       \/ \E d \in SignoffsOffered(audit) : SignoffAccepted(d)
       \/ SignoffsOffered(audit) = {"completed"} /\ Banner("signoff_completed") = "blocked"

LEMMA AdviceHolds ==
  ASSUME TypeOK, Linked, Vouched
  PROVE  AdviceCanBeFollowed
<1> SUFFICES ASSUME NEW s, s = Summary PROVE Followed(s)
  BY SignoffOffered DEF AdviceCanBeFollowed, Followed, Advised
<1>1. PICK k \in 1..14 : /\ G!CurrentStage(s) = G!Steps[k]
                         /\ \A j \in 1..(k - 1) : ~Asks(s)[j]
  BY StageFound
<1>2. /\ (k > 10 => /\ ~G!AtEvidence(s) /\ ~G!AtReplay(s) /\ ~G!AtPolicy(s)
                    /\ ~G!AtReview(s) /\ ~G!AtApproval(s) /\ ~G!AtMerge(s))
      /\ (k > 11 => ~G!AtDeployment(s)) /\ (k > 13 => ~G!AtChecklist(s))
  <2>1. \A j \in 1..14 : k > j => ~Asks(s)[j]
    BY <1>1
  <2> HIDE <1>1
  <2> QED
    BY <2>1 DEF Asks
<1>3. /\ G!Steps[k] = "deployment" => k = 11
      /\ G!Steps[k] = "health" => k = 12
      /\ G!Steps[k] = "signoff" => k = 14
  BY DEF G!Steps
<1>4. ASSUME G!CurrentStage(s) = "deployment", NEW opened \in BOOLEAN
      PROVE  Advised(s, opened)
  <2>1. k = 11
    BY <1>1, <1>3, <1>4
  <2> QED
    BY <1>2, <2>1, DeploymentAdvised
<1>5. ASSUME G!CurrentStage(s) = "health"
      PROVE  CheckHealthEnabled /\ ExecutionChosen = Len(executions)
  <2>1. k = 12
    BY <1>1, <1>3, <1>5
  <2> QED
    BY <1>2, <2>1, HealthAdvised
<1>6. ASSUME G!CurrentStage(s) = "signoff", NEW audit \in Audits
      PROVE  \/ \E d \in SignoffsOffered(audit) : SignoffAccepted(d)
             \/ /\ SignoffsOffered(audit) = {"completed"}
                /\ Banner("signoff_completed") = "blocked"
  <2>1. k = 14
    BY <1>1, <1>3, <1>6
  <2> QED
    BY <1>2, <2>1, SignoffAdvised
<1> QED
  BY <1>4, <1>5, <1>6 DEF Followed

Supported == IInv /\ Checked /\ PolicyIsCurrent /\ Vouched

(* Where the command center (deriveRunCommandCenterState) sends the        *)
(* operator of a release, the panel he finds has the way on and the        *)
(* handler takes it; or the banner of a hard gate, or the panel's own      *)
(* readiness check, says what stops it.  Every standing of the run is      *)
(* allowed for, with the hard gates and without.                           *)
THEOREM AdviceIsGood == Spec => []AdviceCanBeFollowed
<1>1. Init => Supported
  BY InitHolds DEF Init, Supported, Checked, PolicyIsCurrent, Vouched
<1>2. Supported /\ [Next]_vars => Supported'
  <2> SUFFICES ASSUME Supported, [Next]_vars PROVE Supported'
    OBVIOUS
  <2>1. IInv' /\ Vouched'
    BY StepKeeps, VouchedKept DEF Supported
  <2>2. Checked' /\ PolicyIsCurrent'
    BY CurrentStays DEF Supported
  <2> QED
    BY <2>1, <2>2 DEF Supported
<1>3. Supported => AdviceCanBeFollowed
  BY AdviceHolds DEF Supported, IInv
<1> QED
  BY <1>1, <1>2, <1>3, PTL DEF Spec

=============================================================================
