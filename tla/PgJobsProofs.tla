---------------------------- MODULE PgJobsProofs ----------------------------
(***************************************************************************)
(* PostgresBackend.isolate keeps the contract of Isolation between         *)
(* commands of any kind, whatever they left on the table; the marginal     *)
(* costs are those of the fit's own probes; a deployment serves the        *)
(* queries in the order and the state of its plan.                         *)
(***************************************************************************)
EXTENDS PgJobs, PgTableProofs, FiniteSetTheorems, TLAPS

IsolatePcs == {"isoDrop", "isoCreate", "isoBody", "isoUndo", "isoRecreate"}

\* What is on the table, position by position.
OnTable ==
  /\ pc = "isoDrop" => /\ todo \subseteq dropped
                       /\ installed = (presentOrig \cap keepSet) \cup todo
  /\ pc = "isoCreate" => /\ todo \subseteq newNames
                         /\ installed = keepSet \ todo
  /\ pc = "isoBody" => installed = keepSet
  /\ pc = "isoUndo" => /\ todo \subseteq newNames
                       /\ installed = (presentOrig \cap keepSet) \cup todo
  /\ pc = "isoRecreate" => /\ todo \subseteq dropped
                           /\ installed = presentOrig \ todo

IsolateInv ==
  /\ faults \in Nat
  /\ job = NoJob => pc = "idle"
  /\ pc \in IsolatePcs => keepSet \in KeepChoices
  /\ OnTable

\* Initially no block is open.
LEMMA IsolateInvInit == Init => IsolateInv
BY DEF Init, SessionInit, IsolateInv, OnTable, IsolatePcs

\* No other command is ever inside a block, and it starts outside of one.
LEMMA OthersOutside ==
  ASSUME IsolateInv, (FitNext \/ DeployNext)
  PROVE  /\ pc \notin IsolatePcs /\ pc' \notin IsolatePcs
         /\ job' = NoJob => pc' = "idle"
         /\ faults' \in Nat /\ faults' \in {faults, faults + 1}
<1> USE DEF IsolateInv, IsolatePcs, At, Start, End, Forgotten, Create, Drop
<1>0. NoJob \notin Jobs
  BY PgSessionAssumption
<1>1. CASE Fit
  BY <1>0, <1>1 DEF Fit
<1>2. CASE EnterFitLevel
  BY <1>2 DEF EnterFitLevel
<1>3. CASE TimeBare
  BY <1>3 DEF TimeBare
<1>4. CASE CreateProbe
  BY <1>4 DEF CreateProbe
<1>5. CASE TimeWithProbes
  BY <1>5 DEF TimeWithProbes
<1>6. CASE TimeWithProbesRaises
  BY <1>6 DEF TimeWithProbesRaises
<1>7. CASE DropProbe
  BY <1>7 DEF DropProbe
<1>8. CASE NextFitLevel
  BY <1>8 DEF NextFitLevel, LevelFitted
<1>9. CASE WriteMaint
  BY <1>9 DEF WriteMaint, LevelFitted
<1>10. CASE FitFails
  BY <1>10 DEF FitFails
<1>11. CASE Deploy
  BY <1>0, <1>11 DEF Deploy
<1>12. CASE EnterDeployLevel
  BY <1>12 DEF EnterDeployLevel
<1>13. CASE ListLeftovers
  BY <1>13 DEF ListLeftovers
<1>14. CASE DropLeftover
  BY <1>14 DEF DropLeftover
<1>15. CASE LeftoversDropped
  BY <1>15 DEF LeftoversDropped
<1>16. CASE CreateChosen
  BY <1>16 DEF CreateChosen
<1>17. CASE BuildChosen
  BY <1>17 DEF BuildChosen
<1>18. CASE Explain
  BY <1>18 DEF Explain
<1>19. CASE Report
  BY <1>19 DEF Report
<1> QED
  BY <1>1, <1>2, <1>3, <1>4, <1>5, <1>6, <1>7, <1>8, <1>9, <1>10, <1>11, <1>12,
     <1>13, <1>14, <1>15, <1>16, <1>17, <1>18, <1>19 DEF FitNext, DeployNext

\* Statements on one statistic and ANALYZE, as far as the table's set of
\* statistics is concerned.
LEMMA StatementsOn ==
  /\ \A s : Create(s) => s \in todo /\ todo' = todo \ {s} /\ pc' = pc
                         /\ installed' = installed \cup {s}
  /\ \A s : Drop(s) => s \in todo /\ todo' = todo \ {s} /\ pc' = pc
                       /\ installed' = installed \ {s}
  /\ \A c, tgt : AnalyzeWith(c, tgt) => installed' = installed
BY DEF Create, Drop, CreateStat, DropStats, RemoveStats, AnalyzeWith, Analyze

\* The positions inside a block of isolate are taken one after the other.
LEMMA IsolateStep ==
  ASSUME IsolateInv, IsolateNext
  PROVE  IsolateInv' /\ [Contract!Next]_(Contract!vars)
<1> USE DEF IsolateInv, IsolatePcs, OnTable, dropped, newNames, At, isolateVars
<1> USE DEF Contract!Next, Contract!Elsewhere, Contract!Abandon, Contract!Enter,
            Contract!Leave, Contract!vars, Open, Entering, Leaving
<1>0. NoJob \notin Jobs /\ KeepChoices \subseteq SUBSET Stats /\ NoKeep \notin KeepChoices
  BY PgSessionAssumption, PgIsolateAssumption
<1>1. CASE Isolate
  BY <1>0, <1>1 DEF Isolate, Start, tableVars
<1>2. CASE DropUnkept
  <2>1. PICK s \in todo : Drop(s)
    BY <1>2 DEF DropUnkept
  <2> QED
    BY <1>0, <1>2, <2>1, StatementsOn DEF DropUnkept
<1>3. CASE AllDropped
  BY <1>0, <1>3 DEF AllDropped, tableVars
<1>4. CASE CreateKept
  <2>1. PICK s \in todo : Create(s)
    BY <1>4 DEF CreateKept
  <2> QED
    BY <1>0, <1>4, <2>1, StatementsOn DEF CreateKept
<1>5. CASE Yield
  BY <1>0, <1>5 DEF Yield, tableVars
<1>6. CASE LeaveBody
  BY <1>0, <1>6 DEF LeaveBody, tableVars
<1>7. CASE DropNew
  <2>1. PICK s \in todo : Drop(s)
    BY <1>7 DEF DropNew
  <2> QED
    BY <1>0, <1>7, <2>1, StatementsOn DEF DropNew
<1>8. CASE AllUndone
  BY <1>0, <1>8 DEF AllUndone, tableVars
<1>9. CASE Recreate
  <2>1. PICK s \in todo : Create(s)
    BY <1>9 DEF Recreate
  <2> QED
    BY <1>0, <1>9, <2>1, StatementsOn DEF Recreate
<1>10. CASE Rebuild
  <2>1. installed' = installed
    BY <1>10, StatementsOn DEF Rebuild, tableVars
  <2> QED
    BY <1>0, <1>10, <2>1 DEF Rebuild, End, IsolateForgotten
<1> QED
  BY <1>1, <1>2, <1>3, <1>4, <1>5, <1>6, <1>7, <1>8, <1>9, <1>10
     DEF IsolateNext

\* Every other step is made outside of a block, or breaks it.
LEMMA OtherStep ==
  ASSUME IsolateInv, Fitting \/ Deploying \/ CutShort
  PROVE  IsolateInv' /\ Contract!Next
<1> USE DEF IsolateInv, IsolatePcs, OnTable
<1> USE DEF Contract!Next, Contract!Elsewhere, Contract!Abandon,
            Open, Entering, Leaving
<1>1. CASE Fitting \/ Deploying
  BY <1>1, OthersOutside DEF Fitting, Deploying, isolateVars
<1>2. CASE CutShort
  BY <1>2 DEF CutShort, Interrupted
<1> QED
  BY <1>1, <1>2

\* Inside the block of isolate exactly the statistics to keep are on the table,
\* and afterwards those that were there before, unless this block is cut short:
\* for any commands before it, cut short or not, and any number of statistics.
THEOREM IsolationKept == Spec => ImplementsIsolation
<1>1. Init => Contract!Init
  BY DEF Init, SessionInit, TableInit, Contract!Init, Open, Entering, Leaving, Stats
<1>2. IsolateInv /\ [Next]_vars => IsolateInv' /\ [Contract!Next]_(Contract!vars)
  <2>1. CASE Isolating
    BY <2>1, IsolateStep DEF Isolating
  <2>2. CASE Fitting \/ Deploying \/ CutShort
    BY <2>2, OtherStep
  <2>3. CASE UNCHANGED vars
    BY <2>3 DEF vars, tableVars, sessionVars, isolateVars, IsolateInv, OnTable,
       IsolatePcs, dropped, newNames, Contract!vars, Open, Entering, Leaving
  <2> QED
    BY <2>1, <2>2, <2>3 DEF Next, AllRun
<1> QED
  BY <1>1, <1>2, IsolateInvInit, PTL DEF Spec, ImplementsIsolation, Contract!Spec

-----------------------------------------------------------------------------
(* The invariant of all three commands over one table. *)

\* The positions of the other two commands.
FitPcs == {"fitEnter", "fitBare", "fitCreate", "fitDrop"}
DeployPcs == {"depEnter", "depList", "depDrop", "depCreate", "depExplain", "depReport"}

\* A command runs exactly when the session is not idle.
JobInv ==
  /\ pc \in {"idle"} \cup IsolatePcs \cup FitPcs \cup DeployPcs
  /\ pc = "idle" <=> job = NoJob

\* Types, and what a command's own variables hold while it runs.
TypeInv ==
  /\ TableTypeOK
  /\ level \in Levels /\ todo \subseteq Stats
  /\ pc \in IsolatePcs => presentOrig \subseteq Stats
  /\ pc \in DeployPcs => plan \in Plans(level)

Distinct(seq) == \A i, j \in 1 .. Len(seq) : i # j => seq[i] # seq[j]

\* The creation order lists what is on the table, once each.
BornInv ==
  /\ born \in Seq(Stats) /\ Distinct(born)
  /\ ToSet(born) = installed

\* deploy_phase2_order leaves the columns at the level's target.
AtTarget == script = "order" => colTarget = TargetForLevel(level)

\* The table holds a beginning of the plan, in plan order; the rest is to do.
CreatedInOrder ==
  /\ Len(born) <= Len(plan)
  /\ \A i \in 1 .. Len(born) : born[i] = plan[i]
  /\ todo = { plan[i] : i \in Len(born) + 1 .. Len(plan) }

\* After the one ANALYZE: the state the statistics were measured in.
LevelState ==
  script = "order" =>
    /\ colStats = [target |-> TargetForLevel(level), rows |-> RowsAt(TargetForLevel(level))]
    /\ \A s \in installed : payload[s] # Null =>
         payload[s] = [param |-> s.param, rows |-> RowsAt(TargetForLevel(level))]

\* The deployment, position by position.
DeployInv ==
  /\ explained # NoSuch => pc = "depReport"
  /\ pc \in {"depList", "depDrop", "depCreate"} => AtTarget
  /\ pc = "depDrop" => installed \subseteq todo
  /\ pc = "depCreate" => CreatedInOrder
  /\ pc = "depExplain" => born = plan /\ LevelState
  /\ DeployedAsOrdered /\ DeployedInLevelState

\* The deepest of some targets, and those an ANALYZE of S would honour.
DeepestOf(D) == CHOOSE m \in D : \A t \in D : t <= m
DemandedBy(S) == {colTarget} \cup { EffectiveTarget(s, colTarget, target) : s \in S }

\* The bare arm against the table while the probes are created: what is on the
\* table besides them is what it maintained, at the targets it was timed with.
BareReading(arm) ==
  /\ arm.maintains = installed \ ProbesAt[level]
  /\ installed = arm.maintains \cup (ProbesAt[level] \ todo)
  /\ arm.rows = RowsAt(DeepestOf(DemandedBy(arm.maintains)))

\* The marginal cost of one level.
Marginal(arm, l) ==
  arm.withk # NoReading =>
    /\ arm.withk.maintains \ arm.bare.maintains = ProbesAt[l]
    /\ arm.withk.rows = arm.bare.rows

\* The second arm is not timed yet from the i-th level on.
UntimedFrom(i) == \A j \in DOMAIN LevelSeq : i <= j => arms[LevelSeq[j]].withk = NoReading

\* Both arms of every level.
ArmsInv ==
  /\ DOMAIN arms = Levels
  /\ \A l \in Levels : DOMAIN arms[l] = {"bare", "withk"}

\* A fit that began on a table without probes.
CleanFitInv ==
  /\ pc \in {"fitEnter", "fitBare"} => installed \cap Probes = {}
  /\ pc = "fitCreate" => /\ todo \subseteq ProbesAt[level]
                         /\ (installed \ ProbesAt[level]) \cap Probes = {}
                         /\ colTarget = TargetForLevel(level)
                         /\ BareReading(arms[level].bare)
  /\ pc = "fitDrop" => installed \cap Probes \subseteq todo
  /\ \A i \in DOMAIN LevelSeq : LevelSeq[i] = level =>
        /\ pc \in {"fitEnter", "fitBare", "fitCreate"} => UntimedFrom(i)
        /\ pc = "fitDrop" => UntimedFrom(i + 1)
  /\ \A l \in Levels : Marginal(arms[l], l)

\* The fit, position by position.
FitInv ==
  /\ pc \in FitPcs => ArmsInv
  /\ pc = "fitBare" => colTarget = TargetForLevel(level)
  /\ pc \in FitPcs /\ ~scruff => CleanFitInv

\* What _maint.json was computed from.
MarginalPart == maint # NoReading /\ ~maint.scruff => \A l \in Levels : Marginal(maint.at[l], l)

\* Together.
Basic == IsolateInv /\ JobInv /\ TypeInv /\ BornInv
PgInv == Basic /\ DeployInv /\ FitInv /\ MarginalPart

-----------------------------------------------------------------------------
(* Creation order and plans. *)

\* A non-empty set of naturals has a least element.
LEMMA LeastIs ==
  ASSUME NEW S \in SUBSET Nat, S # {}
  PROVE  Min(S) \in S /\ \A t \in S : Min(S) <= t
<1>1. PICK k \in S : \A j \in S : ~ (<<j, k>> \in OpToRel(<, Nat))
  BY WFMin, NatLessThanWellFounded
<1>2. ASSUME NEW t \in S PROVE k <= t
  <2>1. k \in Nat /\ t \in Nat
    OBVIOUS
  <2>2. ~ (t < k)
    BY <1>1, <2>1, Zenon DEF OpToRel
  <2> QED
    BY <2>1, <2>2
<1>3. \E m \in S : \A t \in S : m <= t
  BY <1>1, <1>2
<1> QED
  BY <1>3, Zenon DEF Min

\* FirstOf is the first member of T in the sequence.
LEMMA FirstOfIs ==
  ASSUME NEW U, NEW seq \in Seq(U), NEW T,
         NEW k \in 1 .. Len(seq), seq[k] \in T, \A j \in 1 .. k - 1 : seq[j] \notin T
  PROVE  FirstOf(seq, T) = seq[k]
<1> DEFINE I == { i \in 1 .. Len(seq) : seq[i] \in T }
<1>1. I # {} /\ I \in SUBSET Nat
  OBVIOUS
<1>2. Min(I) \in I /\ \A t \in I : Min(I) <= t
  BY <1>1, LeastIs
<1>3. Min(I) = k
  <2>1. k \in I
    OBVIOUS
  <2>2. Min(I) <= k /\ Min(I) \in 1 .. Len(seq) /\ seq[Min(I)] \in T
    BY <1>2, <2>1
  <2>3. ~ (Min(I) \in 1 .. k - 1)
    BY <2>2
  <2> HIDE DEF I
  <2> QED
    BY <2>2, <2>3
<1>4. FirstOf(seq, T) = IF (IF I # {} THEN Min(I) ELSE 0) = 0 THEN NoSuch ELSE seq[IF I # {} THEN Min(I) ELSE 0]
  BY Zenon DEF FirstOf, SelectInSeq
<1> QED
  BY <1>1, <1>3, <1>4

\* It depends only on which members of the sequence are in the set.
LEMMA FirstOfSame ==
  ASSUME NEW U, NEW seq \in Seq(U), NEW S, NEW T,
         \A i \in 1 .. Len(seq) : seq[i] \in S <=> seq[i] \in T
  PROVE  FirstOf(seq, S) = FirstOf(seq, T)
<1>1. { i \in 1 .. Len(seq) : seq[i] \in S } = { i \in 1 .. Len(seq) : seq[i] \in T }
  OBVIOUS
<1> QED
  BY <1>1, Zenon DEF FirstOf, SelectInSeq

\* Removing a statistic from the creation order.
LEMMA RemoveFirstIs ==
  ASSUME NEW U, NEW seq \in Seq(U), Distinct(seq), NEW s
  PROVE  /\ RemoveFirst(seq, s) \in Seq(U)
         /\ Distinct(RemoveFirst(seq, s))
         /\ ToSet(RemoveFirst(seq, s)) = ToSet(seq) \ {s}
         /\ s \notin ToSet(seq) => RemoveFirst(seq, s) = seq
<1>1. CASE ~ \E i \in 1 .. Len(seq) : seq[i] = s
  BY <1>1 DEF RemoveFirst, ToSet
<1>2. CASE \E i \in 1 .. Len(seq) : seq[i] = s
  <2> DEFINE I == { i \in 1 .. Len(seq) : seq[i] = s }
             k == Min(I)
             r == RemoveAt(seq, k)
  <2>1. I # {} /\ I \in SUBSET Nat
    BY <1>2
  <2>2. RemoveFirst(seq, s) = RemoveAt(seq, IF I # {} THEN Min(I) ELSE 0)
    BY <1>2, Zenon DEF RemoveFirst, SelectInSeq
  <2>3. RemoveFirst(seq, s) = r
    BY <2>1, <2>2
  <2>4. k \in 1 .. Len(seq) /\ seq[k] = s
    BY <2>1, LeastIs
  <2> HIDE DEF k, I
  <2>5. /\ r \in Seq(U) /\ Len(r) = Len(seq) - 1
        /\ \A i \in 1 .. Len(seq) - 1 : r[i] = IF i < k THEN seq[i] ELSE seq[i + 1]
    <3> DEFINE a == SubSeq(seq, 1, k - 1)
               b == SubSeq(seq, k + 1, Len(seq))
    <3>1. a \in Seq(U) /\ Len(a) = k - 1 /\ \A i \in 1 .. k - 1 : a[i] = seq[i]
      BY <2>4
    <3>2. b \in Seq(U) /\ Len(b) = Len(seq) - k
          /\ \A i \in 1 .. Len(seq) - k : b[i] = seq[k + i]
      BY <2>4
    <3>3. r = a \o b
      BY DEF RemoveAt
    <3> HIDE DEF r, a, b
    <3>4. Len(r) = Len(a) + Len(b) /\ r \in Seq(U)
      BY <3>1, <3>2, <3>3
    <3>5. ASSUME NEW i \in 1 .. Len(seq) - 1, i < k PROVE r[i] = seq[i]
      BY <3>1, <3>2, <3>3, <3>5, <2>4
    <3>6. ASSUME NEW i \in 1 .. Len(seq) - 1, ~ (i < k) PROVE r[i] = seq[i + 1]
      <4>1. r[i] = b[i - (k - 1)]
        BY <3>1, <3>2, <3>3, <3>6, <2>4
      <4>2. i - (k - 1) \in 1 .. Len(seq) - k /\ k + (i - (k - 1)) = i + 1
        BY <3>6, <2>4
      <4> QED
        BY <4>1, <4>2, <3>2
    <3> QED
      BY <3>1, <3>2, <3>4, <3>5, <3>6, <2>4
  <2> HIDE DEF r
  <2>6. Distinct(r)
    <3>1. SUFFICES ASSUME NEW i \in 1 .. Len(seq) - 1, NEW j \in 1 .. Len(seq) - 1, i # j
                   PROVE  r[i] # r[j]
      BY <2>5, Zenon DEF Distinct
    <3>2. PICK m \in 1 .. Len(seq) : r[i] = seq[m] /\ m = IF i < k THEN i ELSE i + 1
      BY <2>5, <2>4
    <3>3. PICK n \in 1 .. Len(seq) : r[j] = seq[n] /\ n = IF j < k THEN j ELSE j + 1
      BY <2>5, <2>4
    <3>4. m # n
      BY <3>1, <3>2, <3>3, <2>4
    <3> QED
      BY <3>2, <3>3, <3>4 DEF Distinct
  <2>7. ToSet(r) = ToSet(seq) \ {s}
    <3>1. ASSUME NEW x \in ToSet(r) PROVE x \in ToSet(seq) /\ x # s
      <4>1. PICK i \in 1 .. Len(seq) - 1 : x = r[i]
        BY <2>5 DEF ToSet
      <4> QED
        BY <4>1, <2>4, <2>5 DEF Distinct, ToSet
    <3>2. ASSUME NEW x \in ToSet(seq), x # s PROVE x \in ToSet(r)
      <4>1. PICK i \in 1 .. Len(seq) : x = seq[i]
        BY DEF ToSet
      <4>2. CASE i < k
        <5>1. i \in 1 .. Len(seq) - 1 /\ r[i] = x
          BY <4>1, <4>2, <2>4, <2>5
        <5> QED
          BY <5>1, <2>5 DEF ToSet
      <4>3. CASE i >= k
        <5>1. i # k
          BY <4>1, <3>2, <2>4
        <5>2. i - 1 \in 1 .. Len(seq) - 1 /\ ~ (i - 1 < k) /\ (i - 1) + 1 = i
          BY <4>1, <4>3, <5>1, <2>4
        <5>3. r[i - 1] = x
          BY <5>2, <4>1, <2>5
        <5> QED
          BY <5>2, <5>3, <2>5 DEF ToSet
      <4> QED
        BY <4>1, <4>2, <4>3, <2>4
    <3> QED
      BY <3>1, <3>2
  <2>8. s \in ToSet(seq)
    BY <2>4 DEF ToSet
  <2> QED
    BY <2>3, <2>5, <2>6, <2>7, <2>8
<1> QED
  BY <1>1, <1>2

\* Creating one at its end.
LEMMA AppendIs ==
  ASSUME NEW U, NEW seq \in Seq(U), Distinct(seq), NEW s \in U, s \notin ToSet(seq)
  PROVE  /\ Append(seq, s) \in Seq(U)
         /\ Distinct(Append(seq, s))
         /\ ToSet(Append(seq, s)) = ToSet(seq) \cup {s}
<1>1. /\ Append(seq, s) \in Seq(U) /\ Len(Append(seq, s)) = Len(seq) + 1
      /\ \A i \in 1 .. Len(seq) : Append(seq, s)[i] = seq[i]
      /\ Append(seq, s)[Len(seq) + 1] = s
  OBVIOUS
<1>2. \A i \in 1 .. Len(seq) : seq[i] # s
  BY DEF ToSet
<1> DEFINE r == Append(seq, s)
<1> HIDE DEF r
<1>3. Distinct(r)
  BY <1>1, <1>2 DEF Distinct, r
<1>4. ToSet(r) = ToSet(seq) \cup {s}
  <2>1. DOMAIN r = 1 .. Len(seq) + 1 /\ DOMAIN seq = 1 .. Len(seq)
    BY <1>1 DEF r
  <2>2. ASSUME NEW x \in ToSet(r) PROVE x \in ToSet(seq) \cup {s}
    <3>1. PICK i \in 1 .. Len(seq) + 1 : x = r[i]
      BY <2>1 DEF ToSet
    <3>2. CASE i = Len(seq) + 1
      BY <3>1, <3>2, <1>1 DEF r
    <3>3. CASE i \in 1 .. Len(seq)
      BY <3>1, <3>3, <1>1, <2>1 DEF r, ToSet
    <3> QED
      BY <3>2, <3>3
  <2>3. ASSUME NEW x \in ToSet(seq) PROVE x \in ToSet(r)
    <3>1. PICK i \in 1 .. Len(seq) : x = seq[i]
      BY <2>1 DEF ToSet
    <3>2. i \in DOMAIN r /\ r[i] = x
      BY <3>1, <1>1, <2>1 DEF r
    <3> QED
      BY <3>2 DEF ToSet
  <2>4. s \in ToSet(r)
    BY <1>1, <2>1 DEF r, ToSet
  <2> QED
    BY <2>2, <2>3, <2>4
<1> QED
  BY <1>1, <1>3, <1>4 DEF r

\* A plan lists slots of the level, once each, with parameters the level can hold.
LEMMA PlanIs ==
  ASSUME NEW l \in Levels, NEW p \in Plans(l)
  PROVE  /\ p \in Seq(Slots)
         /\ \A i, j \in DOMAIN p : i # j => p[i] # p[j]
         /\ \A s \in ToSet(p) : s \in Slots /\ s.param \in Targets /\ s.param <= TargetForLevel(l)
<1>1. PICK S \in SUBSET Choosable(l) : p \in SetToSeqs(S)
  BY DEF Plans
<1>2. p \in [1 .. Cardinality(S) -> S] /\ \A i, j \in 1 .. Cardinality(S) : i # j => p[i] # p[j]
  BY <1>1, Zenon DEF SetToSeqs
<1>3. S \subseteq Slots
  BY <1>1 DEF Choosable
<1>4. Cardinality(S) \in Nat
  BY <1>3, PgSessionAssumption, FS_Subset, FS_CardinalityType DEF Stats
<1>5. p \in Seq(S)
  BY <1>2, <1>4
<1>6. \A s \in ToSet(p) : s \in S
  BY <1>2, <1>4 DEF ToSet
<1>7. \A s \in S : s \in Slots /\ s.param \in Targets /\ s.param <= TargetForLevel(l)
  BY <1>1, SGridAssumption DEF Choosable, Slots
<1> QED
  BY <1>2, <1>3, <1>4, <1>5, <1>6, <1>7

-----------------------------------------------------------------------------
(* Statements, types and the creation order. *)

\* CREATE STATISTICS as create_stat issues it.
LEMMA CreateLeaves ==
  ASSUME Basic, NEW s, Create(s)
  PROVE  /\ TableTypeOK' /\ BornInv' /\ todo' \subseteq Stats
         /\ s \in todo /\ todo' = todo \ {s} /\ installed' = installed \cup {s}
         /\ pc' = pc /\ level' = level /\ pinned' = pinned
         /\ colTarget' = colTarget /\ colStats' = colStats
         /\ target' = [target EXCEPT ![s] = Unset]
         /\ payload' = [payload EXCEPT ![s] = Null]
         /\ s \notin installed => born' = Append(born, s)
<1>1. s \in Stats
  BY DEF Create, Basic, TypeInv
<1>2. TableTypeOK'
  BY <1>1 DEF Basic, TypeInv, Create, CreateStat, TableTypeOK
<1>3. /\ Without(s) \in Seq(Stats) /\ Distinct(Without(s)) /\ ToSet(Without(s)) = installed \ {s}
      /\ s \notin installed => Without(s) = born
  BY RemoveFirstIs DEF Basic, BornInv, Without
<1>4. born' \in Seq(Stats) /\ Distinct(born)' /\ ToSet(born)' = (installed \ {s}) \cup {s}
  BY <1>1, <1>3, AppendIs DEF Create
<1>5. (installed \ {s}) \cup {s} = installed'
  BY DEF Create, CreateStat
<1> QED
  BY <1>2, <1>3, <1>4, <1>5 DEF Create, CreateStat, BornInv, Basic, TypeInv

\* DROP STATISTICS.
LEMMA DropLeaves ==
  ASSUME Basic, NEW s, Drop(s)
  PROVE  /\ TableTypeOK' /\ BornInv' /\ todo' \subseteq Stats
         /\ s \in todo /\ todo' = todo \ {s} /\ installed' = installed \ {s}
         /\ pc' = pc /\ level' = level /\ pinned' = pinned
         /\ colTarget' = colTarget /\ colStats' = colStats
<1>1. RemoveStats({s}) /\ colTarget' = colTarget /\ colStats' = colStats
  BY DEF Drop, DropStats
<1>2. TableTypeOK'
  BY <1>1, RemoveStatsType DEF Basic, TypeInv, TableTypeOK
<1>3. Without(s) \in Seq(Stats) /\ Distinct(Without(s)) /\ ToSet(Without(s)) = installed \ {s}
  BY RemoveFirstIs DEF Basic, BornInv, Without
<1>4. installed' = installed \ {s}
  BY <1>1 DEF RemoveStats
<1>5. born' \in Seq(Stats) /\ Distinct(born)' /\ ToSet(born)' = installed'
  BY <1>3, <1>4 DEF Drop
<1> QED
  BY <1>1, <1>2, <1>4, <1>5 DEF Drop, BornInv, Basic, TypeInv

\* ALTER and ANALYZE.
LEMMA AnalyzeLeaves ==
  ASSUME Basic, NEW c \in Targets, NEW tgt \in [Stats -> Targets \cup {Unset}], AnalyzeWith(c, tgt)
  PROVE  /\ TableTypeOK' /\ BornInv'
         /\ installed' = installed /\ born' = born
         /\ colTarget' = c /\ target' = tgt
         /\ colStats' = [target |-> c, rows |-> ScanRows(c, tgt)]
         /\ \A s \in installed : payload'[s] # Null =>
               payload'[s] = [param |-> EffectiveTarget(s, c, tgt), rows |-> ScanRows(c, tgt)]
<1>1. PICK hollow \in HollowSets : Analyze(c, tgt, hollow)
  BY DEF AnalyzeWith
<1>2. TableTypeOK'
  BY <1>1, AnalyzeType DEF Basic, TypeInv
<1>3. installed' = installed /\ born' = born
  BY <1>1 DEF Analyze, AnalyzeWith
<1>4. installed \subseteq Stats
  BY DEF Basic, TypeInv, TableTypeOK
<1> QED
  BY <1>1, <1>2, <1>3, <1>4 DEF Analyze, BornInv, Basic

\* Steps that leave the table alone.
LEMMA TableSame ==
  ASSUME Basic, UNCHANGED <<tableVars, born>>
  PROVE  TableTypeOK' /\ BornInv' /\ UNCHANGED <<installed, target, payload, colTarget, colStats>>
BY DEF Basic, TypeInv, TableTypeOK, BornInv, tableVars

\* Every target the commands set is one the server accepts.
LEMMA TargetsUsed ==
  ASSUME Basic
  PROVE  /\ TargetForLevel(level) \in Targets /\ colTarget \in Targets /\ PinnedColumns \in Targets
         /\ target \in [Stats -> Targets \cup {Unset}]
         /\ \A S, t : t \in Targets => Retarget(S, t) \in [Stats -> Targets \cup {Unset}]
         /\ pc \in DeployPcs => OwnTargets \in [Stats -> Targets \cup {Unset}]
         /\ LevelSeq[1] \in Levels /\ Ladder[0] \in Targets
<1>1. TableTypeOK /\ level \in Levels
  BY DEF Basic, TypeInv
<1>2. TargetForLevel(level) \in Targets
  BY <1>1, TargetForLevelType
<1>3. target \in [Stats -> Targets \cup {Unset}] /\ colTarget \in Targets
  BY <1>1 DEF TableTypeOK
<1>4. PinnedColumns \in Targets
  BY <1>3, PgTableAssumption DEF PinnedColumns
<1>5. \A S, t : t \in Targets => Retarget(S, t) \in [Stats -> Targets \cup {Unset}]
  BY <1>3 DEF Retarget
<1>6. ASSUME pc \in DeployPcs PROVE OwnTargets \in [Stats -> Targets \cup {Unset}]
  <2>1. \A s \in Chosen : s.param \in Targets
    BY <1>6, <1>1, PlanIs DEF Basic, TypeInv, Chosen
  <2> QED
    BY <2>1, <1>3 DEF OwnTargets
<1>7. LevelSeq[1] \in Levels
  BY SGridAssumption DEF Levels
<1>8. Ladder[0] \in Targets
  BY SGridAssumption, PgIsolateAssumption
<1> QED
  BY <1>2, <1>3, <1>4, <1>5, <1>6, <1>7, <1>8

\* Types and the creation order, command by command.
LEMMA IsolateBasic ==
  ASSUME Basic, Isolating
  PROVE  JobInv' /\ TypeInv' /\ BornInv'
<1> USE DEF IsolateInv, JobInv, TypeInv, IsolatePcs, FitPcs, DeployPcs, At, Start, End,
        Forgotten
<1>a. Basic /\ IsolateInv /\ JobInv /\ TypeInv /\ BornInv
  BY Zenon DEF Basic
<1>b. UNCHANGED <<fitVars, deployVars>>
  BY DEF Isolating
<1>c. UNCHANGED <<deployVars>> /\ UNCHANGED <<script, plan, explained>>
  BY <1>b DEF isolateVars, deployVars
<1>d. NoJob \notin Jobs /\ KeepChoices \subseteq SUBSET Stats /\ ProbesAt \in [Levels -> SUBSET Foreign]
  BY PgSessionAssumption, PgIsolateAssumption
<1>e. installed \subseteq Stats /\ todo \subseteq Stats
  BY <1>a DEF TableTypeOK
<1>1. CASE Isolate
  BY <1>1, <1>a, <1>c, <1>d, <1>e, TargetsUsed, TableSame, AnalyzeLeaves DEF Isolate,
     isolateVars, tableVars
<1>2. CASE DropUnkept
  <2>1. PICK s \in todo : Drop(s)
    BY <1>2 DEF DropUnkept
  <2>2. TableTypeOK' /\ BornInv' /\ todo' \subseteq Stats /\ pc' = pc /\ level' = level
    BY <2>1, DropLeaves
  <2> QED
    BY <1>2, <2>2, <1>a, <1>c, <1>d, <1>e, TargetsUsed, TableSame, AnalyzeLeaves
       DEF DropUnkept, isolateVars
<1>3. CASE AllDropped
  BY <1>3, <1>a, <1>c, <1>d, <1>e, TargetsUsed, TableSame, AnalyzeLeaves DEF AllDropped,
     newNames, isolateVars
<1>4. CASE CreateKept
  <2>1. PICK s \in todo : Create(s)
    BY <1>4 DEF CreateKept
  <2>2. TableTypeOK' /\ BornInv' /\ todo' \subseteq Stats /\ pc' = pc /\ level' = level
    BY <2>1, CreateLeaves
  <2> QED
    BY <1>4, <2>2, <1>a, <1>c, <1>d, <1>e, TargetsUsed, TableSame, AnalyzeLeaves
       DEF CreateKept, isolateVars
<1>5. CASE Yield
  BY <1>5, <1>a, <1>c, <1>d, <1>e, TargetsUsed, TableSame, AnalyzeLeaves DEF Yield,
     isolateVars
<1>6. CASE LeaveBody
  BY <1>6, <1>a, <1>c, <1>d, <1>e, TargetsUsed, TableSame, AnalyzeLeaves DEF LeaveBody,
     newNames, isolateVars
<1>7. CASE DropNew
  <2>1. PICK s \in todo : Drop(s)
    BY <1>7 DEF DropNew
  <2>2. TableTypeOK' /\ BornInv' /\ todo' \subseteq Stats /\ pc' = pc /\ level' = level
    BY <2>1, DropLeaves
  <2> QED
    BY <1>7, <2>2, <1>a, <1>c, <1>d, <1>e, TargetsUsed, TableSame, AnalyzeLeaves
       DEF DropNew, isolateVars
<1>8. CASE AllUndone
  BY <1>8, <1>a, <1>c, <1>d, <1>e, TargetsUsed, TableSame, AnalyzeLeaves DEF AllUndone,
     dropped, isolateVars
<1>9. CASE Recreate
  <2>1. PICK s \in todo : Create(s)
    BY <1>9 DEF Recreate
  <2>2. TableTypeOK' /\ BornInv' /\ todo' \subseteq Stats /\ pc' = pc /\ level' = level
    BY <2>1, CreateLeaves
  <2> QED
    BY <1>9, <2>2, <1>a, <1>c, <1>d, <1>e, TargetsUsed, TableSame, AnalyzeLeaves
       DEF Recreate, isolateVars
<1>10. CASE Rebuild
  BY <1>10, <1>a, <1>c, <1>d, <1>e, TargetsUsed, TableSame, AnalyzeLeaves DEF Rebuild,
     IsolateForgotten
<1> HIDE DEF IsolateInv, JobInv, TypeInv, IsolatePcs, FitPcs, DeployPcs, At, Start, End,
        Forgotten
<1>11. \/ Isolate \/ DropUnkept \/ AllDropped \/ CreateKept \/ Yield \/ LeaveBody \/ DropNew
       \/ AllUndone \/ Recreate \/ Rebuild
  BY Zenon DEF Isolating, IsolateNext
<1> QED
  BY <1>1, <1>2, <1>3, <1>4, <1>5, <1>6, <1>7, <1>8, <1>9, <1>10, <1>11

\* The fit.
LEMMA FitBasic ==
  ASSUME Basic, Fitting
  PROVE  JobInv' /\ TypeInv' /\ BornInv'
<1> USE DEF IsolateInv, JobInv, TypeInv, IsolatePcs, FitPcs, DeployPcs, At, Start, End,
        Forgotten
<1>a. Basic /\ IsolateInv /\ JobInv /\ TypeInv /\ BornInv
  BY Zenon DEF Basic
<1>b. UNCHANGED <<isolateVars, deployVars>>
  BY DEF Fitting
<1>c. UNCHANGED <<isolateVars>> /\ UNCHANGED <<keepSet, presentOrig>>
  BY <1>b DEF isolateVars, deployVars
<1>d. NoJob \notin Jobs /\ KeepChoices \subseteq SUBSET Stats /\ ProbesAt \in [Levels -> SUBSET Foreign]
  BY PgSessionAssumption, PgIsolateAssumption
<1>e. installed \subseteq Stats /\ todo \subseteq Stats
  BY <1>a DEF TableTypeOK
<1>1. CASE Fit
  BY <1>1, <1>a, <1>c, <1>d, <1>e, TargetsUsed, TableSame, AnalyzeLeaves DEF Fit
<1>2. CASE EnterFitLevel
  <2>1. AnalyzeWith(TargetForLevel(level), target)
    BY <1>2 DEF EnterFitLevel, EnterSamplingState
  <2>2. TableTypeOK' /\ BornInv'
    BY <2>1, <1>a, AnalyzeLeaves, TargetsUsed
  <2>3. ProbesAt[level] \subseteq Stats
    BY <1>a, <1>d DEF Stats
  <2> QED
    BY <1>2, <2>2, <2>3, <1>a, <1>c, <1>d, <1>e DEF EnterFitLevel
<1>3. CASE TimeBare
  <2>1. AnalyzeWith(colTarget, target)
    BY <1>3 DEF TimeBare, EnterSamplingState
  <2>2. TableTypeOK' /\ BornInv'
    BY <2>1, <1>a, AnalyzeLeaves, TargetsUsed
  <2>3. ProbesAt[level] \subseteq Stats
    BY <1>a, <1>d DEF Stats
  <2> QED
    BY <1>3, <2>2, <2>3, <1>a, <1>c, <1>d, <1>e DEF TimeBare
<1>4. CASE CreateProbe
  <2>1. PICK s \in todo : Create(s)
    BY <1>4 DEF CreateProbe
  <2>2. TableTypeOK' /\ BornInv' /\ todo' \subseteq Stats /\ pc' = pc /\ level' = level
    BY <2>1, CreateLeaves
  <2> QED
    BY <1>4, <2>2, <1>a, <1>c, <1>d, <1>e, TargetsUsed, TableSame, AnalyzeLeaves
       DEF CreateProbe
<1>5. CASE TimeWithProbes
  <2>1. AnalyzeWith(colTarget, Retarget(ProbesAt[level], TargetForLevel(level)))
    BY <1>5 DEF TimeWithProbes, EnterSamplingState
  <2>2. TableTypeOK' /\ BornInv'
    BY <2>1, <1>a, AnalyzeLeaves, TargetsUsed
  <2>3. ProbesAt[level] \subseteq Stats
    BY <1>a, <1>d DEF Stats
  <2> QED
    BY <1>5, <2>2, <2>3, <1>a, <1>c, <1>d, <1>e DEF TimeWithProbes
<1>6. CASE TimeWithProbesRaises
  <2>1. PICK S \in SUBSET ProbesAt[level] : SetTargets(colTarget, Retarget(S, TargetForLevel(level)))
    BY <1>6 DEF TimeWithProbesRaises
  <2>2. TableTypeOK' /\ BornInv'
    BY <2>1, <1>6, <1>a, TargetsUsed DEF SetTargets, TableTypeOK, BornInv,
       TimeWithProbesRaises
  <2>3. ProbesAt[level] \subseteq Stats
    BY <1>a, <1>d DEF Stats
  <2> QED
    BY <1>6, <2>2, <2>3, <1>a, <1>c, <1>d, <1>e DEF TimeWithProbesRaises
<1>7. CASE DropProbe
  <2>1. PICK s \in todo : Drop(s)
    BY <1>7 DEF DropProbe
  <2>2. TableTypeOK' /\ BornInv' /\ todo' \subseteq Stats /\ pc' = pc /\ level' = level
    BY <2>1, DropLeaves
  <2> QED
    BY <1>7, <2>2, <1>a, <1>c, <1>d, <1>e, TargetsUsed, TableSame, AnalyzeLeaves
       DEF DropProbe
<1>8. CASE NextFitLevel
  <2>1. PICK i \in 2 .. Len(LevelSeq) : level' = LevelSeq[i]
    BY <1>8 DEF NextFitLevel
  <2>2. level' \in Levels
    BY <2>1, SGridAssumption DEF Levels
  <2>3. TableTypeOK' /\ BornInv'
    BY <1>8, <1>a, TableSame DEF NextFitLevel
  <2> QED
    BY <1>8, <2>2, <2>3, <1>a, <1>c, <1>d, <1>e DEF NextFitLevel, LevelFitted
<1>9. CASE WriteMaint
  BY <1>9, <1>a, <1>c, <1>d, <1>e, TargetsUsed, TableSame, AnalyzeLeaves DEF WriteMaint
<1>10. CASE FitFails
  BY <1>10, <1>a, <1>c, <1>d, <1>e, TargetsUsed, TableSame, AnalyzeLeaves DEF FitFails
<1> HIDE DEF IsolateInv, JobInv, TypeInv, IsolatePcs, FitPcs, DeployPcs, At, Start, End,
        Forgotten
<1>11. \/ Fit \/ EnterFitLevel \/ TimeBare \/ CreateProbe \/ TimeWithProbes
       \/ TimeWithProbesRaises \/ DropProbe \/ NextFitLevel \/ WriteMaint \/ FitFails
  BY Zenon DEF Fitting, FitNext
<1> QED
  BY <1>1, <1>2, <1>3, <1>4, <1>5, <1>6, <1>7, <1>8, <1>9, <1>10, <1>11

\* The deployments.
LEMMA DeployBasic ==
  ASSUME Basic, Deploying
  PROVE  JobInv' /\ TypeInv' /\ BornInv'
<1> USE DEF IsolateInv, JobInv, TypeInv, IsolatePcs, FitPcs, DeployPcs, At, Start, End,
        Forgotten
<1>a. Basic /\ IsolateInv /\ JobInv /\ TypeInv /\ BornInv
  BY Zenon DEF Basic
<1>b. UNCHANGED <<isolateVars, fitVars>>
  BY DEF Deploying
<1>c. UNCHANGED <<isolateVars>> /\ UNCHANGED <<keepSet, presentOrig>>
  BY <1>b DEF isolateVars, deployVars
<1>d. NoJob \notin Jobs /\ KeepChoices \subseteq SUBSET Stats /\ ProbesAt \in [Levels -> SUBSET Foreign]
  BY PgSessionAssumption, PgIsolateAssumption
<1>e. installed \subseteq Stats /\ todo \subseteq Stats
  BY <1>a DEF TableTypeOK
<1>1. CASE Deploy
  BY <1>1, <1>a, <1>c, <1>d, <1>e, TargetsUsed, TableSame, AnalyzeLeaves DEF Deploy,
     deployVars
<1>2. CASE EnterDeployLevel
  <2>1. AnalyzeWith(TargetForLevel(level), target)
    BY <1>2 DEF EnterDeployLevel, EnterSamplingState
  <2>2. TableTypeOK' /\ BornInv'
    BY <2>1, <1>a, AnalyzeLeaves, TargetsUsed
  <2>3. ProbesAt[level] \subseteq Stats
    BY <1>a, <1>d DEF Stats
  <2> QED
    BY <1>2, <2>2, <2>3, <1>a, <1>c, <1>d, <1>e DEF EnterDeployLevel, deployVars
<1>3. CASE ListLeftovers
  BY <1>3, <1>a, <1>c, <1>d, <1>e, TargetsUsed, TableSame, AnalyzeLeaves DEF ListLeftovers,
     deployVars
<1>4. CASE DropLeftover
  <2>1. PICK s \in todo : Drop(s)
    BY <1>4 DEF DropLeftover
  <2>2. TableTypeOK' /\ BornInv' /\ todo' \subseteq Stats /\ pc' = pc /\ level' = level
    BY <2>1, DropLeaves
  <2> QED
    BY <1>4, <2>2, <1>a, <1>c, <1>d, <1>e, TargetsUsed, TableSame, AnalyzeLeaves
       DEF DropLeftover, deployVars
<1>5. CASE LeftoversDropped
  <2>1. Chosen \subseteq Stats
    BY <1>5, <1>a, PlanIs DEF LeftoversDropped, Chosen, Stats
  <2>2. TableTypeOK' /\ BornInv'
    BY <1>5, <1>a, TableSame DEF LeftoversDropped
  <2> QED
    BY <1>5, <2>1, <2>2, <1>a, <1>c, <1>d, <1>e DEF LeftoversDropped, deployVars
<1>6. CASE CreateChosen
  <2>1. Create(FirstOf(plan, todo))
    BY <1>6 DEF CreateChosen
  <2>2. TableTypeOK' /\ BornInv' /\ todo' \subseteq Stats /\ pc' = pc /\ level' = level
    BY <2>1, <1>a, CreateLeaves
  <2> QED
    BY <1>6, <2>2, <1>a, <1>c, <1>d, <1>e DEF CreateChosen, deployVars
<1>7. CASE BuildChosen
  <2>1. DeployColumns \in Targets /\ OwnTargets \in [Stats -> Targets \cup {Unset}]
    BY <1>7, <1>a, TargetsUsed DEF DeployColumns, BuildChosen
  <2>2. TableTypeOK' /\ BornInv'
    BY <1>7, <2>1, <1>a, AnalyzeLeaves, TableSame DEF BuildChosen
  <2> QED
    BY <1>7, <2>2, <1>a, <1>c, <1>d, <1>e DEF BuildChosen, deployVars
<1>8. CASE Explain
  BY <1>8, <1>a, <1>c, <1>d, <1>e, TargetsUsed, TableSame, AnalyzeLeaves DEF Explain,
     deployVars
<1>9. CASE Report
  BY <1>9, <1>a, <1>c, <1>d, <1>e, TargetsUsed, TableSame, AnalyzeLeaves DEF Report,
     deployVars
<1> HIDE DEF IsolateInv, JobInv, TypeInv, IsolatePcs, FitPcs, DeployPcs, At, Start, End,
        Forgotten
<1>10. \/ Deploy \/ EnterDeployLevel \/ ListLeftovers \/ DropLeftover \/ LeftoversDropped
       \/ CreateChosen \/ BuildChosen \/ Explain \/ Report
  BY Zenon DEF Deploying, DeployNext
<1> QED
  BY <1>1, <1>2, <1>3, <1>4, <1>5, <1>6, <1>7, <1>8, <1>9, <1>10

\* A command cut short.
LEMMA CutShortBasic ==
  ASSUME Basic, CutShort
  PROVE  JobInv' /\ TypeInv' /\ BornInv'
<1>1. TableTypeOK' /\ BornInv'
  BY TableSame DEF CutShort, Interrupted
<1>2. LevelSeq[1] \in Levels
  BY TargetsUsed
<1> QED
  BY <1>1, <1>2 DEF CutShort, Interrupted, Forgotten, JobInv, TypeInv, IsolatePcs, FitPcs,
     DeployPcs

\* The first state: someone else's statistics in some creation order.
LEMMA InitBasic == Init => JobInv /\ TypeInv /\ BornInv
<1> SUFFICES ASSUME Init PROVE JobInv /\ TypeInv /\ BornInv
  OBVIOUS
<1>1. installed \subseteq Foreign /\ Foreign \subseteq Stats /\ born \in SetToSeqs(installed)
  BY DEF Init, SessionInit, TableInit, Stats
<1>2. Cardinality(installed) \in Nat /\ IsFiniteSet(installed)
  BY <1>1, PgSessionAssumption, FS_Subset, FS_CardinalityType
<1>3. born \in [1 .. Cardinality(installed) -> installed]
      /\ \A i, j \in 1 .. Cardinality(installed) : i # j => born[i] # born[j]
  BY <1>1, Zenon DEF SetToSeqs
<1>4. born \in Seq(Stats) /\ Len(born) = Cardinality(installed)
  BY <1>1, <1>2, <1>3
<1>5. Distinct(born)
  BY <1>3, <1>4 DEF Distinct
<1>6. ToSet(born) = installed
  <2>1. \A i, j \in 1 .. Cardinality(installed) : born[i] = born[j] => i = j
    BY <1>3
  <2>2. born \in Injection(1 .. Cardinality(installed), installed)
    BY <2>1, <1>3 DEF Injection, IsInjective
  <2>3. IsFiniteSet(1 .. Cardinality(installed))
        /\ Cardinality(1 .. Cardinality(installed)) = Cardinality(installed)
    BY <1>2, FS_Interval
  <2>4. born \in Surjection(1 .. Cardinality(installed), installed)
    BY <2>2, <2>3, <1>2, FS_Injection
  <2>5. \A s \in installed : \E i \in 1 .. Cardinality(installed) : born[i] = s
    BY <2>4 DEF Surjection
  <2> QED
    BY <2>5, <1>3, <1>4 DEF ToSet
<1>7. TableTypeOK
  <2>1. ColumnPin \in Targets /\ ForeignTargets \subseteq Targets
    BY PgTableAssumption
  <2>2. RowsAt(ColumnPin) \in Nat /\ ColumnPin \in Nat
    BY <2>1, RowsAtMonotone DEF Targets
  <2> QED
    BY <2>1, <2>2, <1>1 DEF Init, SessionInit, TableInit, TableTypeOK, SingleStats
<1> QED
  BY <1>1, <1>4, <1>5, <1>6, <1>7, TargetsUsed, SGridAssumption
     DEF Init, SessionInit, JobInv, TypeInv, BornInv, IsolatePcs, FitPcs, DeployPcs, Levels

-----------------------------------------------------------------------------
(* The deployments. *)

\* No other command is ever inside a deployment, and it starts outside of one.
LEMMA OutsideDeploy ==
  ASSUME JobInv, Isolating \/ Fitting \/ CutShort \/ AllRun \/ UNCHANGED vars
  PROVE  \/ pc' = "idle" /\ explained' = NoSuch
         \/ pc \notin DeployPcs /\ pc' \notin DeployPcs /\ explained' = explained
         \/ UNCHANGED vars
<1> USE DEF JobInv, IsolatePcs, FitPcs, DeployPcs, At, Start, End, Forgotten
<1>1. CASE Isolating
  <2>1. explained' = explained
    BY <1>1 DEF Isolating, deployVars
  <2> HIDE DEF JobInv, IsolatePcs, FitPcs, DeployPcs, At, Start, End, Forgotten
  <2>2. Isolate \/ DropUnkept \/ AllDropped \/ CreateKept \/ Yield
          \/ LeaveBody \/ DropNew \/ AllUndone \/ Recreate \/ Rebuild
    BY <1>1, Zenon DEF Isolating, IsolateNext
  <2> USE DEF JobInv, IsolatePcs, FitPcs, DeployPcs, At, Start, End, Forgotten
  <2>3. pc \notin DeployPcs /\ pc' \notin DeployPcs
    <3>1. CASE Isolate
      BY <3>1 DEF Isolate
    <3>2. CASE DropUnkept
      BY <3>2 DEF DropUnkept, Drop
    <3>3. CASE AllDropped
      BY <3>3 DEF AllDropped
    <3>4. CASE CreateKept
      BY <3>4 DEF CreateKept, Create
    <3>5. CASE Yield
      BY <3>5 DEF Yield
    <3>6. CASE LeaveBody
      BY <3>6 DEF LeaveBody
    <3>7. CASE DropNew
      BY <3>7 DEF DropNew, Drop
    <3>8. CASE AllUndone
      BY <3>8 DEF AllUndone
    <3>9. CASE Recreate
      BY <3>9 DEF Recreate, Create
    <3>10. CASE Rebuild
      BY <3>10 DEF Rebuild
    <3> QED
      BY <2>2, <3>1, <3>2, <3>3, <3>4, <3>5, <3>6, <3>7, <3>8, <3>9, <3>10
  <2> QED
    BY <2>1, <2>3
<1>2. CASE Fitting
  <2>1. explained' = explained
    BY <1>2 DEF Fitting, deployVars
  <2> HIDE DEF JobInv, IsolatePcs, FitPcs, DeployPcs, At, Start, End, Forgotten
  <2>2. Fit \/ EnterFitLevel \/ TimeBare \/ CreateProbe \/ TimeWithProbes
          \/ TimeWithProbesRaises \/ DropProbe \/ NextFitLevel \/ WriteMaint \/ FitFails
    BY <1>2, Zenon DEF Fitting, FitNext
  <2> USE DEF JobInv, IsolatePcs, FitPcs, DeployPcs, At, Start, End, Forgotten
  <2>3. pc \notin DeployPcs /\ pc' \notin DeployPcs
    <3>1. CASE Fit
      BY <3>1 DEF Fit
    <3>2. CASE EnterFitLevel
      BY <3>2 DEF EnterFitLevel
    <3>3. CASE TimeBare
      BY <3>3 DEF TimeBare
    <3>4. CASE CreateProbe
      BY <3>4 DEF CreateProbe, Create
    <3>5. CASE TimeWithProbes
      BY <3>5 DEF TimeWithProbes
    <3>6. CASE TimeWithProbesRaises
      BY <3>6 DEF TimeWithProbesRaises
    <3>7. CASE DropProbe
      BY <3>7 DEF DropProbe, Drop
    <3>8. CASE NextFitLevel
      BY <3>8 DEF NextFitLevel, LevelFitted
    <3>9. CASE WriteMaint
      BY <3>9 DEF WriteMaint, LevelFitted
    <3>10. CASE FitFails
      BY <3>10 DEF FitFails
    <3> QED
      BY <2>2, <3>1, <3>2, <3>3, <3>4, <3>5, <3>6, <3>7, <3>8, <3>9, <3>10
  <2> QED
    BY <2>1, <2>3
<1>3. CASE CutShort
  BY <1>3 DEF CutShort, Interrupted, DeployForgotten
<1>4. CASE AllRun \/ UNCHANGED vars
  BY <1>4 DEF AllRun
<1> QED
  BY <1>1, <1>2, <1>3, <1>4

\* So none disturbs what is claimed of it.
LEMMA ElsewhereDeployInv ==
  ASSUME Basic, DeployInv, Isolating \/ Fitting \/ CutShort \/ AllRun \/ UNCHANGED vars
  PROVE  DeployInv'
<1>0. JobInv
  BY DEF Basic
<1>1. CASE pc' = "idle" /\ explained' = NoSuch
  BY <1>1 DEF DeployInv, DeployedAsOrdered, DeployedInLevelState
<1>2. CASE pc \notin DeployPcs /\ pc' \notin DeployPcs /\ explained' = explained
  <2>1. explained = NoSuch
    BY <1>2 DEF DeployInv, DeployPcs
  <2> QED
    BY <1>2, <2>1 DEF DeployInv, DeployedAsOrdered, DeployedInLevelState, DeployPcs
<1>3. CASE UNCHANGED vars
  <2>1. /\ UNCHANGED <<installed, payload, colTarget, colStats, pc, level, todo, born>>
        /\ UNCHANGED <<script, plan, explained>>
    BY <1>3 DEF vars, tableVars, sessionVars, deployVars
  <2>2. DeployedAsOrdered'
    BY <2>1 DEF DeployInv, DeployedAsOrdered, PlannedServer
  <2>3. DeployedInLevelState'
    BY <2>1 DEF DeployInv, DeployedInLevelState
  <2> QED
    BY <2>1, <2>2, <2>3 DEF DeployInv, AtTarget, CreatedInOrder, LevelState
<1> QED
  BY <1>0, <1>1, <1>2, <1>3, OutsideDeploy

\* CREATE in the order of the plan.
LEMMA CreateNext ==
  ASSUME Basic, DeployInv, CreateChosen
  PROVE  CreatedInOrder'
<1>1. pc = "depCreate" /\ todo # {} /\ Create(FirstOf(plan, todo)) /\ plan' = plan
  BY DEF CreateChosen, At, deployVars
<1>2. /\ plan \in Seq(Slots) /\ Distinct(plan)
      /\ born \in Seq(Stats) /\ ToSet(born) = installed
  BY <1>1, PlanIs DEF Basic, TypeInv, BornInv, DeployPcs, Distinct
<1>3. /\ Len(born) <= Len(plan) /\ \A i \in 1 .. Len(born) : born[i] = plan[i]
      /\ todo = { plan[i] : i \in Len(born) + 1 .. Len(plan) }
  BY <1>1 DEF DeployInv, CreatedInOrder
<1> DEFINE k == Len(born) + 1
<1>4. k \in 1 .. Len(plan) /\ k - 1 = Len(born)
  BY <1>1, <1>2, <1>3
<1> HIDE DEF k
<1>5. plan[k] \in todo /\ \A j \in 1 .. k - 1 : plan[j] \notin todo
  <2>1. \A j \in 1 .. k - 1 : \A i \in k .. Len(plan) : plan[j] # plan[i]
    BY <1>2, <1>4 DEF Distinct
  <2> QED
    BY <2>1, <1>3, <1>4 DEF k
<1>6. FirstOf(plan, todo) = plan[k]
  BY <1>2, <1>4, <1>5, FirstOfIs
<1>7. plan[k] \notin installed
  <2>1. \A j \in 1 .. k - 1 : born[j] # plan[k]
    BY <1>2, <1>3, <1>4 DEF Distinct
  <2> QED
    BY <2>1, <1>2, <1>4 DEF ToSet
<1>8. todo' = todo \ {plan[k]} /\ born' = Append(born, plan[k])
  BY <1>1, <1>6, <1>7, CreateLeaves
<1>9. Len(born') = k /\ \A i \in 1 .. k : born'[i] = plan[i]
  BY <1>2, <1>3, <1>4, <1>8
<1>10. todo' = { plan[i] : i \in k + 1 .. Len(plan) }
  <2>1. \A i \in k + 1 .. Len(plan) : plan[i] # plan[k]
    BY <1>2, <1>4 DEF Distinct
  <2>2. todo = { plan[i] : i \in k .. Len(plan) }
    BY <1>3 DEF k
  <2>3. k .. Len(plan) = {k} \cup (k + 1 .. Len(plan))
    BY <1>4, <1>2
  <2> QED
    BY <2>1, <2>2, <2>3, <1>8
<1> QED
  BY <1>1, <1>4, <1>9, <1>10 DEF CreatedInOrder

\* Once all are created the order is the plan's, and ANALYZE reads the level's rows
\* because no statistic on the table asks for more.
LEMMA BuildNext ==
  ASSUME Basic, DeployInv, BuildChosen
  PROVE  (born = plan /\ LevelState)'
<1>1. pc = "depCreate" /\ todo = {} /\ plan' = plan /\ script' = script /\ level' = level
  BY DEF BuildChosen, At, deployVars
<1>2. /\ plan \in Seq(Slots) /\ born \in Seq(Stats) /\ ToSet(born) = installed
      /\ \A s \in ToSet(plan) : s \in Slots /\ s.param \in Targets /\ s.param <= TargetForLevel(level)
  BY <1>1, PlanIs DEF Basic, TypeInv, BornInv, DeployPcs
<1>3. /\ Len(born) <= Len(plan) /\ \A i \in 1 .. Len(born) : born[i] = plan[i]
      /\ todo = { plan[i] : i \in Len(born) + 1 .. Len(plan) }
  BY <1>1 DEF DeployInv, CreatedInOrder
<1>4. Len(born) = Len(plan)
  <2>1. CASE Len(born) < Len(plan)
    <3>1. Len(born) + 1 \in Len(born) + 1 .. Len(plan)
      BY <2>1, <1>2
    <3> QED
      BY <3>1, <1>1, <1>3
  <2> QED
    BY <2>1, <1>2, <1>3
<1>5. born = plan
  BY <1>2, <1>3, <1>4
<1>6. DeployColumns \in Targets /\ OwnTargets \in [Stats -> Targets \cup {Unset}]
  BY <1>1, TargetsUsed DEF DeployColumns, DeployPcs
<1>7. born' = born
  BY <1>6, AnalyzeLeaves DEF BuildChosen
<1>8. ASSUME script = "order" PROVE LevelState'
  <2> DEFINE c == TargetForLevel(level)
  <2>1. c = colTarget /\ c \in Targets
    BY <1>1, <1>8, TargetsUsed DEF DeployInv, AtTarget
  <2>2. AnalyzeWith(c, OwnTargets)
    BY <1>8, <2>1 DEF BuildChosen, DeployColumns, Batched
  <2>3. installed \subseteq Stats /\ installed = Chosen
    BY <1>2, <1>5 DEF Basic, TypeInv, TableTypeOK, Chosen
  <2>4. \A s \in installed : EffectiveTarget(s, c, OwnTargets) = s.param
    <3>1. Targets \subseteq Nat /\ Unset \notin Nat
      BY PgTableAssumption DEF Targets
    <3> QED
      BY <3>1, <2>3, <1>2 DEF EffectiveTarget, OwnTargets, Chosen
  <2>5. ScanRows(c, OwnTargets) = RowsAt(c)
    BY <1>2, <1>6, <2>1, <2>3, <2>4, ScanRowsExact DEF Chosen
  <2> QED
    BY <1>1, <1>6, <2>1, <2>2, <2>4, <2>5, AnalyzeLeaves DEF LevelState
<1> QED
  BY <1>1, <1>5, <1>7, <1>8 DEF LevelState

\* The server of a query is looked up by creation order, hence by the plan's.
LEMMA ExplainNext ==
  ASSUME Basic, DeployInv, Explain
  PROVE  (DeployedAsOrdered /\ DeployedInLevelState)'
<1>1. /\ pc = "depExplain" /\ plan' = plan /\ script' = script /\ level' = level
      /\ explained' = [saw |-> Seen, server |-> [q \in Queries |-> Server(q)]]
  BY DEF Explain, At
<1>2. /\ plan \in Seq(Slots) /\ born = plan /\ ToSet(born) = installed
      /\ LevelState
  BY <1>1, PlanIs DEF Basic, TypeInv, BornInv, DeployPcs, DeployInv
<1>3. /\ explained'.saw.live = { [stat |-> s, payload |-> payload[s]] :
                                   s \in { t \in installed : payload[t] # Null } }
      /\ explained'.saw.single = colStats
      /\ \A q \in Queries : explained'.server[q] = Server(q)
  BY <1>1 DEF Seen
<1>4. ASSUME NEW q \in Queries
      PROVE  explained'.server[q] = PlannedServer(plan, q)'
  <2> DEFINE S == { s \in Stats : payload[s] # Null /\ (s \in Slots => s.cand \in CandsOf[q]) }
             T == { s \in Slots : /\ s.cand \in CandsOf[q]
                                  /\ \E e \in explained'.saw.live : e.stat = s }
  <2>1. ASSUME NEW s \in installed
        PROVE  payload[s] # Null <=> \E e \in explained'.saw.live : e.stat = s
    <3>1. ASSUME payload[s] # Null PROVE \E e \in explained'.saw.live : e.stat = s
      <4>1. [stat |-> s, payload |-> payload[s]] \in explained'.saw.live
        BY <1>3, <3>1
      <4> QED
        BY <4>1
    <3>2. ASSUME NEW e \in explained'.saw.live, e.stat = s PROVE payload[s] # Null
      <4>1. PICK t \in installed : payload[t] # Null /\ e = [stat |-> t, payload |-> payload[t]]
        BY <1>3
      <4> QED
        BY <4>1, <3>2
    <3> QED
      BY <3>1, <3>2
  <2>2. \A i \in 1 .. Len(plan) : plan[i] \in Slots /\ plan[i] \in Stats /\ plan[i] \in installed
    BY <1>2 DEF ToSet, Stats
  <2>3. \A i \in 1 .. Len(plan) : plan[i] \in S <=> plan[i] \in T
    BY <2>1, <2>2
  <2> HIDE DEF S, T
  <2>4. FirstOf(plan, S) = FirstOf(plan, T)
    BY <1>2, <2>3, FirstOfSame
  <2> USE DEF S, T
  <2>5. explained'.server[q] = FirstOf(plan, S)
    BY <1>2, <1>3 DEF Server
  <2>6. PlannedServer(plan, q)' = FirstOf(plan, T)
    BY <1>1 DEF PlannedServer
  <2> QED
    BY <2>4, <2>5, <2>6
<1>5. DeployedAsOrdered'
  BY <1>4 DEF DeployedAsOrdered
<1>6. DeployedInLevelState'
  BY <1>1, <1>2, <1>3 DEF LevelState, DeployedInLevelState
<1> QED
  BY <1>5, <1>6

\* The deployment, step by step.
LEMMA DeployStep ==
  ASSUME Basic, DeployInv, Deploying
  PROVE  DeployInv'
<1> USE DEF At, Start, End, Forgotten, DeployPcs, DeployedAsOrdered, DeployedInLevelState
<1>0. /\ explained # NoSuch => pc = "depReport"
      /\ pc \in {"depList", "depDrop", "depCreate"} => AtTarget
      /\ pc = "depDrop" => installed \subseteq todo
  BY DEF DeployInv
<1>1. CASE Deploy
  <2>1. explained' = NoSuch
    BY <1>1, <1>0 DEF Deploy, Basic, JobInv
  <2>2. pc' = "depEnter" \/ (pc' = "depList" /\ script' = "stceb")
    BY <1>1 DEF Deploy
  <2> QED
    BY <2>1, <2>2 DEF DeployInv, AtTarget
<1>2. CASE EnterDeployLevel
  <2>1. colTarget' = TargetForLevel(level)
    BY <1>2, TargetsUsed, AnalyzeLeaves DEF EnterDeployLevel, EnterSamplingState
  <2> QED
    BY <1>0, <1>2, <2>1 DEF EnterDeployLevel, DeployInv, AtTarget, deployVars
<1>3. CASE ListLeftovers
  BY <1>0, <1>3, TableSame DEF ListLeftovers, DeployInv, AtTarget, deployVars
<1>4. CASE DropLeftover
  <2>1. PICK s \in todo : Drop(s)
    BY <1>4 DEF DropLeftover
  <2> QED
    BY <1>0, <1>4, <2>1, DropLeaves DEF DropLeftover, DeployInv, AtTarget, deployVars
<1>5. CASE LeftoversDropped
  <2>1. installed = {} /\ born \in Seq(Stats) /\ ToSet(born) = installed
    BY <1>0, <1>5 DEF LeftoversDropped, Basic, BornInv
  <2>2. Len(born) = 0
    BY <2>1 DEF ToSet
  <2>3. plan \in Seq(Slots)
    BY <1>5, PlanIs DEF Basic, TypeInv, LeftoversDropped
  <2>4. ToSet(plan) = { plan[i] : i \in 0 + 1 .. Len(plan) }
    BY <2>3 DEF ToSet
  <2>5. CreatedInOrder'
    BY <1>5, <2>2, <2>3, <2>4 DEF LeftoversDropped, CreatedInOrder, deployVars, Chosen
  <2> QED
    BY <1>0, <1>5, <2>5, TableSame DEF LeftoversDropped, DeployInv, AtTarget, deployVars
<1>6. CASE CreateChosen
  <2>1. pc' = pc /\ level' = level /\ colTarget' = colTarget
    BY <1>6, CreateLeaves DEF CreateChosen
  <2> QED
    BY <1>0, <1>6, <2>1, CreateNext DEF CreateChosen, DeployInv, AtTarget, deployVars
<1>7. CASE BuildChosen
  BY <1>0, <1>7, BuildNext DEF BuildChosen, DeployInv, deployVars
<1>8. CASE Explain
  BY <1>0, <1>8, ExplainNext DEF Explain, DeployInv
<1>9. CASE Report
  BY <1>0, <1>9 DEF Report, DeployForgotten, DeployInv
<1> HIDE DEF At, Start, End, Forgotten, DeployPcs, DeployedAsOrdered, DeployedInLevelState
<1>10. Deploy \/ EnterDeployLevel \/ ListLeftovers \/ DropLeftover \/ LeftoversDropped
         \/ CreateChosen \/ BuildChosen \/ Explain \/ Report
  BY Zenon DEF Deploying, DeployNext
<1> QED
  BY <1>1, <1>2, <1>3, <1>4, <1>5, <1>6, <1>7, <1>8, <1>9, <1>10

-----------------------------------------------------------------------------
(* The fit. *)

\* No other command is ever inside a fit.
LEMMA FitElsewhere ==
  ASSUME JobInv, Isolating \/ Deploying \/ CutShort \/ AllRun \/ UNCHANGED vars
  PROVE  \/ pc' \notin FitPcs /\ maint' = maint
         \/ UNCHANGED vars
<1> USE DEF JobInv, IsolatePcs, FitPcs, DeployPcs, At, Start, End, Forgotten
<1>1. CASE Isolating
  <2>1. maint' = maint
    BY <1>1 DEF Isolating, fitVars
  <2> HIDE DEF JobInv, IsolatePcs, FitPcs, DeployPcs, At, Start, End, Forgotten
  <2>2. Isolate \/ DropUnkept \/ AllDropped \/ CreateKept \/ Yield
          \/ LeaveBody \/ DropNew \/ AllUndone \/ Recreate \/ Rebuild
    BY <1>1, Zenon DEF Isolating, IsolateNext
  <2> USE DEF JobInv, IsolatePcs, FitPcs, DeployPcs, At, Start, End, Forgotten
  <2>3. pc' \notin FitPcs
    <3>1. CASE Isolate
      BY <3>1 DEF Isolate
    <3>2. CASE DropUnkept
      BY <3>2 DEF DropUnkept, Drop
    <3>3. CASE AllDropped
      BY <3>3 DEF AllDropped
    <3>4. CASE CreateKept
      BY <3>4 DEF CreateKept, Create
    <3>5. CASE Yield
      BY <3>5 DEF Yield
    <3>6. CASE LeaveBody
      BY <3>6 DEF LeaveBody
    <3>7. CASE DropNew
      BY <3>7 DEF DropNew, Drop
    <3>8. CASE AllUndone
      BY <3>8 DEF AllUndone
    <3>9. CASE Recreate
      BY <3>9 DEF Recreate, Create
    <3>10. CASE Rebuild
      BY <3>10 DEF Rebuild
    <3> QED
      BY <2>2, <3>1, <3>2, <3>3, <3>4, <3>5, <3>6, <3>7, <3>8, <3>9, <3>10
  <2> QED
    BY <2>1, <2>3
<1>2. CASE Deploying
  <2>1. maint' = maint
    BY <1>2 DEF Deploying, fitVars
  <2> HIDE DEF JobInv, IsolatePcs, FitPcs, DeployPcs, At, Start, End, Forgotten
  <2>2. Deploy \/ EnterDeployLevel \/ ListLeftovers \/ DropLeftover \/ LeftoversDropped
          \/ CreateChosen \/ BuildChosen \/ Explain \/ Report
    BY <1>2, Zenon DEF Deploying, DeployNext
  <2> USE DEF JobInv, IsolatePcs, FitPcs, DeployPcs, At, Start, End, Forgotten
  <2>3. pc' \notin FitPcs
    <3>1. CASE Deploy
      BY <3>1 DEF Deploy
    <3>2. CASE EnterDeployLevel
      BY <3>2 DEF EnterDeployLevel
    <3>3. CASE ListLeftovers
      BY <3>3 DEF ListLeftovers
    <3>4. CASE DropLeftover
      BY <3>4 DEF DropLeftover, Drop
    <3>5. CASE LeftoversDropped
      BY <3>5 DEF LeftoversDropped
    <3>6. CASE CreateChosen
      BY <3>6 DEF CreateChosen, Create
    <3>7. CASE BuildChosen
      BY <3>7 DEF BuildChosen
    <3>8. CASE Explain
      BY <3>8 DEF Explain
    <3>9. CASE Report
      BY <3>9 DEF Report
    <3> QED
      BY <2>2, <3>1, <3>2, <3>3, <3>4, <3>5, <3>6, <3>7, <3>8, <3>9
  <2> QED
    BY <2>1, <2>3
<1>3. CASE CutShort
  BY <1>3 DEF CutShort, Interrupted
<1>4. CASE AllRun \/ UNCHANGED vars
  BY <1>4 DEF AllRun
<1> QED
  BY <1>1, <1>2, <1>3, <1>4

\* So none disturbs what is claimed of it.
LEMMA ElsewhereFitInv ==
  ASSUME Basic, FitInv, MarginalPart, Isolating \/ Deploying \/ CutShort \/ AllRun \/ UNCHANGED vars
  PROVE  FitInv' /\ MarginalPart'
<1>0. JobInv
  BY DEF Basic
<1>1. CASE pc' \notin FitPcs /\ maint' = maint
  BY <1>1 DEF FitInv, MarginalPart, Marginal, FitPcs
<1>2. CASE UNCHANGED vars
  <2>1. /\ UNCHANGED <<installed, target, colTarget, pc, level, todo, arms, maint, scruff>>
    BY <1>2 DEF vars, tableVars, sessionVars, fitVars
  <2>2. MarginalPart'
    BY <2>1 DEF MarginalPart, Marginal
  <2>3. ASSUME CleanFitInv PROVE CleanFitInv'
    <3>1. BareReading(arms[level].bare) => BareReading(arms[level].bare)'
      BY <2>1 DEF BareReading, DemandedBy, EffectiveTarget
    <3> QED
      BY <2>1, <2>3, <3>1 DEF CleanFitInv, UntimedFrom, Marginal
  <2> QED
    BY <2>1, <2>2, <2>3 DEF FitInv, ArmsInv
<1> QED
  BY <1>0, <1>1, <1>2, FitElsewhere

\* Writing down one arm of a level leaves the other arm and the other levels.
LEMMA BareSet ==
  ASSUME ArmsInv, NEW l \in Levels, NEW x, arms' = [arms EXCEPT ![l].bare = x]
  PROVE  /\ ArmsInv'
         /\ arms'[l].bare = x /\ arms'[l].withk = arms[l].withk
         /\ \A m \in Levels : m # l => arms'[m] = arms[m]
<1>1. arms' = [arms EXCEPT ![l] = [arms[l] EXCEPT !.bare = x]]
  BY Zenon
<1>2. /\ DOMAIN arms' = Levels
      /\ arms'[l] = [arms[l] EXCEPT !.bare = x]
      /\ \A m \in Levels : m # l => arms'[m] = arms[m]
  BY <1>1 DEF ArmsInv
<1>3. "bare" \in DOMAIN arms[l] /\ "withk" \in DOMAIN arms[l]
  BY DEF ArmsInv
<1>4. DOMAIN [arms[l] EXCEPT !.bare = x] = DOMAIN arms[l]
  BY Zenon
<1>5. [arms[l] EXCEPT !.bare = x].bare = x
  BY <1>3, Zenon
<1>6. [arms[l] EXCEPT !.bare = x].withk = arms[l].withk
  BY <1>3, Zenon
<1> QED
  BY <1>2, <1>4, <1>5, <1>6 DEF ArmsInv

\* Likewise for the second arm.
LEMMA WithkSet ==
  ASSUME ArmsInv, NEW l \in Levels, NEW x, arms' = [arms EXCEPT ![l].withk = x]
  PROVE  /\ ArmsInv'
         /\ arms'[l].withk = x /\ arms'[l].bare = arms[l].bare
         /\ \A m \in Levels : m # l => arms'[m] = arms[m]
<1>1. arms' = [arms EXCEPT ![l] = [arms[l] EXCEPT !.withk = x]]
  BY Zenon
<1>2. /\ DOMAIN arms' = Levels
      /\ arms'[l] = [arms[l] EXCEPT !.withk = x]
      /\ \A m \in Levels : m # l => arms'[m] = arms[m]
  BY <1>1 DEF ArmsInv
<1>3. "bare" \in DOMAIN arms[l] /\ "withk" \in DOMAIN arms[l]
  BY DEF ArmsInv
<1>4. DOMAIN [arms[l] EXCEPT !.withk = x] = DOMAIN arms[l]
  BY Zenon
<1>5. [arms[l] EXCEPT !.withk = x].withk = x
  BY <1>3, Zenon
<1>6. [arms[l] EXCEPT !.withk = x].bare = arms[l].bare
  BY <1>3, Zenon
<1> QED
  BY <1>2, <1>4, <1>5, <1>6 DEF ArmsInv

\* The rows of a scan depend only on the set of targets.
LEMMA ScanRowsIs ==
  /\ \A c, tgt : ScanRows(c, tgt) = RowsAt(DeepestOf(DemandedTargets(c, tgt)))
  /\ DemandedTargets(colTarget, target) = DemandedBy(installed)
BY DEF ScanRows, DeepestTarget, DeepestOf, DemandedTargets, DemandedBy

\* A level is measured once.
LEMMA LevelIndex ==
  ASSUME NEW i \in DOMAIN LevelSeq, NEW j \in DOMAIN LevelSeq, LevelSeq[i] = LevelSeq[j]
  PROVE  i = j
BY PgSessionAssumption

\* A fit begins with no arm timed.
LEMMA UntimedIs ==
  ASSUME arms' = Untimed
  PROVE  ArmsInv' /\ \A l \in Levels : arms'[l].withk = NoReading
BY DEF Untimed, ArmsInv

\* The fit, step by step.
LEMMA FitStart ==
  ASSUME Basic, FitInv, Fit
  PROVE  FitInv'
<1>1. ArmsInv' /\ \A l \in Levels : arms'[l].withk = NoReading
  BY UntimedIs DEF Fit
<1>2. UNCHANGED installed /\ pc' = "fitEnter" /\ scruff' = (installed \cap Probes # {})
  BY TableSame DEF Fit, Start
<1>3. \A i \in DOMAIN LevelSeq : UntimedFrom(i)'
  BY <1>1 DEF UntimedFrom, Levels
<1>4. ~scruff' => CleanFitInv'
  BY <1>1, <1>2, <1>3 DEF CleanFitInv, Marginal
<1> QED
  BY <1>1, <1>2, <1>4 DEF FitInv

\* The columns are set to the level's target.
LEMMA FitEnter ==
  ASSUME Basic, FitInv, EnterFitLevel
  PROVE  FitInv'
<1>1. installed' = installed /\ colTarget' = TargetForLevel(level)
  BY TargetsUsed, AnalyzeLeaves DEF EnterFitLevel, EnterSamplingState
<1>2. pc = "fitEnter" /\ pc' = "fitBare" /\ level' = level /\ UNCHANGED <<arms, maint, scruff>>
  BY DEF EnterFitLevel, At, fitVars
<1>3. ArmsInv'
  BY <1>2 DEF FitInv, ArmsInv, FitPcs
<1>4. ASSUME ~scruff' PROVE CleanFitInv'
  <2>1. CleanFitInv
    BY <1>2, <1>4 DEF FitInv, FitPcs
  <2> QED
    BY <2>1, <1>1, <1>2 DEF CleanFitInv, UntimedFrom, Marginal
<1> QED
  BY <1>1, <1>2, <1>3, <1>4 DEF FitInv

\* The bare arm is timed.
LEMMA FitTimeBare ==
  ASSUME Basic, FitInv, TimeBare
  PROVE  FitInv'
<1>1. level \in Levels
  BY DEF Basic, TypeInv
<1>2. /\ pc = "fitBare" /\ pc' = "fitCreate" /\ level' = level /\ todo' = ProbesAt[level]
      /\ UNCHANGED <<maint, scruff>> /\ arms' = [arms EXCEPT ![level].bare = Work]
  BY DEF TimeBare, At
<1>3. installed' = installed /\ colTarget' = colTarget /\ target' = target
  BY TargetsUsed, AnalyzeLeaves DEF TimeBare
<1>4. ArmsInv /\ colTarget = TargetForLevel(level)
  BY <1>2 DEF FitInv, FitPcs
<1>5. /\ ArmsInv'
      /\ arms'[level].bare = Work /\ arms'[level].withk = arms[level].withk
      /\ \A m \in Levels : m # level => arms'[m] = arms[m]
  BY <1>1, <1>2, <1>4, BareSet
<1>6. ASSUME ~scruff' PROVE CleanFitInv'
  <2>1. CleanFitInv
    BY <1>2, <1>6 DEF FitInv, FitPcs
  <2>2. installed \cap Probes = {} /\ ProbesAt[level] \subseteq Probes
    BY <2>1, <1>1, <1>2 DEF CleanFitInv, Probes
  <2>3. Work.maintains = installed /\ Work.rows = RowsAt(DeepestOf(DemandedBy(installed)))
    BY ScanRowsIs DEF Work
  <2>5. BareReading(arms[level].bare)'
    <3>1. arms'[level'].bare = Work
      BY <1>2, <1>5
    <3>2. arms'[level'].bare.maintains = installed
      BY <3>1, <2>3
    <3>3. DemandedBy(arms[level].bare.maintains)' = DemandedBy(installed)
      BY <3>2, <1>3 DEF DemandedBy, EffectiveTarget
    <3>4. arms'[level'].bare.rows = RowsAt(DeepestOf(DemandedBy(arms[level].bare.maintains)'))
      BY <3>1, <3>3, <2>3
    <3>5. installed = installed' \ ProbesAt[level']
      BY <2>2, <1>2, <1>3
    <3>6. installed' = installed \cup (ProbesAt[level'] \ todo')
      BY <1>2, <1>3
    <3> QED
      BY <3>2, <3>4, <3>5, <3>6 DEF BareReading
  <2>6. \A i \in DOMAIN LevelSeq : LevelSeq[i] = level => UntimedFrom(i)'
    <3>1. SUFFICES ASSUME NEW i \in DOMAIN LevelSeq, LevelSeq[i] = level,
                          NEW j \in DOMAIN LevelSeq, i <= j
                   PROVE  arms'[LevelSeq[j]].withk = NoReading
      BY DEF UntimedFrom
    <3>2. arms[LevelSeq[j]].withk = NoReading
      BY <2>1, <3>1, <1>2 DEF CleanFitInv, UntimedFrom
    <3> QED
      BY <3>2, <1>5 DEF Levels
  <2>7. arms'[level].withk = NoReading
    <3>1. PICK i \in DOMAIN LevelSeq : LevelSeq[i] = level
      BY <1>1 DEF Levels
    <3>2. i <= i
      BY <3>1, SGridAssumption
    <3> QED
      BY <3>1, <3>2, <2>6 DEF UntimedFrom
  <2>8. \A l \in Levels : Marginal(arms[l], l)'
    BY <2>1, <2>7, <1>5 DEF CleanFitInv, Marginal
  <2> QED
    BY <2>2, <2>5, <2>6, <2>8, <1>2, <1>3, <1>4 DEF CleanFitInv
<1> QED
  BY <1>2, <1>5, <1>6 DEF FitInv

\* A probe more, and the rest of the table as in the bare arm.
LEMMA FitCreateProbe ==
  ASSUME Basic, FitInv, CreateProbe
  PROVE  FitInv'
<1>1. pc = "fitCreate" /\ UNCHANGED <<arms, maint, scruff>>
  BY DEF CreateProbe, At, fitVars
<1>2. PICK s \in todo : Create(s)
  BY DEF CreateProbe
<1>3. /\ todo' = todo \ {s} /\ installed' = installed \cup {s} /\ pc' = pc /\ level' = level
      /\ colTarget' = colTarget /\ target' = [target EXCEPT ![s] = Unset]
  BY <1>2, CreateLeaves
<1>4. ArmsInv'
  BY <1>1 DEF FitInv, ArmsInv, FitPcs
<1>5. ASSUME ~scruff' PROVE CleanFitInv'
  <2>1. CleanFitInv
    BY <1>1, <1>5 DEF FitInv, FitPcs
  <2>2. todo \subseteq ProbesAt[level] /\ BareReading(arms[level].bare) /\ s \in ProbesAt[level]
    BY <2>1, <1>1, <1>2 DEF CleanFitInv
  <2> DEFINE M == arms[level].bare.maintains
  <2>3. /\ M = installed \ ProbesAt[level]
        /\ installed = M \cup (ProbesAt[level] \ todo)
        /\ arms[level].bare.rows = RowsAt(DeepestOf(DemandedBy(M)))
    BY <2>2 DEF BareReading
  <2>4. arms'[level'].bare = arms[level].bare
    BY <1>1, <1>3
  <2>5. /\ M = installed' \ ProbesAt[level']
        /\ installed' = M \cup (ProbesAt[level'] \ todo')
    BY <2>2, <2>3, <1>2, <1>3
  <2>6. \A t \in M : target'[t] = target[t]
    BY <2>2, <2>3, <1>3 DEF Basic, TypeInv, TableTypeOK
  <2> HIDE DEF M
  <2>7. DemandedBy(arms[level].bare.maintains)' = DemandedBy(M)
    <3>1. arms'[level'].bare.maintains = M
      BY <2>4 DEF M
    <3> QED
      BY <3>1, <2>6, <1>3 DEF DemandedBy, EffectiveTarget
  <2>8. BareReading(arms[level].bare)'
    BY <2>3, <2>4, <2>5, <2>7 DEF BareReading, M
  <2> QED
    BY <2>1, <2>2, <2>8, <1>1, <1>3 DEF CleanFitInv, UntimedFrom, Marginal
<1> QED
  BY <1>1, <1>3, <1>4, <1>5 DEF FitInv

\* The second arm: the probes at the columns' target ask for nothing deeper, so the
\* set of targets is that of the bare arm and so are the rows.
LEMMA FitTimeWith ==
  ASSUME Basic, FitInv, TimeWithProbes
  PROVE  FitInv'
<1> DEFINE tgt == Retarget(ProbesAt[level], TargetForLevel(level))
           w == [maintains |-> installed, rows |-> ScanRows(colTarget, target')]
<1>1. level \in Levels /\ TargetForLevel(level) \in Targets
  BY TargetsUsed DEF Basic, TypeInv
<1>2. /\ pc = "fitCreate" /\ pc' = "fitDrop" /\ level' = level
      /\ todo = {} /\ todo' = ProbesAt[level]
      /\ UNCHANGED <<maint, scruff>> /\ arms' = [arms EXCEPT ![level].withk = w]
  BY DEF TimeWithProbes, At
<1>3. installed' = installed /\ colTarget' = colTarget /\ target' = tgt
  BY TargetsUsed, AnalyzeLeaves DEF TimeWithProbes
<1>4. ArmsInv
  BY <1>2 DEF FitInv, FitPcs
<1> HIDE DEF w
<1>5. /\ ArmsInv'
      /\ arms'[level].withk = w /\ arms'[level].bare = arms[level].bare
      /\ \A m \in Levels : m # level => arms'[m] = arms[m]
  BY <1>1, <1>2, <1>4, WithkSet
<1>6. ASSUME ~scruff' PROVE CleanFitInv'
  <2>1. CleanFitInv
    BY <1>2, <1>6 DEF FitInv, FitPcs
  <2>2. /\ BareReading(arms[level].bare) /\ colTarget = TargetForLevel(level)
        /\ (installed \ ProbesAt[level]) \cap Probes = {}
        /\ ProbesAt[level] \subseteq Probes
    BY <2>1, <1>1, <1>2 DEF CleanFitInv, Probes
  <2> DEFINE M == arms[level].bare.maintains
  <2>3. /\ M = installed \ ProbesAt[level]
        /\ installed = M \cup ProbesAt[level]
        /\ arms[level].bare.rows = RowsAt(DeepestOf(DemandedBy(M)))
    BY <2>2, <1>2 DEF BareReading
  <2>4. w.maintains \ M = ProbesAt[level]
    BY <2>2, <2>3 DEF w
  <2>5. DemandedTargets(colTarget, target') = DemandedBy(M)
    <3>1. installed \subseteq Stats /\ Unset \notin Targets
      BY PgTableAssumption DEF Basic, TypeInv, TableTypeOK, Targets
    <3>2. \A s \in ProbesAt[level] : EffectiveTarget(s, colTarget, target') = colTarget
      BY <3>1, <2>2, <2>3, <1>1, <1>3 DEF EffectiveTarget, Retarget
    <3>3. \A s \in M : EffectiveTarget(s, colTarget, target') = EffectiveTarget(s, colTarget, target)
      BY <3>1, <2>3, <1>3 DEF EffectiveTarget, Retarget
    <3> HIDE DEF M
    <3> QED
      BY <3>2, <3>3, <2>3 DEF DemandedTargets, DemandedBy
  <2>6. w.rows = arms[level].bare.rows
    BY <2>3, <2>5, ScanRowsIs DEF w
  <2>7. Marginal(arms[level], level)'
    BY <2>4, <2>6, <1>2, <1>5 DEF Marginal
  <2>8. \A l \in Levels : Marginal(arms[l], l)'
    BY <2>1, <2>7, <1>2, <1>5 DEF CleanFitInv, Marginal
  <2>9. \A i \in DOMAIN LevelSeq : LevelSeq[i] = level => UntimedFrom(i + 1)'
    <3>1. SUFFICES ASSUME NEW i \in DOMAIN LevelSeq, LevelSeq[i] = level,
                          NEW j \in DOMAIN LevelSeq, i + 1 <= j
                   PROVE  arms'[LevelSeq[j]].withk = NoReading
      BY DEF UntimedFrom
    <3>2. i \in Nat /\ j \in Nat
      BY SGridAssumption
    <3>3. arms[LevelSeq[j]].withk = NoReading
      BY <2>1, <3>1, <3>2, <1>2 DEF CleanFitInv, UntimedFrom
    <3>4. LevelSeq[j] # level
      BY <3>1, <3>2, LevelIndex
    <3> QED
      BY <3>3, <3>4, <1>5 DEF Levels
  <2>10. installed \cap Probes \subseteq ProbesAt[level]
    BY <2>2
  <2> QED
    BY <2>8, <2>9, <2>10, <1>2, <1>3 DEF CleanFitInv
<1> QED
  BY <1>2, <1>5, <1>6 DEF FitInv

\* The second arm raises.
LEMMA FitRaises ==
  ASSUME Basic, FitInv, TimeWithProbesRaises
  PROVE  FitInv'
<1>1. /\ pc = "fitCreate" /\ pc' = "fitDrop" /\ level' = level /\ todo' = ProbesAt[level]
      /\ UNCHANGED <<arms, maint, scruff>> /\ installed' = installed
  BY DEF TimeWithProbesRaises, SetTargets, fitVars
<1>2. ArmsInv'
  BY <1>1 DEF FitInv, ArmsInv, FitPcs
<1>3. ASSUME ~scruff' PROVE CleanFitInv'
  <2>1. CleanFitInv
    BY <1>1, <1>3 DEF FitInv, FitPcs
  <2>2. installed \cap Probes \subseteq ProbesAt[level]
    BY <2>1, <1>1 DEF CleanFitInv
  <2>3. \A i \in DOMAIN LevelSeq : LevelSeq[i] = level => UntimedFrom(i + 1)
    <3>1. \A i \in DOMAIN LevelSeq : i \in Nat
      BY SGridAssumption
    <3> QED
      BY <3>1, <2>1, <1>1 DEF CleanFitInv, UntimedFrom
  <2> QED
    BY <2>1, <2>2, <2>3, <1>1 DEF CleanFitInv, UntimedFrom, Marginal
<1> QED
  BY <1>1, <1>2, <1>3 DEF FitInv

\* The probes are dropped again.
LEMMA FitDropProbe ==
  ASSUME Basic, FitInv, DropProbe
  PROVE  FitInv'
<1>1. pc = "fitDrop" /\ UNCHANGED <<arms, maint, scruff>>
  BY DEF DropProbe, At, fitVars
<1>2. PICK s \in todo : Drop(s)
  BY DEF DropProbe
<1>3. todo' = todo \ {s} /\ installed' = installed \ {s} /\ pc' = pc /\ level' = level
  BY <1>2, DropLeaves
<1>4. ArmsInv'
  BY <1>1 DEF FitInv, ArmsInv, FitPcs
<1>5. ASSUME ~scruff' PROVE CleanFitInv'
  <2>1. CleanFitInv
    BY <1>1, <1>5 DEF FitInv, FitPcs
  <2> QED
    BY <2>1, <1>1, <1>3 DEF CleanFitInv, UntimedFrom, Marginal
<1> QED
  BY <1>1, <1>3, <1>4, <1>5 DEF FitInv

\* The next level begins without probes.
LEMMA FitNextLevel ==
  ASSUME Basic, FitInv, NextFitLevel
  PROVE  FitInv'
<1>1. /\ LevelFitted /\ pc' = "fitEnter"
      /\ UNCHANGED <<arms, maint, scruff>> /\ installed' = installed
  BY DEF NextFitLevel, fitVars, tableVars
<1>2. PICK k \in 2 .. Len(LevelSeq) : LevelSeq[k - 1] = level /\ level' = LevelSeq[k]
  BY DEF NextFitLevel
<1>3. pc \in FitPcs
  BY <1>1 DEF LevelFitted, FitPcs
<1>4. ArmsInv'
  BY <1>1, <1>3 DEF FitInv, ArmsInv
<1>5. ASSUME ~scruff' PROVE CleanFitInv'
  <2>1. CleanFitInv
    BY <1>1, <1>3, <1>5 DEF FitInv
  <2>2. installed \cap Probes = {}
    BY <2>1, <1>1 DEF CleanFitInv, LevelFitted
  <2>3. k \in DOMAIN LevelSeq /\ k - 1 \in DOMAIN LevelSeq /\ (k - 1) + 1 = k
        /\ DOMAIN LevelSeq \subseteq Nat
    BY <1>2, SGridAssumption
  <2>4. UntimedFrom(k)
    <3>1. UntimedFrom(k) \/ UntimedFrom(k - 1)
      BY <2>1, <2>3, <1>1, <1>2 DEF CleanFitInv, LevelFitted
    <3> QED
      BY <3>1, <2>3 DEF UntimedFrom
  <2>5. \A i \in DOMAIN LevelSeq : LevelSeq[i] = level' => i = k
    BY <2>3, <1>2, LevelIndex
  <2> QED
    BY <2>1, <2>2, <2>4, <2>5, <1>1 DEF CleanFitInv, UntimedFrom, Marginal
<1> QED
  BY <1>1, <1>4, <1>5 DEF FitInv

\* Every step of the fit.
LEMMA FitStep ==
  ASSUME Basic, FitInv, MarginalPart, Fitting
  PROVE  FitInv' /\ MarginalPart'
<1>1. CASE Fit
  BY <1>1, FitStart DEF Fit, MarginalPart, Marginal
<1>2. CASE EnterFitLevel
  BY <1>2, FitEnter DEF EnterFitLevel, fitVars, MarginalPart, Marginal
<1>3. CASE TimeBare
  BY <1>3, FitTimeBare DEF TimeBare, MarginalPart, Marginal
<1>4. CASE CreateProbe
  BY <1>4, FitCreateProbe DEF CreateProbe, fitVars, MarginalPart, Marginal
<1>5. CASE TimeWithProbes
  BY <1>5, FitTimeWith DEF TimeWithProbes, MarginalPart, Marginal
<1>6. CASE TimeWithProbesRaises
  BY <1>6, FitRaises DEF TimeWithProbesRaises, fitVars, MarginalPart, Marginal
<1>7. CASE DropProbe
  BY <1>7, FitDropProbe DEF DropProbe, fitVars, MarginalPart, Marginal
<1>8. CASE NextFitLevel
  BY <1>8, FitNextLevel DEF NextFitLevel, fitVars, MarginalPart, Marginal
<1>9. CASE WriteMaint
  <2>1. pc \in FitPcs /\ pc' = "idle" /\ maint' = [at |-> arms, scruff |-> scruff]
    BY <1>9 DEF WriteMaint, LevelFitted, FitPcs, End
  <2>2. ~scruff => \A l \in Levels : Marginal(arms[l], l)
    BY <2>1 DEF FitInv, CleanFitInv
  <2> QED
    BY <2>1, <2>2 DEF FitInv, FitPcs, MarginalPart, Marginal
<1>10. CASE FitFails
  BY <1>10 DEF FitFails, End, FitInv, FitPcs, MarginalPart, Marginal
<1>11. Fit \/ EnterFitLevel \/ TimeBare \/ CreateProbe \/ TimeWithProbes
         \/ TimeWithProbesRaises \/ DropProbe \/ NextFitLevel \/ WriteMaint \/ FitFails
  BY Zenon DEF Fitting, FitNext
<1> QED
  BY <1>1, <1>2, <1>3, <1>4, <1>5, <1>6, <1>7, <1>8, <1>9, <1>10, <1>11

-----------------------------------------------------------------------------
(* The invariant, and the properties it implies. *)

\* Together.
LEMMA PgInvInit == Init => PgInv
<1> SUFFICES ASSUME Init PROVE PgInv
  OBVIOUS
<1>1. Basic
  BY IsolateInvInit, InitBasic DEF Basic
<1>2. pc = "idle" /\ explained = NoSuch /\ maint = NoReading
  BY DEF Init, SessionInit, DeployInit, FitInit
<1> QED
  BY <1>1, <1>2 DEF PgInv, DeployInv, DeployedAsOrdered, DeployedInLevelState, FitInv,
     FitPcs,
     MarginalPart

\* The invariant of isolate is kept by every step.
LEMMA BaseKept ==
  ASSUME IsolateInv, [Next]_vars
  PROVE  IsolateInv'
<1>1. CASE Isolating
  BY <1>1, IsolateStep DEF Isolating
<1>2. CASE Fitting \/ Deploying \/ CutShort
  BY <1>2, OtherStep
<1>3. CASE UNCHANGED vars
  BY <1>3 DEF vars, tableVars, sessionVars, isolateVars, IsolateInv, OnTable,
     IsolatePcs, dropped, newNames
<1> QED
  BY <1>1, <1>2, <1>3 DEF Next, AllRun

\* So is the whole.
LEMMA PgInvStep == PgInv /\ [Next]_vars => PgInv'
<1> SUFFICES ASSUME PgInv, [Next]_vars PROVE PgInv'
  OBVIOUS
<1>0. Basic /\ DeployInv /\ FitInv /\ MarginalPart /\ IsolateInv
  BY DEF PgInv, Basic
<1>1. Basic'
  <2>1. IsolateInv'
    BY <1>0, BaseKept
  <2>2. CASE Isolating
    BY <1>0, <2>1, <2>2, IsolateBasic DEF Basic
  <2>3. CASE Fitting
    BY <1>0, <2>1, <2>3, FitBasic DEF Basic
  <2>4. CASE Deploying
    BY <1>0, <2>1, <2>4, DeployBasic DEF Basic
  <2>5. CASE CutShort
    BY <1>0, <2>1, <2>5, CutShortBasic DEF Basic
  <2>6. CASE UNCHANGED vars
    <3>1. UNCHANGED <<tableVars, born>> /\ UNCHANGED <<job, pc, level, todo, presentOrig, plan>>
      BY <2>6 DEF vars, tableVars, sessionVars, isolateVars, deployVars
    <3> QED
      BY <1>0, <2>1, <3>1, TableSame DEF Basic, JobInv, TypeInv
  <2> QED
    BY <2>2, <2>3, <2>4, <2>5, <2>6 DEF Next, AllRun
<1>2. DeployInv'
  BY <1>0, ElsewhereDeployInv, DeployStep DEF Next
<1>3. FitInv' /\ MarginalPart'
  BY <1>0, ElsewhereFitInv, FitStep DEF Next
<1> QED
  BY <1>1, <1>2, <1>3 DEF PgInv

\* The inductive invariant holds in every reachable state, for any table, levels,
\* probes and scripts and any sequence of commands, cut short or not.
THEOREM PgInvHolds == Spec => []PgInv
BY PgInvInit, PgInvStep, PTL DEF Spec

\* The two arms from which _maint.json is computed differ by exactly the probes and
\* read the same rows, unless the fit began on leftover probes.
THEOREM MarginalHolds == Spec => []MarginalIsOfTheProbes
<1>1. PgInv => MarginalIsOfTheProbes
  BY DEF PgInv, MarginalPart, MarginalIsOfTheProbes, Marginal, MarginalIsOfTheProbesAt
<1> QED
  BY <1>1, PgInvHolds, PTL

\* Whatever was left on the mirror, each query of a deployment is served by the first
\* applicable statistic of the plan that ANALYZE gave data.
THEOREM DeployedAsOrderedHolds == Spec => []DeployedAsOrdered
<1>1. PgInv => DeployedAsOrdered
  BY DEF PgInv, DeployInv
<1> QED
  BY <1>1, PgInvHolds, PTL

\* deploy_phase2_order EXPLAINs with the columns at the level's target, every
\* statistic at its own parameter, and all of them over the level's rows.
THEOREM DeployedInLevelStateHolds == Spec => []DeployedInLevelState
<1>1. PgInv => DeployedInLevelState
  BY DEF PgInv, DeployInv
<1> QED
  BY <1>1, PgInvHolds, PTL
=============================================================================
