--------------------------- MODULE PgTableProofs ----------------------------
(***************************************************************************)
(* Lemmas about the sampling grid and the table operations.                *)
(***************************************************************************)
EXTENDS PgTable, WellFoundedInduction, TLAPS

\* A non-empty set of bounded naturals has a greatest element, so the deepest
\* target of ANALYZE is well defined whatever statistics are on the table.
LEMMA GreatestExists ==
  ASSUME NEW n \in Nat, NEW S, S \subseteq 1 .. n, S # {}
  PROVE  \E m \in S : \A t \in S : t <= m
<1> DEFINE T == { k \in Nat : \E t \in S : k + t = n }
<1>1. \A t \in S : n - t \in T
  <2> SUFFICES ASSUME NEW t \in S PROVE n - t \in T
    OBVIOUS
  <2>1. t \in 1 .. n
    OBVIOUS
  <2>2. n - t \in Nat /\ (n - t) + t = n
    BY <2>1
  <2> QED
    BY <2>2
<1>2. T # {}
  BY <1>1
<1>3. PICK k \in T : \A j \in T : ~ (<<j, k>> \in OpToRel(<, Nat))
  BY <1>2, WFMin, NatLessThanWellFounded
<1>4. PICK m \in S : k + m = n
  OBVIOUS
<1>5. ASSUME NEW t \in S PROVE t <= m
  <2>1. ~ (<<n - t, k>> \in OpToRel(<, Nat))
    BY <1>1, <1>3
  <2>2. n - t \in Nat /\ k \in Nat
    BY <1>1
  <2>3. ~ (n - t < k)
    <3> DEFINE d == n - t
    <3>1. d \in Nat /\ k \in Nat /\ ~ (<<d, k>> \in OpToRel(<, Nat))
      BY <2>1, <2>2
    <3> HIDE DEF d
    <3>2. ~ (d < k)
      BY <3>1, Zenon DEF OpToRel
    <3> QED
      BY <3>2 DEF d
  <2>4. t \in 1 .. n /\ m \in 1 .. n
    OBVIOUS
  <2> QED
    BY <2>2, <2>3, <2>4, <1>4
<1> QED
  BY <1>5

\* Every level has a statistics_target the server accepts.
LEMMA TargetForLevelType ==
  ASSUME NEW l \in Levels
  PROVE  TargetForLevel(l) \in Targets
<1>1. Ladder[l] \in 1 .. MaxTarget /\ MaxTarget \in Nat
  BY SGridAssumption DEF Targets
<1>2. NumRows \div 300 \in Nat \ {0}
  BY SGridAssumption, SMT
<1> QED
  BY <1>1, <1>2 DEF TargetForLevel, LesserOf, Targets

\* A deeper target never scans fewer rows.
LEMMA RowsAtMonotone ==
  \A t, u \in Nat : t <= u => RowsAt(t) <= RowsAt(u) /\ RowsAt(u) \in Nat
BY SGridAssumption DEF RowsAt, LesserOf

\* The targets of one ANALYZE are legal, and one of them is the deepest.
LEMMA DeepestTargetMax ==
  ASSUME NEW c \in Targets, NEW tgt \in [Stats -> Targets \cup {Unset}],
         installed \subseteq Stats
  PROVE  /\ DeepestTarget(c, tgt) \in DemandedTargets(c, tgt)
         /\ DemandedTargets(c, tgt) \subseteq Targets
         /\ \A t \in DemandedTargets(c, tgt) : t <= DeepestTarget(c, tgt)
<1> DEFINE D == DemandedTargets(c, tgt)
<1>1. D \subseteq Targets /\ D # {}
  BY DEF DemandedTargets, EffectiveTarget
<1>2. MaxTarget \in Nat
  BY SGridAssumption
<1>3. \E m \in D : \A t \in D : t <= m
  <2> HIDE DEF D
  <2> QED
    BY <1>1, <1>2, GreatestExists DEF Targets
<1> QED
  BY <1>1, <1>3 DEF DeepestTarget

\* A scan is never shallower than the columns' own target asks for.
LEMMA ScanRowsAtLeast ==
  ASSUME NEW c \in Targets, NEW tgt \in [Stats -> Targets \cup {Unset}],
         installed \subseteq Stats
  PROVE  ScanRows(c, tgt) \in Nat /\ RowsAt(c) <= ScanRows(c, tgt)
<1>1. c \in DemandedTargets(c, tgt)
  BY DEF DemandedTargets
<1>2. DeepestTarget(c, tgt) \in Targets /\ c <= DeepestTarget(c, tgt)
  BY <1>1, DeepestTargetMax
<1>3. Targets \subseteq Nat
  BY DEF Targets
<1>4. PICK d \in Nat : d = DeepestTarget(c, tgt)
  BY <1>2, <1>3
<1>5. c \in Nat /\ c <= d
  BY <1>2, <1>3, <1>4
<1>6. RowsAt(c) <= RowsAt(d) /\ RowsAt(d) \in Nat
  BY RowsAtMonotone, <1>5
<1> QED
  BY <1>4, <1>6 DEF ScanRows

\* When no statistic asks for more than the columns do, the columns' target
\* sets the depth of the scan.
LEMMA ScanRowsExact ==
  ASSUME NEW c \in Targets, NEW tgt \in [Stats -> Targets \cup {Unset}],
         installed \subseteq Stats,
         \A s \in installed : EffectiveTarget(s, c, tgt) <= c
  PROVE  ScanRows(c, tgt) = RowsAt(c)
<1>1. c \in DemandedTargets(c, tgt)
  BY DEF DemandedTargets
<1>2. Targets \subseteq Nat
  BY DEF Targets
<1>3. \A t \in DemandedTargets(c, tgt) : t <= c
  BY <1>2 DEF DemandedTargets
<1>4. /\ DeepestTarget(c, tgt) \in DemandedTargets(c, tgt)
      /\ DemandedTargets(c, tgt) \subseteq Targets
      /\ \A t \in DemandedTargets(c, tgt) : t <= DeepestTarget(c, tgt)
  BY DeepestTargetMax
<1>5. DeepestTarget(c, tgt) <= c /\ c <= DeepestTarget(c, tgt)
      /\ DeepestTarget(c, tgt) \in Nat /\ c \in Nat
  BY <1>1, <1>2, <1>3, <1>4
<1>6. DeepestTarget(c, tgt) = c
  BY <1>5
<1> QED
  BY <1>6 DEF ScanRows

\* ANALYZE and the other table operations keep the table well typed.
LEMMA AnalyzeType ==
  ASSUME TableTypeOK, NEW c \in Targets,
         NEW tgt \in [Stats -> Targets \cup {Unset}], NEW hollow,
         Analyze(c, tgt, hollow)
  PROVE  TableTypeOK'
<1>1. ScanRows(c, tgt) \in Nat
  BY ScanRowsAtLeast DEF TableTypeOK
<1>2. Targets \subseteq Nat
  BY DEF Targets
<1>3. colStats' \in SingleStats
  BY <1>1, <1>2 DEF Analyze, SingleStats
<1>4. \A s \in installed : EffectiveTarget(s, c, tgt) \in Nat
  BY <1>2 DEF EffectiveTarget, TableTypeOK
<1>5. payload' \in [Stats -> Payloads \cup {Null}]
  BY <1>1, <1>4 DEF Analyze, Payloads
<1> QED
  BY <1>3, <1>5 DEF Analyze, TableTypeOK

LEMMA RemoveStatsType ==
  ASSUME TableTypeOK, NEW S, RemoveStats(S)
  PROVE  /\ installed' \subseteq Stats
         /\ target' \in [Stats -> Targets \cup {Unset}]
         /\ payload' \in [Stats -> Payloads \cup {Null}]
BY DEF TableTypeOK, RemoveStats

\* There is a first level.
LEMMA LevelSeqDomain ==
  /\ DOMAIN LevelSeq = 1 .. Len(LevelSeq)
  /\ Len(LevelSeq) \in Nat \ {0}
  /\ 1 \in DOMAIN LevelSeq
BY SGridAssumption

\* What a query measures at a level are slots.
LEMMA SlotsAtType == \A x, l : SlotsAt(x, l) \subseteq Slots
BY DEF SlotsAt

\* Every parameter is a target the server accepts.
LEMMA SlotParam == \A s \in Slots : s.param \in Targets
BY SGridAssumption DEF Slots

\* What EXPLAIN sees is a reading.
LEMMA SeenType ==
  ASSUME TableTypeOK
  PROVE  Seen \in Readings
BY DEF TableTypeOK, Seen, Readings, LiveStats

\* A slot belongs to a query exactly when it is admissible at its own level.
LEMMA SlotsOfLevel ==
  \A x : \A s : s \in SlotsOf(x) <=> s.level \in Levels /\ s \in SlotsAt(x, s.level)
BY DEF SlotsOf, SlotsAt, Slots

\* The table before the first command: other people's statistics, no data.
LEMMA TableInitType ==
  ASSUME TableInit
  PROVE  TableTypeOK
<1>1. Targets \subseteq Nat /\ ColumnPin \in Targets
  BY PgTableAssumption DEF Targets
<1>2. RowsAt(ColumnPin) \in Nat
  BY <1>1, RowsAtMonotone
<1>3. colStats \in SingleStats
  BY <1>1, <1>2 DEF TableInit, SingleStats
<1>4. installed \subseteq Stats
  BY DEF TableInit, Stats
<1>5. target \in [Stats -> Targets \cup {Unset}]
  BY PgTableAssumption DEF TableInit
<1>6. payload \in [Stats -> Payloads \cup {Null}]
  BY DEF TableInit
<1> QED
  BY <1>1, <1>3, <1>4, <1>5, <1>6 DEF TableInit, TableTypeOK
=============================================================================
