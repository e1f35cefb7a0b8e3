--------------------------- MODULE MeasureAProofs ---------------------------
(***************************************************************************)
(* Protocol-A keeps the contract of Measurement for every workload,        *)
(* ladder, grid, table and number of faults.  Unlike Protocol-M it needs   *)
(* no proviso about the column pin: its builds leave the columns alone.    *)
(***************************************************************************)
EXTENDS MeasureA, PgTableProofs

-----------------------------------------------------------------------------
(* Small facts about the constants and the run. *)

\* The grid is not empty.
LEMMA AnySlotType == AnySlot \in Slots
<1>1. PICK c \in Candidates, p \in Grid : TRUE
  BY SGridAssumption
<1>2. LevelSeq[1] \in Levels
  BY LevelSeqDomain DEF Levels
<1>3. [cand |-> c, level |-> LevelSeq[1], param |-> p] \in Slots
  BY <1>1, <1>2 DEF Slots
<1> QED
  BY <1>3 DEF AnySlot

\* The level in hand and its target.
LEMMA LevelType ==
  ASSUME li \in DOMAIN LevelSeq
  PROVE  Level \in Levels /\ TargetForLevel(Level) \in Targets
<1>1. Level \in Levels
  BY DEF Level, Levels
<1> QED
  BY <1>1, TargetForLevelType

\* After a level there is another one, or the file to write.
LEMMA NextLevelType ==
  ASSUME li \in DOMAIN LevelSeq, NextLevel
  PROVE  li' \in DOMAIN LevelSeq /\ pc' \in {"write", "enter"}
BY LevelSeqDomain DEF NextLevel

-----------------------------------------------------------------------------
(* Type correctness. *)

\* A run begins well typed.
LEMMA InitType == Init => TypeOK
<1> SUFFICES ASSUME Init PROVE TypeOK
  OBVIOUS
<1>1. TableTypeOK
  BY TableInitType DEF Init
<1>2. RunTypeOK
  BY SGridAssumption, LevelSeqDomain
  DEF Init, RunInit, RunTypeOK, Running, EmptyBase, EmptyReads
<1> QED
  BY <1>1, <1>2, AnySlotType DEF TypeOK, Init

\* So does it stay in the steps both protocols share,
LEMMA WorkloadType ==
  ASSUME TypeOK, Workload, UNCHANGED protocolVars
  PROVE  TypeOK'
<1>0. cur' \in Slots /\ raising' \in BOOLEAN
  BY DEF TypeOK, protocolVars
<1>1. ASSUME NEW x \in Queries, StartQuery(x) PROVE TypeOK'
  BY <1>0, <1>1, LevelSeqDomain
  DEF TypeOK, TableTypeOK, RunTypeOK, Running, StartQuery, Goto, tableVars,
      EmptyBase, EmptyReads
<1>2. ASSUME NEW x \in Queries, SkipQuery(x) PROVE TypeOK'
  BY <1>0, <1>2 DEF TypeOK, TableTypeOK, RunTypeOK, SkipQuery, tableVars
<1>3. CASE CatchFailure
  BY <1>0, <1>3
  DEF TypeOK, TableTypeOK, RunTypeOK, Running, CatchFailure, Goto, tableVars
<1>4. CASE FinishRun
  <2>1. PinnedColumns \in Targets
    BY PgTableAssumption DEF PinnedColumns, TypeOK, TableTypeOK
  <2>2. Targets \subseteq Nat
    BY DEF Targets
  <2>3. RowsAt(PinnedColumns) \in Nat
    BY <2>1, <2>2, RowsAtMonotone
  <2>4. TableTypeOK'
    BY <1>4, <2>1, <2>2, <2>3, RemoveStatsType
    DEF TypeOK, TableTypeOK, FinishRun, SingleStats
  <2>5. RunTypeOK'
    BY <1>4 DEF TypeOK, RunTypeOK, FinishRun, Goto, Parked
  <2> QED
    BY <1>0, <2>4, <2>5 DEF TypeOK
<1>5. CASE FinishRunFails
  BY <1>0, <1>5, RemoveStatsType
  DEF TypeOK, TableTypeOK, RunTypeOK, Parked, FinishRunFails, Goto, Raise,
      DropStats
<1>6. CASE EnterSamplingState
  <2>1. TargetForLevel(Level) \in Targets
    BY LevelType DEF TypeOK, RunTypeOK
  <2>2. TableTypeOK'
    BY <1>6, <2>1, AnalyzeType DEF TypeOK, TableTypeOK, EnterSamplingState
  <2>3. RunTypeOK'
    BY <1>6 DEF TypeOK, RunTypeOK, Running, EnterSamplingState, Goto, NoRaise
  <2> QED
    BY <1>0, <2>2, <2>3 DEF TypeOK
<1>7. CASE EnterSamplingStateRaises
  <2>1. TargetForLevel(Level) \in Targets
    BY LevelType DEF TypeOK, RunTypeOK
  <2>2. TableTypeOK'
    BY <1>7, <2>1
    DEF TypeOK, TableTypeOK, EnterSamplingStateRaises, SetTargets
  <2>3. RunTypeOK'
    BY <1>7
    DEF TypeOK, RunTypeOK, Running, EnterSamplingStateRaises, Goto, Raise
  <2> QED
    BY <1>0, <2>2, <2>3 DEF TypeOK
<1>8. CASE DropLeftovers
  BY <1>0, <1>8, RemoveStatsType
  DEF TypeOK, TableTypeOK, RunTypeOK, Running, DropLeftovers, Goto, NoRaise,
      DropStats
<1>9. CASE DropLeftoversRaises
  BY <1>0, <1>9, RemoveStatsType
  DEF TypeOK, TableTypeOK, RunTypeOK, Running, DropLeftoversRaises, Goto,
      Raise, DropStats
<1>10. CASE MeasureBaseline
  <2>1. Seen \in Readings
    BY SeenType DEF TypeOK
  <2>2. RunTypeOK'
    BY <1>10, <2>1, SlotsAtType
    DEF TypeOK, RunTypeOK, Running, MeasureBaseline, Goto, NoRaise
  <2>3. TableTypeOK'
    BY <1>10 DEF TypeOK, TableTypeOK, MeasureBaseline, tableVars
  <2> QED
    BY <1>0, <2>2, <2>3 DEF TypeOK
<1>11. CASE MeasureBaselineRaises
  BY <1>0, <1>11
  DEF TypeOK, TableTypeOK, RunTypeOK, Running, MeasureBaselineRaises, Goto,
      Raise, tableVars
<1>12. CASE WriteQueryMeasure
  BY <1>0, <1>12
  DEF TypeOK, TableTypeOK, RunTypeOK, Running, WriteQueryMeasure, Goto,
      NoRaise, tableVars, Blocks
<1>13. CASE WriteQueryMeasureRaises
  BY <1>0, <1>13
  DEF TypeOK, TableTypeOK, RunTypeOK, Running, WriteQueryMeasureRaises, Goto,
      Raise, tableVars
<1>14. CASE Resume
  BY <1>0, <1>14
  DEF TypeOK, TableTypeOK, RunTypeOK, Running, Resume, tableVars
<1> QED
  BY <1>1, <1>2, <1>3, <1>4, <1>5, <1>6, <1>7, <1>8, <1>9, <1>10, <1>11,
     <1>12, <1>13, <1>14 DEF Workload

\* and in those on one object.
LEMMA ProtocolType ==
  ASSUME TypeOK, Protocol
  PROVE  TypeOK'
<1>1. ASSUME NEW s \in Slots, CreateObject(s) PROVE TypeOK'
  BY <1>1
  DEF TypeOK, TableTypeOK, RunTypeOK, Running, CreateObject, CreateStat, Stats, Goto, NoRaise
<1>2. CASE CreateObjectRaises
  BY <1>2, RemoveStatsType
  DEF TypeOK, TableTypeOK, RunTypeOK, Running, CreateObjectRaises, Goto, Raise,
      DropStats, protocolVars
<1>3. colTarget \in Targets /\ BuildTargets \in [Stats -> Targets \cup {Unset}]
  BY SlotParam DEF TypeOK, TableTypeOK, BuildTargets
<1>4. CASE BuildObject
  <2>1. TableTypeOK'
    BY <1>3, <1>4, AnalyzeType DEF BuildObject, TypeOK
  <2> QED
    BY <1>4, <2>1 DEF TypeOK, RunTypeOK, Running, BuildObject, Goto, NoRaise, protocolVars
<1>5. CASE BuildObjectRaises
  <2>1. TableTypeOK'
    BY <1>3, <1>5 DEF BuildObjectRaises, TypeOK, TableTypeOK, SetTargets, tableVars
  <2> QED
    BY <1>5, <2>1 DEF TypeOK, RunTypeOK, Running, BuildObjectRaises, Goto, Raise
<1>6. CASE ReadObject
  BY <1>6, SeenType
  DEF TypeOK, TableTypeOK, RunTypeOK, Running, ReadObject, Goto, NoRaise, tableVars,
      protocolVars
<1>7. CASE ReadObjectRaises
  BY <1>7
  DEF TypeOK, TableTypeOK, RunTypeOK, Running, ReadObjectRaises, Goto, Raise, tableVars
<1>8. CASE DropObject
  BY <1>8, RemoveStatsType, AnySlotType
  DEF TypeOK, TableTypeOK, RunTypeOK, Running, DropObject, NoRaise, DropStats
<1>9. CASE DropObjectRaises
  <2>1. TableTypeOK'
    BY <1>9 DEF TypeOK, TableTypeOK, DropObjectRaises, tableVars
  <2>2. RunTypeOK'
    BY <1>9 DEF TypeOK, RunTypeOK, Running, DropObjectRaises, Goto, Raise
  <2> QED
    BY <1>9, <2>1, <2>2, AnySlotType DEF TypeOK, DropObjectRaises
<1>10. CASE LevelDone
  BY <1>10, NextLevelType
  DEF TypeOK, TableTypeOK, RunTypeOK, Running, LevelDone, NoRaise, tableVars, protocolVars
<1> QED
  BY <1>1, <1>2, <1>4, <1>5, <1>6, <1>7, <1>8, <1>9, <1>10 DEF Protocol

\* Hence in every step.
LEMMA TypeInductive == TypeOK /\ [Next]_vars => TypeOK'
<1> SUFFICES ASSUME TypeOK, [Next]_vars PROVE TypeOK'
  OBVIOUS
<1>1. CASE Workload /\ UNCHANGED protocolVars
  BY <1>1, WorkloadType
<1>2. CASE Protocol
  BY <1>2, ProtocolType
<1>3. CASE ProcessDies
  <2>1. TableTypeOK'
    BY <1>3 DEF TypeOK, TableTypeOK, ProcessDies, Crash, tableVars
  <2>2. RunTypeOK'
    BY <1>3 DEF TypeOK, RunTypeOK, Parked, ProcessDies, Crash, Raise
  <2> QED
    BY <1>3, <2>1, <2>2, AnySlotType DEF TypeOK, ProcessDies
<1>4. CASE UNCHANGED vars
  BY <1>4 DEF TypeOK, TableTypeOK, RunTypeOK, vars, tableVars, runVars, protocolVars
<1> QED
  BY <1>1, <1>2, <1>3, <1>4 DEF Next, Finished

-----------------------------------------------------------------------------
(* The inductive invariant, by topic. *)

Depth(l) == RowsAt(TargetForLevel(l))
Built(s) == [param |-> s.param, rows |-> Depth(s.level)]

AtObject == {"build", "read", "drop"}
InQuery == {"enter", "clean", "baseline", "create", "write"} \cup AtObject

\* Nothing but the object under measurement is on the table.
TableIsClear ==
  /\ pc \in {"baseline", "create"} => installed = {}
  /\ pc \in AtObject => installed = {cur}

\* The columns are in the sampling state of the level being measured, and the
\* object has been built at its own parameter over the level's rows.
ColumnsAtLevel ==
  /\ pc \in {"clean", "baseline", "create"} \cup AtObject =>
       /\ colTarget = TargetForLevel(Level)
       /\ colStats.target = TargetForLevel(Level)
       /\ colStats.rows >= Depth(Level)
  /\ pc = "read" =>
       /\ colStats.rows = Depth(Level)
       /\ payload[cur] = Built(cur) \/ (payload[cur] = Null /\ cur.cand \in MayBeEmpty)

\* The object is a slot of the level, and no exception outlives the finally.
ObjectOfLevel ==
  /\ pc \in {"create"} \cup AtObject => todo \subseteq SlotsAt(q, Level)
  /\ pc \in AtObject => cur \in SlotsAt(q, Level) \ todo
  /\ raising => pc = "drop"

LevelMeasured(l) ==
  /\ base[l] # NoReading
  /\ \A s \in SlotsAt(q, l) : reads[s] # NoReading

\* What the query has read so far is sound, and the levels behind are whole.
ReadingsSound ==
  /\ \A l \in Levels : base[l] # NoReading => Abstract!IsBaseline(base[l], l)
  /\ \A s \in Slots : reads[s] # NoReading =>
       /\ s \in SlotsOf(q)
       /\ base[s.level] # NoReading
       /\ Abstract!IsCandidateReading(reads[s], s)
ReadingsComplete ==
  /\ pc \in InQuery => \A j \in 1 .. (li - 1) : LevelMeasured(LevelSeq[j])
  /\ pc \in {"create"} \cup AtObject => base[Level] # NoReading
  /\ pc = "create" \/ (pc = "drop" /\ ~raising) =>
       \A s \in SlotsAt(q, Level) \ todo : reads[s] # NoReading
  /\ pc \in {"build", "read"} =>
       \A s \in SlotsAt(q, Level) \ (todo \cup {cur}) : reads[s] # NoReading
  /\ pc = "write" => \A l \in Levels : LevelMeasured(l)

\* The corpus holds finished blocks only, and never the query in progress.
CorpusSound ==
  /\ \A x \in Queries : file[x] # NoFile => Abstract!IsBlock(file[x], x)
  /\ pc \in InQuery => file[q] = NoFile

AloneInv ==
  /\ TypeOK
  /\ TableIsClear /\ ColumnsAtLevel /\ ObjectOfLevel
  /\ ReadingsSound /\ ReadingsComplete /\ CorpusSound

-----------------------------------------------------------------------------
(* The abstract measurement's vocabulary in this module's terms. *)

\* The grid means the same on both sides.
LEMMA AbstractGrid ==
  /\ Abstract!Levels = Levels
  /\ Abstract!Slots = Slots
  /\ \A x : Abstract!SlotsOf(x) = SlotsOf(x)
  /\ \A l : Abstract!TargetForLevel(l) = TargetForLevel(l)
  /\ \A l : Abstract!DeepRows(l) = Depth(l)
<1>1. Abstract!Levels = Levels
  BY DEF Abstract!Levels, Levels
<1>2. Abstract!Slots = Slots
  BY <1>1 DEF Abstract!Slots, Slots
<1>3. \A l : Abstract!TargetForLevel(l) = TargetForLevel(l)
  BY DEF Abstract!TargetForLevel, TargetForLevel, Abstract!LesserOf, LesserOf
<1>4. \A t : Abstract!RowsAt(t) = RowsAt(t)
  BY DEF Abstract!RowsAt, RowsAt, Abstract!LesserOf, LesserOf
<1>5. \A l : Abstract!DeepRows(l) = Depth(l)
  BY <1>3, <1>4 DEF Abstract!DeepRows, Depth
<1>6. \A x, l : Abstract!SlotsAt(x, l) = SlotsAt(x, l)
  BY <1>2, <1>3 DEF Abstract!SlotsAt, SlotsAt
<1>7. \A x : Abstract!SlotsOf(x) = SlotsOf(x)
  BY <1>1, <1>6 DEF Abstract!SlotsOf, SlotsOf
<1> QED
  BY <1>1, <1>2, <1>3, <1>5, <1>7

\* What the contract asks of a baseline,
LEMMA AbstractBaseline ==
  \A r, l : Abstract!IsBaseline(r, l) <=>
     /\ r.single.target = TargetForLevel(l)
     /\ r.single.rows >= Depth(l)
     /\ r.live = {}
BY AbstractGrid DEF Abstract!IsBaseline

\* of a candidate's reading,
LEMMA AbstractCandidateReading ==
  \A r, s : Abstract!IsCandidateReading(r, s) <=>
     /\ r.single = [target |-> TargetForLevel(s.level), rows |-> Depth(s.level)]
     /\ \/ r.live = {[stat |-> s, payload |-> Built(s)]}
        \/ r.live = {} /\ s.cand \in MayBeEmpty
BY AbstractGrid
DEF Abstract!IsCandidateReading, Abstract!Alone, Built

\* and of a query's file.
LEMMA AbstractBlock ==
  \A b, x : Abstract!IsBlock(b, x) <=>
     /\ \A l \in Levels : b.base[l] # NoReading /\ Abstract!IsBaseline(b.base[l], l)
     /\ \A s \in Slots :
           IF s \in SlotsOf(x)
           THEN b.reads[s] # NoReading /\ Abstract!IsCandidateReading(b.reads[s], s)
           ELSE b.reads[s] = NoReading
BY AbstractGrid DEF Abstract!IsBlock

-----------------------------------------------------------------------------
(* The invariant is inductive: the workload loop and the levels. *)

\* A run begins with nothing read.
LEMMA InitAlone == Init => AloneInv
<1> SUFFICES ASSUME Init PROVE AloneInv
  OBVIOUS
<1>1. TypeOK
  BY InitType
<1>2. ReadingsSound
  BY DEF Init, RunInit, ReadingsSound, EmptyBase, EmptyReads
<1> QED
  BY <1>1, <1>2
  DEF Init, RunInit, AloneInv, TableIsClear, ColumnsAtLevel, ObjectOfLevel, ReadingsComplete,
      CorpusSound, InQuery, AtObject

\* Leaving the query keeps the invariant whatever is left on the table.
LEMMA IdleStep ==
  ASSUME AloneInv, TypeOK', ~raising',
         pc' \in {"next", "failed", "down", "done", "doneDirty"},
         UNCHANGED <<q, base, reads, file>>
  PROVE  AloneInv'
<1>1. ReadingsSound'
  BY DEF AloneInv, ReadingsSound
<1> QED
  BY <1>1
  DEF AloneInv, TableIsClear, ColumnsAtLevel, ObjectOfLevel, ReadingsComplete, CorpusSound,
      InQuery, AtObject

\* A query begins with an empty block.
LEMMA StartQueryAlone ==
  ASSUME AloneInv, TypeOK', UNCHANGED protocolVars, NEW x \in Queries, StartQuery(x)
  PROVE  AloneInv'
<1>1. ReadingsSound'
  BY DEF StartQuery, ReadingsSound, EmptyBase, EmptyReads
<1>2. ReadingsComplete'
  BY DEF StartQuery, Goto, ReadingsComplete, AtObject
<1>3. CorpusSound'
  BY DEF AloneInv, StartQuery, CorpusSound
<1> QED
  BY <1>1, <1>2, <1>3
  DEF AloneInv, StartQuery, Goto, TableIsClear, ColumnsAtLevel, ObjectOfLevel, AtObject,
      protocolVars

\* The sampling state: leftovers may deepen its scan, never make it shallower.
LEMMA EnterSamplingStateAlone ==
  ASSUME AloneInv, TypeOK', UNCHANGED protocolVars, EnterSamplingState
  PROVE  AloneInv'
<1>1. TargetForLevel(Level) \in Targets /\ TableTypeOK
  BY LevelType DEF AloneInv, TypeOK, RunTypeOK
<1>2. /\ ScanRows(TargetForLevel(Level), target) \in Nat
      /\ Depth(Level) <= ScanRows(TargetForLevel(Level), target)
  BY <1>1, ScanRowsAtLeast DEF TableTypeOK, Depth
<1>3. Level' = Level
  BY DEF EnterSamplingState, Level
<1>4. Depth(Level) \in Nat
  BY <1>1, RowsAtMonotone DEF Depth, Targets
<1>5. ColumnsAtLevel'
  <2>1. colStats' = [target |-> TargetForLevel(Level),
                     rows |-> ScanRows(TargetForLevel(Level), target)]
        /\ colTarget' = TargetForLevel(Level)
    BY DEF EnterSamplingState, Analyze
  <2>2. colStats.rows' >= Depth(Level)'
    BY <1>2, <1>3, <1>4, <2>1
  <2> QED
    BY <1>3, <2>1, <2>2 DEF ColumnsAtLevel, EnterSamplingState, Goto
<1>6. ReadingsSound'
  BY DEF AloneInv, EnterSamplingState, ReadingsSound
<1>7. ReadingsComplete'
  BY <1>3
  DEF AloneInv, EnterSamplingState, Goto, ReadingsComplete, LevelMeasured, InQuery, AtObject
<1> QED
  BY <1>5, <1>6, <1>7
  DEF AloneInv, EnterSamplingState, Goto, TableIsClear, ObjectOfLevel, CorpusSound, InQuery,
      AtObject, protocolVars

\* Nothing is left on the table for the baseline.
LEMMA DropLeftoversAlone ==
  ASSUME AloneInv, TypeOK', UNCHANGED protocolVars, DropLeftovers
  PROVE  AloneInv'
<1>1. Level' = Level
  BY DEF DropLeftovers, Level
<1>2. ReadingsSound'
  BY DEF AloneInv, DropLeftovers, ReadingsSound
<1>3. ReadingsComplete'
  BY <1>1
  DEF AloneInv, DropLeftovers, Goto, ReadingsComplete, LevelMeasured, InQuery, AtObject
<1>4. TableIsClear'
  BY DEF DropLeftovers, DropStats, RemoveStats, Goto, TableIsClear, AtObject
<1> QED
  BY <1>1, <1>2, <1>3, <1>4
  DEF AloneInv, DropLeftovers, DropStats, Goto, ColumnsAtLevel, ObjectOfLevel, CorpusSound,
      InQuery, AtObject, protocolVars

\* The baseline sees no extended statistic and is deep enough.
LEMMA MeasureBaselineAlone ==
  ASSUME AloneInv, TypeOK', UNCHANGED protocolVars, MeasureBaseline
  PROVE  AloneInv'
<1>1. Level' = Level /\ Level \in Levels
  BY LevelType DEF MeasureBaseline, Level, AloneInv, TypeOK, RunTypeOK
<1>2. Seen.live = {} /\ Seen \in Readings
  BY SeenType DEF Seen, AloneInv, TableIsClear, TypeOK, MeasureBaseline, Goto
<1>3. Abstract!IsBaseline(Seen, Level)
  BY <1>2, AbstractBaseline
  DEF Seen, AloneInv, ColumnsAtLevel, MeasureBaseline, Goto
<1>4. base \in [Levels -> Readings \cup {NoReading}] /\ base' = [base EXCEPT ![Level] = Seen]
  BY DEF AloneInv, TypeOK, RunTypeOK, MeasureBaseline
<1>5. \A l \in Levels : base'[l] = IF l = Level THEN Seen ELSE base[l]
  BY <1>4
<1>6. Seen # NoReading
  BY <1>2, MeasureRunAssumption
<1>7. ReadingsSound'
  <2>1. \A s \in Slots : s.level \in Levels
    BY DEF Slots
  <2> QED
    BY <1>3, <1>5, <1>6, <2>1 DEF AloneInv, ReadingsSound, MeasureBaseline
<1>8. ReadingsComplete'
  <2>1. \A j \in 1 .. (li - 1) : LevelSeq[j] \in Levels
    BY LevelSeqDomain DEF Levels, AloneInv, TypeOK, RunTypeOK
  <2>2. \A j \in 1 .. (li - 1) : LevelMeasured(LevelSeq[j])'
    BY <1>5, <1>6, <2>1
    DEF AloneInv, ReadingsComplete, InQuery, LevelMeasured, MeasureBaseline, Goto
  <2>3. base'[Level'] # NoReading
    BY <1>1, <1>5, <1>6
  <2>4. todo' = SlotsAt(q, Level)'
    BY <1>1 DEF MeasureBaseline
  <2> QED
    BY <2>2, <2>3, <2>4 DEF ReadingsComplete, MeasureBaseline, Goto, AtObject
<1>9. ObjectOfLevel'
  BY <1>1 DEF MeasureBaseline, Goto, AloneInv, ObjectOfLevel, AtObject, protocolVars
<1> QED
  BY <1>1, <1>7, <1>8, <1>9
  DEF AloneInv, MeasureBaseline, Goto, TableIsClear, ColumnsAtLevel, CorpusSound, InQuery,
      AtObject, tableVars, protocolVars

\* A query is filed when every level is whole.
LEMMA WriteAlone ==
  ASSUME AloneInv, TypeOK', UNCHANGED protocolVars, WriteQueryMeasure
  PROVE  /\ AloneInv'
         /\ file[q] = NoFile
         /\ file' = [file EXCEPT ![q] = [base |-> base, reads |-> reads]]
         /\ Abstract!IsBlock([base |-> base, reads |-> reads], q)
<1>1. file[q] = NoFile /\ \A l \in Levels : LevelMeasured(l)
  BY DEF AloneInv, CorpusSound, ReadingsComplete, InQuery, WriteQueryMeasure, Goto
<1>2. \A s \in Slots : s \in SlotsOf(q) <=> reads[s] # NoReading
  BY <1>1, SlotsOfLevel DEF AloneInv, ReadingsSound, LevelMeasured, Slots
<1>3. Abstract!IsBlock([base |-> base, reads |-> reads], q)
  BY <1>1, <1>2, AbstractBlock DEF AloneInv, ReadingsSound, LevelMeasured
<1>4. file' = [file EXCEPT ![q] = [base |-> base, reads |-> reads]]
  BY DEF WriteQueryMeasure
<1>5. CorpusSound'
  <2>1. \A x \in Queries : file'[x] = IF x = q THEN [base |-> base, reads |-> reads]
                                               ELSE file[x]
    BY <1>4 DEF AloneInv, TypeOK, RunTypeOK
  <2>2. \A x \in Queries : file'[x] # NoFile => Abstract!IsBlock(file'[x], x)
    BY <1>3, <2>1 DEF AloneInv, CorpusSound
  <2> QED
    BY <2>2 DEF CorpusSound, WriteQueryMeasure, Goto, InQuery, AtObject
<1>6. ReadingsSound'
  BY DEF AloneInv, WriteQueryMeasure, ReadingsSound
<1>7. AloneInv'
  BY <1>5, <1>6
  DEF AloneInv, WriteQueryMeasure, Goto, TableIsClear, ColumnsAtLevel, ObjectOfLevel,
      ReadingsComplete, InQuery, AtObject, protocolVars
<1> QED
  BY <1>1, <1>3, <1>4, <1>7

\* Together.
LEMMA WorkloadAlone ==
  ASSUME AloneInv, Workload, UNCHANGED protocolVars
  PROVE  AloneInv'
<1>0. TypeOK'
  BY WorkloadType DEF AloneInv
<1>1. ~ raising' \/ pc = "drop"
  BY DEF AloneInv, ObjectOfLevel, protocolVars
<1>2. ASSUME NEW x \in Queries, StartQuery(x) PROVE AloneInv'
  BY <1>0, <1>2, StartQueryAlone
<1>3. ASSUME NEW x \in Queries, SkipQuery(x) PROVE AloneInv'
  BY <1>0, <1>1, <1>3, IdleStep DEF SkipQuery
<1>4. CASE CatchFailure
  BY <1>0, <1>1, <1>4, IdleStep DEF CatchFailure, Goto
<1>5. CASE FinishRun
  BY <1>0, <1>1, <1>5, IdleStep DEF FinishRun, Goto
<1>6. CASE FinishRunFails
  BY <1>0, <1>1, <1>6, IdleStep DEF FinishRunFails, Goto
<1>7. CASE EnterSamplingState
  BY <1>0, <1>7, EnterSamplingStateAlone
<1>8. CASE EnterSamplingStateRaises
  BY <1>0, <1>1, <1>8, IdleStep DEF EnterSamplingStateRaises, Goto
<1>9. CASE DropLeftovers
  BY <1>0, <1>9, DropLeftoversAlone
<1>10. CASE DropLeftoversRaises
  BY <1>0, <1>1, <1>10, IdleStep DEF DropLeftoversRaises, Goto
<1>11. CASE MeasureBaseline
  BY <1>0, <1>11, MeasureBaselineAlone
<1>12. CASE MeasureBaselineRaises
  BY <1>0, <1>1, <1>12, IdleStep DEF MeasureBaselineRaises, Goto
<1>13. CASE WriteQueryMeasure
  BY <1>0, <1>13, WriteAlone
<1>14. CASE WriteQueryMeasureRaises
  BY <1>0, <1>1, <1>14, IdleStep DEF WriteQueryMeasureRaises, Goto
<1>15. CASE Resume
  BY <1>0, <1>1, <1>15, IdleStep DEF Resume, Parked
<1> QED
  BY <1>2, <1>3, <1>4, <1>5, <1>6, <1>7, <1>8, <1>9, <1>10, <1>11, <1>12,
     <1>13, <1>14, <1>15 DEF Workload

-----------------------------------------------------------------------------
(* One object at a time. *)

\* The object is the only one on the table.
LEMMA CreateObjectAlone ==
  ASSUME AloneInv, TypeOK', NEW s \in Slots, CreateObject(s)
  PROVE  AloneInv'
<1>1. Level' = Level /\ cur' = s /\ s \in SlotsAt(q, Level) /\ q' = q
  BY DEF CreateObject, Goto, Level, AloneInv, ObjectOfLevel
<1>2. TableIsClear'
  BY <1>1 DEF AloneInv, TableIsClear, CreateObject, CreateStat, Goto, AtObject
<1>3. ColumnsAtLevel'
  BY <1>1 DEF AloneInv, ColumnsAtLevel, CreateObject, CreateStat, Goto, AtObject
<1>4. ObjectOfLevel'
  BY <1>1 DEF AloneInv, ObjectOfLevel, CreateObject, Goto, AtObject
<1>5. ReadingsSound'
  BY DEF AloneInv, ReadingsSound, CreateObject
<1>6. ReadingsComplete'
  BY <1>1
  DEF AloneInv, ReadingsComplete, LevelMeasured, InQuery, AtObject, CreateObject, Goto
<1> QED
  BY <1>2, <1>3, <1>4, <1>5, <1>6
  DEF AloneInv, CorpusSound, InQuery, AtObject, CreateObject, Goto

\* One object below the level's target: its ANALYZE scans the level's rows.
LEMMA ObjectDepth ==
  ASSUME TypeOK, cur \in SlotsAt(q, Level), installed = {cur}
  PROVE  ScanRows(TargetForLevel(Level), BuildTargets) = Depth(Level)
<1>1. TargetForLevel(Level) \in Targets
  BY LevelType DEF TypeOK, RunTypeOK
<1>2. BuildTargets \in [Stats -> Targets \cup {Unset}]
  BY SlotParam DEF TypeOK, TableTypeOK, BuildTargets
<1>3. cur \in Stats /\ cur \in Slots /\ cur.param <= TargetForLevel(Level)
  BY DEF SlotsAt, Stats
<1>4. BuildTargets[cur] = cur.param
  BY <1>3 DEF BuildTargets, TypeOK, TableTypeOK
<1>5. cur.param # Unset
  BY <1>3, SlotParam, PgTableAssumption DEF Targets
<1>6. \A s \in installed :
         EffectiveTarget(s, TargetForLevel(Level), BuildTargets) <= TargetForLevel(Level)
  BY <1>3, <1>4, <1>5 DEF EffectiveTarget
<1> QED
  BY <1>1, <1>2, <1>3, <1>6, ScanRowsExact DEF Depth

\* ANALYZE builds it at its own parameter and leaves the columns at the level's target.
LEMMA BuildObjectAlone ==
  ASSUME AloneInv, TypeOK', BuildObject
  PROVE  AloneInv'
<1>1. /\ Level' = Level /\ cur' = cur /\ q' = q
      /\ cur \in SlotsAt(q, Level) /\ installed = {cur}
      /\ colTarget = TargetForLevel(Level)
      /\ TypeOK
  BY DEF BuildObject, Goto, Level, AloneInv, ObjectOfLevel, TableIsClear, ColumnsAtLevel,
         AtObject, protocolVars
<1>2. PICK hollow \in HollowSets : Analyze(TargetForLevel(Level), BuildTargets, hollow)
  BY <1>1 DEF BuildObject
<1>3. ScanRows(TargetForLevel(Level), BuildTargets) = Depth(Level)
  BY <1>1, ObjectDepth
<1>4. cur \in Slots /\ cur \in Stats /\ cur.level = Level
  BY <1>1 DEF SlotsAt, Stats
<1>5. BuildTargets[cur] = cur.param /\ cur.param # Unset
  BY <1>1, <1>4, SlotParam, PgTableAssumption DEF BuildTargets, Targets, TypeOK, TableTypeOK
<1>6. cur \in hollow => cur.cand \in MayBeEmpty
  BY <1>4 DEF HollowSets
<1>7. payload'[cur] = IF cur \in installed \ hollow
                      THEN [param |-> cur.param, rows |-> Depth(Level)] ELSE Null
  BY <1>2, <1>3, <1>4, <1>5 DEF Analyze, EffectiveTarget
<1>8. colStats' = [target |-> TargetForLevel(Level), rows |-> Depth(Level)]
      /\ colTarget' = TargetForLevel(Level) /\ installed' = installed
  BY <1>2, <1>3 DEF Analyze
<1>9. Depth(Level) \in Nat
  BY <1>1, LevelType, RowsAtMonotone DEF Depth, Targets, TypeOK, RunTypeOK
<1>10. payload'[cur'] = Built(cur)' \/ (payload'[cur'] = Null /\ cur'.cand \in MayBeEmpty)
  BY <1>1, <1>4, <1>6, <1>7 DEF Built, Depth
<1>11. ColumnsAtLevel'
  <2>1. colStats'.rows = Depth(Level) /\ colStats'.target = TargetForLevel(Level)
    BY <1>8
  <2>2. Depth(Level)' = Depth(Level) /\ TargetForLevel(Level)' = TargetForLevel(Level)
    BY <1>1
  <2> QED
    BY <1>8, <1>9, <1>10, <2>1, <2>2 DEF ColumnsAtLevel
<1>12. ReadingsSound'
  BY DEF AloneInv, ReadingsSound, BuildObject
<1>13. ReadingsComplete'
  BY <1>1
  DEF AloneInv, ReadingsComplete, LevelMeasured, InQuery, AtObject, BuildObject, Goto
<1>14. TableIsClear'
  BY <1>1, <1>8 DEF TableIsClear, BuildObject, Goto
<1>15. ObjectOfLevel'
  BY <1>1 DEF AloneInv, ObjectOfLevel, BuildObject, Goto, AtObject, protocolVars
<1> QED
  BY <1>11, <1>12, <1>13, <1>14, <1>15
  DEF AloneInv, CorpusSound, InQuery, AtObject, BuildObject, Goto

\* An exception on the way sends the object to the finally block.
LEMMA RaiseStep ==
  ASSUME AloneInv, TypeOK', pc \in {"build", "read"}, pc' = "drop", raising',
         UNCHANGED <<installed, colTarget, colStats, q, li, todo, base, reads, file, cur>>
  PROVE  AloneInv'
<1>1. Level' = Level
  BY DEF Level
<1>2. ReadingsSound'
  BY DEF AloneInv, ReadingsSound
<1>3. ReadingsComplete'
  BY <1>1 DEF AloneInv, ReadingsComplete, LevelMeasured, InQuery, AtObject
<1> QED
  BY <1>1, <1>2, <1>3
  DEF AloneInv, TableIsClear, ColumnsAtLevel, ObjectOfLevel, CorpusSound, InQuery, AtObject

\* What EXPLAIN shows while one object is on the table is that object's reading.
LEMMA SeenIsCandidateReading ==
  ASSUME AloneInv, pc = "read"
  PROVE  Abstract!IsCandidateReading(Seen, cur)
<1>1. cur \in Slots /\ installed = {cur} /\ cur.level = Level
  BY DEF AloneInv, TableIsClear, ObjectOfLevel, AtObject, SlotsAt
<1>2. payload[cur] = Built(cur) \/ (payload[cur] = Null /\ cur.cand \in MayBeEmpty)
  BY DEF AloneInv, ColumnsAtLevel
<1>3. Seen.live = IF payload[cur] = Null THEN {}
                  ELSE {[stat |-> cur, payload |-> payload[cur]]}
  BY <1>1 DEF Seen
<1>4. Seen.single = [target |-> TargetForLevel(cur.level), rows |-> Depth(cur.level)]
  <2>1. colStats \in SingleStats
    BY DEF AloneInv, TypeOK, TableTypeOK
  <2>2. colStats.target = TargetForLevel(Level) /\ colStats.rows = Depth(Level)
    BY DEF AloneInv, ColumnsAtLevel, AtObject
  <2> QED
    BY <1>1, <2>1, <2>2 DEF SingleStats, Seen
<1>5. Null # Built(cur)
  <2>1. cur.param \in Nat
    BY <1>1, SlotParam DEF Targets
  <2>2. Depth(cur.level) \in Nat
    BY <1>1, TargetForLevelType, RowsAtMonotone DEF Depth, Slots, Targets
  <2> QED
    BY <2>1, <2>2, PgTableAssumption DEF Built
<1> QED
  BY <1>2, <1>3, <1>4, <1>5, AbstractCandidateReading

\* Its reading goes into its own slot.
LEMMA ReadObjectAlone ==
  ASSUME AloneInv, TypeOK', ReadObject
  PROVE  AloneInv'
<1>1. /\ Level' = Level /\ todo' = todo /\ cur' = cur /\ q' = q
      /\ cur \in SlotsAt(q, Level) \ todo
      /\ raising' = raising /\ ~ raising
  BY DEF ReadObject, Goto, Level, protocolVars, AloneInv, ObjectOfLevel, AtObject
<1>2. cur \in Slots /\ cur.level = Level /\ cur \in SlotsOf(q)
  BY <1>1, SlotsOfLevel DEF SlotsAt, Slots
<1>3. Abstract!IsCandidateReading(Seen, cur)
  BY SeenIsCandidateReading DEF ReadObject, Goto
<1>4. \A s \in Slots : reads'[s] = IF s = cur THEN Seen ELSE reads[s]
  BY DEF ReadObject, AloneInv, TypeOK, RunTypeOK
<1>5. Seen # NoReading
  BY SeenType, MeasureRunAssumption DEF AloneInv, TypeOK
<1>6. base[Level] # NoReading
  BY DEF AloneInv, ReadingsComplete, ReadObject, Goto, AtObject
<1>7. ReadingsSound'
  BY <1>2, <1>3, <1>4, <1>6 DEF AloneInv, ReadingsSound, ReadObject
<1>8. ReadingsComplete'
  <2>1. \A l : SlotsAt(q, l) \subseteq Slots
    BY SlotsAtType
  <2>2. \A l : LevelMeasured(l) => LevelMeasured(l)'
    BY <1>4, <1>5, <2>1 DEF LevelMeasured, ReadObject
  <2>3. \A s \in SlotsAt(q, Level) \ todo : reads'[s] # NoReading
    BY <1>1, <1>4, <1>5, <2>1 DEF AloneInv, ReadingsComplete, ReadObject, Goto
  <2> QED
    BY <1>1, <2>2, <2>3
    DEF AloneInv, ReadingsComplete, InQuery, AtObject, ReadObject, Goto
<1> QED
  BY <1>1, <1>7, <1>8
  DEF AloneInv, TableIsClear, ColumnsAtLevel, ObjectOfLevel, CorpusSound, InQuery, AtObject,
      ReadObject, Goto, tableVars, protocolVars

\* The finally block drops it, whether the reading raised or not.
LEMMA DropObjectAlone ==
  ASSUME AloneInv, TypeOK', DropObject
  PROVE  AloneInv'
<1>1. CASE raising
  BY <1>1, IdleStep DEF DropObject
<1>2. CASE ~ raising
  <2>1. Level' = Level /\ pc' = "create" /\ pc = "drop" /\ q' = q /\ todo' = todo /\ ~ raising'
    BY <1>2 DEF DropObject, Level
  <2>2. TableIsClear'
    BY <2>1
    DEF AloneInv, TableIsClear, AtObject, DropObject, DropStats, RemoveStats
  <2>3. ColumnsAtLevel'
    BY <2>1 DEF AloneInv, ColumnsAtLevel, AtObject, DropObject, DropStats
  <2>4. ObjectOfLevel'
    BY <2>1 DEF AloneInv, ObjectOfLevel, AtObject
  <2>5. ReadingsSound'
    BY DEF AloneInv, ReadingsSound, DropObject
  <2>6. ReadingsComplete'
    BY <1>2, <2>1 DEF AloneInv, ReadingsComplete, LevelMeasured, InQuery, AtObject, DropObject
  <2> QED
    BY <2>1, <2>2, <2>3, <2>4, <2>5, <2>6
    DEF AloneInv, CorpusSound, InQuery, AtObject, DropObject
<1> QED
  BY <1>1, <1>2

\* A level is left when every slot of it has been read.
LEMMA LevelDoneAlone ==
  ASSUME AloneInv, TypeOK', LevelDone
  PROVE  AloneInv'
<1>1. li \in 1 .. Len(LevelSeq) /\ Len(LevelSeq) \in Nat
  BY LevelSeqDomain DEF AloneInv, TypeOK, RunTypeOK
<1>2. \A j \in 1 .. li : LevelMeasured(LevelSeq[j])
  BY <1>1 DEF AloneInv, ReadingsComplete, LevelMeasured, InQuery, Level, LevelDone
<1>3. \A l : LevelMeasured(l)' <=> LevelMeasured(l)
  BY DEF LevelMeasured, LevelDone
<1>4. ReadingsSound'
  BY DEF AloneInv, ReadingsSound, LevelDone
<1>5. ~ raising'
  BY DEF AloneInv, ObjectOfLevel, LevelDone, protocolVars
<1>6. CASE li = Len(LevelSeq)
  <2>1. pc' = "write" /\ li' = li
    BY <1>6 DEF LevelDone, NextLevel
  <2>2. \A l \in Levels : LevelMeasured(l)
    BY <1>1, <1>2, <1>6, LevelSeqDomain DEF Levels
  <2>3. ReadingsComplete'
    BY <1>1, <1>2, <1>3, <2>1, <2>2 DEF ReadingsComplete, AtObject
  <2> QED
    BY <1>4, <1>5, <2>1, <2>3
    DEF AloneInv, TableIsClear, ColumnsAtLevel, ObjectOfLevel, CorpusSound, InQuery, AtObject,
        LevelDone
<1>7. CASE li # Len(LevelSeq)
  <2>1. pc' = "enter" /\ li' = li + 1
    BY <1>7 DEF LevelDone, NextLevel
  <2>2. ReadingsComplete'
    BY <1>1, <1>2, <1>3, <2>1 DEF ReadingsComplete, AtObject
  <2> QED
    BY <1>4, <1>5, <2>1, <2>2
    DEF AloneInv, TableIsClear, ColumnsAtLevel, ObjectOfLevel, CorpusSound, InQuery, AtObject,
        LevelDone
<1> QED
  BY <1>6, <1>7

\* Together.
LEMMA ProtocolAlone ==
  ASSUME AloneInv, Protocol
  PROVE  AloneInv'
<1>0. TypeOK'
  BY ProtocolType DEF AloneInv
<1>1. ASSUME NEW s \in Slots, CreateObject(s) PROVE AloneInv'
  BY <1>0, <1>1, CreateObjectAlone
<1>2. CASE CreateObjectRaises
  BY <1>0, <1>2, IdleStep
  DEF CreateObjectRaises, Goto, AloneInv, ObjectOfLevel, protocolVars
<1>3. CASE BuildObject
  BY <1>0, <1>3, BuildObjectAlone
<1>4. CASE BuildObjectRaises
  <2>1. UNCHANGED <<installed, colTarget, colStats>>
    BY <1>4 DEF BuildObjectRaises, SetTargets, tableVars
  <2> QED
    BY <1>0, <1>4, <2>1, RaiseStep DEF BuildObjectRaises, Goto
<1>5. CASE ReadObject
  BY <1>0, <1>5, ReadObjectAlone
<1>6. CASE ReadObjectRaises
  BY <1>0, <1>6, RaiseStep DEF ReadObjectRaises, Goto, tableVars
<1>7. CASE DropObject
  BY <1>0, <1>7, DropObjectAlone
<1>8. CASE DropObjectRaises
  BY <1>0, <1>8, IdleStep DEF DropObjectRaises, Goto
<1>9. CASE LevelDone
  BY <1>0, <1>9, LevelDoneAlone
<1> QED
  BY <1>1, <1>2, <1>3, <1>4, <1>5, <1>6, <1>7, <1>8, <1>9 DEF Protocol

\* A stuttering step changes nothing.
LEMMA StutterAlone ==
  ASSUME AloneInv, UNCHANGED vars
  PROVE  AloneInv'
<1>1. TypeOK'
  BY TypeInductive DEF AloneInv
<1> QED
  BY <1>1
  DEF AloneInv, TableIsClear, ColumnsAtLevel, ObjectOfLevel, ReadingsSound, ReadingsComplete,
      LevelMeasured, CorpusSound, Level, vars, tableVars, runVars, protocolVars

\* Every step keeps the invariant.
LEMMA AloneInductive == AloneInv /\ [Next]_vars => AloneInv'
<1> SUFFICES ASSUME AloneInv, [Next]_vars PROVE AloneInv'
  OBVIOUS
<1>1. CASE Workload /\ UNCHANGED protocolVars
  BY <1>1, WorkloadAlone
<1>2. CASE Protocol
  BY <1>2, ProtocolAlone
<1>3. CASE ProcessDies
  <2>1. TypeOK'
    BY <1>3, TypeInductive DEF AloneInv, Next
  <2> QED
    BY <1>3, <2>1, IdleStep DEF ProcessDies, Crash
<1>4. CASE UNCHANGED vars
  BY <1>4, StutterAlone
<1> QED
  BY <1>1, <1>2, <1>3, <1>4 DEF Next, Finished

-----------------------------------------------------------------------------
(* What follows from it. *)

\* A candidate and its baseline were read at the target of one level.
LEMMA AloneImpliesPairing == AloneInv => SameStatePairing
<1> SUFFICES ASSUME AloneInv, NEW s \in Slots, reads[s] # NoReading
             PROVE  reads[s].single.target = base[s.level].single.target
  BY DEF SameStatePairing
<1>1. s.level \in Levels
  BY DEF Slots
<1>2. /\ reads[s].single = [target |-> TargetForLevel(s.level), rows |-> Depth(s.level)]
      /\ base[s.level].single.target = TargetForLevel(s.level)
  BY <1>1, AbstractBaseline, AbstractCandidateReading DEF AloneInv, ReadingsSound
<1> QED
  BY <1>2

\* The table is clear of everything else.
LEMMA AloneImpliesOneObject == AloneInv => OneObjectAtATime
BY DEF AloneInv, TableIsClear, AtObject, OneObjectAtATime

\* The corpus changes only when a finished block is filed.
LEMMA FileOnlyByWrite ==
  ASSUME Next, ~ (WriteQueryMeasure /\ UNCHANGED protocolVars)
  PROVE  UNCHANGED file
<1>1. CASE Workload /\ UNCHANGED protocolVars
  BY <1>1
  DEF Workload, StartQuery, SkipQuery, CatchFailure, FinishRun, FinishRunFails,
      EnterSamplingState, EnterSamplingStateRaises, DropLeftovers, DropLeftoversRaises,
      MeasureBaseline, MeasureBaselineRaises, WriteQueryMeasureRaises, Resume
<1>2. CASE Protocol
  BY <1>2
  DEF Protocol, CreateObject, CreateObjectRaises, BuildObject, BuildObjectRaises, ReadObject,
      ReadObjectRaises, DropObject, DropObjectRaises, LevelDone
<1>3. CASE ProcessDies
  BY <1>3 DEF ProcessDies, Crash
<1>4. CASE Finished
  BY <1>4 DEF Finished, vars, runVars
<1> QED
  BY <1>1, <1>2, <1>3, <1>4 DEF Next

\* Every step files one whole block or none.
LEMMA StepRefines ==
  ASSUME AloneInv, [Next]_vars
  PROVE  [Abstract!Next]_file
<1>1. CASE WriteQueryMeasure /\ UNCHANGED protocolVars
  <2>1. TypeOK'
    BY <1>1, TypeInductive DEF AloneInv
  <2>2. /\ file[q] = NoFile
        /\ file' = [file EXCEPT ![q] = [base |-> base, reads |-> reads]]
        /\ Abstract!IsBlock([base |-> base, reads |-> reads], q)
    BY <1>1, <2>1, WriteAlone
  <2>3. /\ q \in Queries /\ file \in [Queries -> Blocks \cup {NoFile}]
        /\ [base |-> base, reads |-> reads] \in Blocks
    BY DEF AloneInv, TypeOK, RunTypeOK, Blocks
  <2>4. file'[q] = [base |-> base, reads |-> reads] /\ file'[q] # NoFile
    BY <2>2, <2>3, MeasureRunAssumption
  <2>5. Abstract!Record(q)
    BY <2>2, <2>4 DEF Abstract!Record
  <2> QED
    BY <2>3, <2>5 DEF Abstract!Next
<1>2. CASE ~ (WriteQueryMeasure /\ UNCHANGED protocolVars)
  BY <1>2, FileOnlyByWrite DEF vars, runVars
<1> QED
  BY <1>1, <1>2

\* No step leaves the types the code relies on.
THEOREM TypeCorrect == Spec => []TypeOK
BY InitType, TypeInductive, PTL DEF Spec

\* Protocol-A never has a second object of its own on the table, at any fault:
\* what an earlier failure left is cleared before a baseline or a candidate is read.
THEOREM OneObject == Spec => []OneObjectAtATime
BY InitAlone, AloneInductive, AloneImpliesOneObject, PTL DEF Spec

\* A candidate is compared only with a baseline read under the same single-column
\* target.  Protocol-A needs no proviso: it never moves the columns inside a level.
THEOREM Pairing == Spec => []SameStatePairing
BY InitAlone, AloneInductive, AloneImpliesPairing, PTL DEF Spec

\* Protocol-A implements the abstract measurement: each query is filed once, whole,
\* with every candidate read alone in the state its level promises.
THEOREM Refinement == Spec => ImplementsMeasurement
<1>1. Init => Abstract!Init
  BY DEF Init, RunInit, Abstract!Init
<1>2. AloneInv /\ [Next]_vars => [Abstract!Next]_file
  BY StepRefines
<1> QED
  BY <1>1, <1>2, InitAlone, AloneInductive, PTL DEF Spec, Abstract!Spec, ImplementsMeasurement
=============================================================================
