--------------------------- MODULE MeasureMProofs ---------------------------
(***************************************************************************)
(* Theorems about Protocol-M for every workload, ladder, grid, table and   *)
(* number of faults: types, the isolation of the readings, the depth of    *)
(* the baselines, and the contract of Measurement.  The contract needs the *)
(* proviso that the column pin is the target of the first level and that   *)
(* the grid offers some parameter there; without it, it is broken (run     *)
(* small_table_pairing).                                                   *)
(***************************************************************************)
EXTENDS MeasureM, PgTableProofs

-----------------------------------------------------------------------------
(* Small facts about the constants. *)

LEMMA AnySlotType == AnySlot \in Slots
<1>1. PICK c \in Candidates, p \in Grid : TRUE
  BY SGridAssumption
<1>2. LevelSeq[1] \in Levels
  BY LevelSeqDomain DEF Levels
<1>3. [cand |-> c, level |-> LevelSeq[1], param |-> p] \in Slots
  BY <1>1, <1>2 DEF Slots
<1> QED
  BY <1>3 DEF AnySlot

LEMMA LevelType ==
  ASSUME li \in DOMAIN LevelSeq
  PROVE  Level \in Levels /\ TargetForLevel(Level) \in Targets
<1>1. Level \in Levels
  BY DEF Level, Levels
<1> QED
  BY <1>1, TargetForLevelType

LEMMA NextLevelType ==
  ASSUME li \in DOMAIN LevelSeq, NextLevel
  PROVE  li' \in DOMAIN LevelSeq /\ pc' \in {"write", "enter"}
BY LevelSeqDomain DEF NextLevel

-----------------------------------------------------------------------------
(* Type correctness. *)

LEMMA InitType == Init => TypeOK
<1> SUFFICES ASSUME Init PROVE TypeOK
  OBVIOUS
<1>1. TableTypeOK
  BY TableInitType DEF Init
<1>2. RunTypeOK
  BY SGridAssumption, LevelSeqDomain
  DEF Init, RunInit, RunTypeOK, Running, EmptyBase, EmptyReads
<1>3. MaskTypeOK
  BY AnySlotType DEF Init, MaskTypeOK, NoBackup
<1> QED
  BY <1>1, <1>2, <1>3 DEF TypeOK

LEMMA WorkloadType ==
  ASSUME TypeOK, Workload, UNCHANGED maskVars
  PROVE  TypeOK'
<1>0. MaskTypeOK'
  BY DEF TypeOK, MaskTypeOK, maskVars
<1>1. ASSUME NEW x \in Queries, StartQuery(x) PROVE TypeOK'
  BY <1>0, <1>1, LevelSeqDomain
  DEF TypeOK, TableTypeOK, RunTypeOK, Running, StartQuery, Goto, tableVars,
      EmptyBase, EmptyReads
<1>2. ASSUME NEW x \in Queries, SkipQuery(x) PROVE TypeOK'
  BY <1>0, <1>2 DEF TypeOK, TableTypeOK, RunTypeOK, SkipQuery, tableVars
<1>3. CASE CatchFailure
  BY <1>0, <1>3
  DEF TypeOK, TableTypeOK, RunTypeOK, Running, CatchFailure, Goto, tableVars
<1>4. CASE FinishRun
  <2>1. PinnedColumns \in Targets
    BY PgTableAssumption DEF PinnedColumns, TypeOK, TableTypeOK
  <2>2. Targets \subseteq Nat
    BY DEF Targets
  <2>3. RowsAt(PinnedColumns) \in Nat
    BY <2>1, <2>2, RowsAtMonotone
  <2>4. TableTypeOK'
    BY <1>4, <2>1, <2>2, <2>3, RemoveStatsType
    DEF TypeOK, TableTypeOK, FinishRun, SingleStats
  <2>5. RunTypeOK'
    BY <1>4 DEF TypeOK, RunTypeOK, FinishRun, Goto, Parked
  <2> QED
    BY <1>0, <2>4, <2>5 DEF TypeOK
<1>5. CASE FinishRunFails
  BY <1>0, <1>5, RemoveStatsType
  DEF TypeOK, TableTypeOK, RunTypeOK, Parked, FinishRunFails, Goto, Raise,
      DropStats
<1>6. CASE EnterSamplingState
  <2>1. TargetForLevel(Level) \in Targets
    BY LevelType DEF TypeOK, RunTypeOK
  <2>2. TableTypeOK'
    BY <1>6, <2>1, AnalyzeType DEF TypeOK, TableTypeOK, EnterSamplingState
  <2>3. RunTypeOK'
    BY <1>6 DEF TypeOK, RunTypeOK, Running, EnterSamplingState, Goto, NoRaise
  <2> QED
    BY <1>0, <2>2, <2>3 DEF TypeOK
<1>7. CASE EnterSamplingStateRaises
  <2>1. TargetForLevel(Level) \in Targets
    BY LevelType DEF TypeOK, RunTypeOK
  <2>2. TableTypeOK'
    BY <1>7, <2>1
    DEF TypeOK, TableTypeOK, EnterSamplingStateRaises, SetTargets
  <2>3. RunTypeOK'
    BY <1>7
    DEF TypeOK, RunTypeOK, Running, EnterSamplingStateRaises, Goto, Raise
  <2> QED
    BY <1>0, <2>2, <2>3 DEF TypeOK
<1>8. CASE DropLeftovers
  BY <1>0, <1>8, RemoveStatsType
  DEF TypeOK, TableTypeOK, RunTypeOK, Running, DropLeftovers, Goto, NoRaise,
      DropStats
<1>9. CASE DropLeftoversRaises
  BY <1>0, <1>9, RemoveStatsType
  DEF TypeOK, TableTypeOK, RunTypeOK, Running, DropLeftoversRaises, Goto,
      Raise, DropStats
<1>10. CASE MeasureBaseline
  <2>1. Seen \in Readings
    BY SeenType DEF TypeOK
  <2>2. RunTypeOK'
    BY <1>10, <2>1, SlotsAtType
    DEF TypeOK, RunTypeOK, Running, MeasureBaseline, Goto, NoRaise
  <2>3. TableTypeOK'
    BY <1>10 DEF TypeOK, TableTypeOK, MeasureBaseline, tableVars
  <2> QED
    BY <1>0, <2>2, <2>3 DEF TypeOK
<1>11. CASE MeasureBaselineRaises
  BY <1>0, <1>11
  DEF TypeOK, TableTypeOK, RunTypeOK, Running, MeasureBaselineRaises, Goto,
      Raise, tableVars
<1>12. CASE WriteQueryMeasure
  BY <1>0, <1>12
  DEF TypeOK, TableTypeOK, RunTypeOK, Running, WriteQueryMeasure, Goto,
      NoRaise, tableVars, Blocks
<1>13. CASE WriteQueryMeasureRaises
  BY <1>0, <1>13
  DEF TypeOK, TableTypeOK, RunTypeOK, Running, WriteQueryMeasureRaises, Goto,
      Raise, tableVars
<1>14. CASE Resume
  BY <1>0, <1>14
  DEF TypeOK, TableTypeOK, RunTypeOK, Running, Resume, tableVars
<1> QED
  BY <1>1, <1>2, <1>3, <1>4, <1>5, <1>6, <1>7, <1>8, <1>9, <1>10, <1>11,
     <1>12, <1>13, <1>14 DEF Workload

LEMMA ProtocolType ==
  ASSUME TypeOK, Protocol
  PROVE  TypeOK'
<1>1. ASSUME NEW s \in Slots, CreateObject(s) PROVE TypeOK'
  BY <1>1
  DEF TypeOK, TableTypeOK, RunTypeOK, MaskTypeOK, CreateObject, CreateStat, Stats
<1>2. CASE CreateObjectRaises
  BY <1>2, RemoveStatsType
  DEF TypeOK, TableTypeOK, RunTypeOK, Running, MaskTypeOK, CreateObjectRaises,
      Goto, Raise, DropStats
<1>3. BatchColumns \in Targets /\ BatchTargets \in [Stats -> Targets \cup {Unset}]
  BY SlotParam, PgTableAssumption
  DEF TypeOK, TableTypeOK, MaskTypeOK, BatchColumns, BatchTargets, PinnedColumns
<1>4. CASE BuildBatch
  <2>1. TableTypeOK'
    <3>1. CASE made = {}
      BY <1>4, <3>1 DEF BuildBatch, TypeOK, TableTypeOK, tableVars
    <3>2. CASE made # {}
      BY <1>3, <1>4, <3>2, AnalyzeType DEF BuildBatch, TypeOK
    <3> QED
      BY <3>1, <3>2
  <2>2. RunTypeOK' /\ MaskTypeOK'
    BY <1>4
    DEF TypeOK, RunTypeOK, Running, MaskTypeOK, BuildBatch, Goto, NoRaise,
        NoBackup
  <2> QED
    BY <2>1, <2>2 DEF TypeOK
<1>5. CASE BuildBatchRaises
  <2>1. TableTypeOK'
    BY <1>3, <1>5 DEF BuildBatchRaises, TypeOK, TableTypeOK, SetTargets, tableVars
  <2>2. pinned' \in BOOLEAN
    BY <1>5 DEF BuildBatchRaises, TypeOK, RunTypeOK
  <2>3. RunTypeOK' /\ MaskTypeOK'
    BY <1>5, <2>2
    DEF TypeOK, RunTypeOK, Running, MaskTypeOK, BuildBatchRaises, Goto, Raise
  <2> QED
    BY <2>1, <2>3 DEF TypeOK
<1>6. ASSUME NEW s \in Slots, MaskAllBut(s) PROVE TypeOK'
  <2>1. TableTypeOK' /\ RunTypeOK'
    BY <1>6
    DEF TypeOK, TableTypeOK, RunTypeOK, Running, MaskAllBut, Goto, NoRaise,
        NullPayloads
  <2>2. Backup \in [Slots -> Payloads \cup {Null}]
    BY DEF TypeOK, TableTypeOK, Backup, Stats
  <2>3. MaskTypeOK'
    BY <1>6, <2>2 DEF TypeOK, MaskTypeOK, MaskAllBut, EnsureBackup
  <2> QED
    BY <2>1, <2>3 DEF TypeOK
<1>7. CASE MaskAllButRaises
  BY <1>7
  DEF TypeOK, TableTypeOK, RunTypeOK, Running, MaskTypeOK, MaskAllButRaises,
      Goto, Raise, NullPayloads
<1>8. CASE ReadObject
  <2>1. Seen \in Readings
    BY SeenType DEF TypeOK
  <2>2. TableTypeOK' /\ MaskTypeOK'
    BY <1>8 DEF TypeOK, TableTypeOK, MaskTypeOK, ReadObject, tableVars, maskVars
  <2>3. RunTypeOK'
    BY <1>8, <2>1 DEF TypeOK, RunTypeOK, Running, ReadObject, Goto, NoRaise
  <2> QED
    BY <2>2, <2>3 DEF TypeOK
<1>9. CASE ReadObjectRaises
  BY <1>9
  DEF TypeOK, TableTypeOK, RunTypeOK, Running, MaskTypeOK, ReadObjectRaises,
      Goto, Raise, tableVars
<1>10. \A S \in SUBSET made : PutBack(S) => TableTypeOK'
  BY DEF PutBack, TypeOK, TableTypeOK, MaskTypeOK
<1>11. CASE Restore
  <2>1. TableTypeOK'
    BY <1>10, <1>11 DEF Restore, TypeOK, TableTypeOK, tableVars
  <2>2. RunTypeOK' /\ MaskTypeOK'
    BY <1>11 DEF TypeOK, RunTypeOK, Running, MaskTypeOK, Restore, NoRaise
  <2> QED
    BY <2>1, <2>2 DEF TypeOK
<1>12. CASE RestoreRaises
  <2>1. TableTypeOK'
    BY <1>10, <1>12 DEF RestoreRaises
  <2>2. RunTypeOK' /\ MaskTypeOK'
    BY <1>12
    DEF TypeOK, RunTypeOK, Running, MaskTypeOK, RestoreRaises, Goto, Raise
  <2> QED
    BY <2>1, <2>2 DEF TypeOK
<1>13. CASE ReadsDone
  BY <1>13
  DEF TypeOK, TableTypeOK, RunTypeOK, Running, MaskTypeOK, ReadsDone, Goto,
      tableVars, maskVars
<1>14. ASSUME NEW stuck \in SUBSET made, Cleanup(stuck) PROVE TypeOK'
  <2>1. TableTypeOK'
    BY <1>14, RemoveStatsType DEF TypeOK, TableTypeOK, Cleanup, DropStats
  <2>2. MaskTypeOK'
    BY <1>14, AnySlotType DEF Cleanup, MaskTypeOK, NoBackup
  <2>3. li' \in DOMAIN LevelSeq /\ pc' \in {"failed", "write", "enter"}
    BY <1>14, NextLevelType DEF Cleanup, TypeOK, RunTypeOK
  <2>4. RunTypeOK'
    BY <1>14, <2>3 DEF TypeOK, RunTypeOK, Running, Cleanup, NoRaise, Raise
  <2> QED
    BY <2>1, <2>2, <2>4 DEF TypeOK
<1> QED
  BY <1>1, <1>2, <1>4, <1>5, <1>6, <1>7, <1>8, <1>9, <1>11, <1>12, <1>13,
     <1>14 DEF Protocol

LEMMA ProcessDiesType ==
  ASSUME TypeOK, ProcessDies
  PROVE  TypeOK'
<1>1. TableTypeOK'
  BY DEF TypeOK, TableTypeOK, ProcessDies, Crash, tableVars
<1>2. RunTypeOK'
  BY DEF TypeOK, RunTypeOK, Parked, ProcessDies, Crash, Raise
<1>3. MaskTypeOK'
  BY AnySlotType DEF MaskTypeOK, ProcessDies, NoBackup
<1> QED
  BY <1>1, <1>2, <1>3 DEF TypeOK

LEMMA TypeInductive == TypeOK /\ [Next]_vars => TypeOK'
<1> SUFFICES ASSUME TypeOK, [Next]_vars PROVE TypeOK'
  OBVIOUS
<1>1. CASE Workload /\ UNCHANGED maskVars
  BY <1>1, WorkloadType
<1>2. CASE Protocol
  BY <1>2, ProtocolType
<1>3. CASE ProcessDies
  BY <1>3, ProcessDiesType
<1>4. CASE UNCHANGED vars
  BY <1>4
  DEF TypeOK, TableTypeOK, RunTypeOK, MaskTypeOK, vars, tableVars, runVars,
      maskVars
<1> QED
  BY <1>1, <1>2, <1>3, <1>4 DEF Next, Finished

\* Every state of a run is well typed: whatever raises or crashes, the driver
\* holds a real query, a real level and real slots, targets are ones the
\* server accepts, and what is recorded or filed are readings.
THEOREM TypeCorrect == Spec => []TypeOK
BY InitType, TypeInductive, PTL DEF Spec

-----------------------------------------------------------------------------
(* Isolation of the readings. *)

\* Between the removal of the leftovers and the cleanup, the objects on the
\* table are exactly the ones this level has created, so NULLing every
\* created object but one leaves nothing else for EXPLAIN to see.
MadeIsInstalled ==
  /\ pc = "baseline" => installed = {}
  /\ pc \in {"create", "mask", "read", "restore"} => installed = made
  /\ pc \notin {"create", "mask", "read", "restore", "cleanup"} => made = {}
OthersMasked ==
  pc = "read" => \A s \in made \ {cur} : payload[s] = Null
IsolationInv ==
  TypeOK /\ MadeIsInstalled /\ OthersMasked /\ ReadSeesOnlyItsObject

LEMMA InitIsolation == Init => IsolationInv
BY InitType
DEF Init, IsolationInv, RunInit, MadeIsInstalled, OthersMasked,
    ReadSeesOnlyItsObject, EmptyReads

LEMMA WorkloadIsolation ==
  ASSUME IsolationInv, Workload, UNCHANGED maskVars
  PROVE  IsolationInv'
<1>0. TypeOK'
  BY WorkloadType DEF IsolationInv
<1>1. pc \in {"next", "enter", "clean", "baseline", "write", "failed"} \cup Parked
      /\ made = {} /\ made' = {}
  BY DEF Workload, IsolationInv, MadeIsInstalled, Parked, StartQuery, SkipQuery,
     CatchFailure, FinishRun, FinishRunFails, EnterSamplingState,
     EnterSamplingStateRaises, DropLeftovers, DropLeftoversRaises,
     MeasureBaseline, MeasureBaselineRaises, WriteQueryMeasure,
     WriteQueryMeasureRaises, Resume, Goto, maskVars
<1>2. reads' = reads \/ reads' = EmptyReads
  BY DEF Workload, StartQuery, SkipQuery, CatchFailure, FinishRun,
     FinishRunFails, EnterSamplingState, EnterSamplingStateRaises,
     DropLeftovers, DropLeftoversRaises, MeasureBaseline,
     MeasureBaselineRaises, WriteQueryMeasure, WriteQueryMeasureRaises, Resume
<1>3. ReadSeesOnlyItsObject'
  BY <1>2 DEF IsolationInv, ReadSeesOnlyItsObject, EmptyReads
<1>4. pc' \notin {"mask", "read", "restore"}
  BY <1>1 DEF Workload, Parked, StartQuery, SkipQuery,
     CatchFailure, FinishRun, FinishRunFails, EnterSamplingState,
     EnterSamplingStateRaises, DropLeftovers, DropLeftoversRaises,
     MeasureBaseline, MeasureBaselineRaises, WriteQueryMeasure,
     WriteQueryMeasureRaises, Resume, Goto
<1>5. pc' \in {"baseline", "create"} => installed' = {}
  BY <1>1 DEF Workload, Parked, StartQuery, SkipQuery, CatchFailure, FinishRun,
     FinishRunFails, EnterSamplingState, EnterSamplingStateRaises,
     DropLeftovers, DropLeftoversRaises, MeasureBaseline,
     MeasureBaselineRaises, WriteQueryMeasure, WriteQueryMeasureRaises, Resume,
     Goto, DropStats, RemoveStats, IsolationInv, MadeIsInstalled, tableVars
<1> QED
  BY <1>0, <1>1, <1>3, <1>4, <1>5
  DEF IsolationInv, MadeIsInstalled, OthersMasked

LEMMA ProtocolIsolation ==
  ASSUME IsolationInv, Protocol
  PROVE  IsolationInv'
<1>0. TypeOK'
  BY ProtocolType DEF IsolationInv
<1>1. ASSUME NEW s \in Slots, CreateObject(s) PROVE IsolationInv'
  BY <1>0, <1>1
  DEF IsolationInv, MadeIsInstalled, OthersMasked, ReadSeesOnlyItsObject,
      CreateObject, CreateStat
<1>2. CASE CreateObjectRaises
  BY <1>0, <1>2
  DEF IsolationInv, MadeIsInstalled, OthersMasked, ReadSeesOnlyItsObject,
      CreateObjectRaises, Goto
<1>3. CASE BuildBatch
  <2>1. installed' = installed
    BY <1>3 DEF BuildBatch, Analyze, tableVars
  <2> QED
    BY <1>0, <1>3, <2>1
    DEF IsolationInv, MadeIsInstalled, OthersMasked, ReadSeesOnlyItsObject,
        BuildBatch, Goto
<1>4. CASE BuildBatchRaises
  BY <1>0, <1>4
  DEF IsolationInv, MadeIsInstalled, OthersMasked, ReadSeesOnlyItsObject,
      BuildBatchRaises, Goto
<1>5. ASSUME NEW s \in Slots, MaskAllBut(s) PROVE IsolationInv'
  <2>1. OthersMasked'
    BY <1>5 DEF IsolationInv, TypeOK, MaskTypeOK, Stats, OthersMasked,
       MaskAllBut, NullPayloads
  <2> QED
    BY <1>0, <1>5, <2>1
    DEF IsolationInv, MadeIsInstalled, ReadSeesOnlyItsObject, MaskAllBut,
        NullPayloads, Goto
<1>6. CASE MaskAllButRaises
  BY <1>0, <1>6
  DEF IsolationInv, MadeIsInstalled, OthersMasked, ReadSeesOnlyItsObject,
      MaskAllButRaises, Goto
<1>7. CASE ReadObject
  <2>1. installed = made /\ \A s \in made \ {cur} : payload[s] = Null
    BY <1>7 DEF ReadObject, Goto, IsolationInv, MadeIsInstalled, OthersMasked
  <2>2. \A e \in Seen.live : e.stat = cur
    BY <2>1 DEF Seen
  <2>3. reads' = [reads EXCEPT ![cur] = Seen] /\ reads \in [Slots -> Readings \cup {NoReading}]
    BY <1>7 DEF ReadObject, IsolationInv, TypeOK, RunTypeOK
  <2>4. \A s \in Slots : reads'[s] = IF s = cur THEN Seen ELSE reads[s]
    BY <2>3
  <2>5. ReadSeesOnlyItsObject'
    BY <2>2, <2>4 DEF IsolationInv, ReadSeesOnlyItsObject
  <2> QED
    BY <1>0, <1>7, <2>5
    DEF IsolationInv, MadeIsInstalled, OthersMasked, ReadObject, Goto,
        tableVars, maskVars
<1>8. CASE ReadObjectRaises
  BY <1>0, <1>8
  DEF IsolationInv, MadeIsInstalled, OthersMasked, ReadSeesOnlyItsObject,
      ReadObjectRaises, Goto, tableVars
<1>9. CASE Restore
  <2>1. installed' = installed
    BY <1>9 DEF Restore, PutBack, tableVars
  <2> QED
    BY <1>0, <1>9, <2>1
    DEF IsolationInv, MadeIsInstalled, OthersMasked, ReadSeesOnlyItsObject,
        Restore
<1>10. CASE RestoreRaises
  BY <1>0, <1>10
  DEF IsolationInv, MadeIsInstalled, OthersMasked, ReadSeesOnlyItsObject,
      RestoreRaises, Goto
<1>11. CASE ReadsDone
  BY <1>0, <1>11
  DEF IsolationInv, MadeIsInstalled, OthersMasked, ReadSeesOnlyItsObject,
      ReadsDone, Goto, tableVars, maskVars
<1>12. ASSUME NEW stuck \in SUBSET made, Cleanup(stuck) PROVE IsolationInv'
  <2>1. pc' \in {"failed", "write", "enter"}
    BY <1>12, NextLevelType DEF Cleanup, IsolationInv, TypeOK, RunTypeOK
  <2> QED
    BY <1>0, <1>12, <2>1
    DEF IsolationInv, MadeIsInstalled, OthersMasked, ReadSeesOnlyItsObject,
        Cleanup
<1> QED
  BY <1>1, <1>2, <1>3, <1>4, <1>5, <1>6, <1>7, <1>8, <1>9, <1>10, <1>11,
     <1>12 DEF Protocol

LEMMA IsolationInductive == IsolationInv /\ [Next]_vars => IsolationInv'
<1> SUFFICES ASSUME IsolationInv, [Next]_vars PROVE IsolationInv'
  OBVIOUS
<1>1. CASE Workload /\ UNCHANGED maskVars
  BY <1>1, WorkloadIsolation
<1>2. CASE Protocol
  BY <1>2, ProtocolIsolation
<1>3. CASE ProcessDies
  BY <1>3, ProcessDiesType
  DEF IsolationInv, MadeIsInstalled, OthersMasked, ReadSeesOnlyItsObject,
      ProcessDies, Crash, tableVars
<1>4. CASE UNCHANGED vars
  BY <1>4, TypeInductive
  DEF IsolationInv, MadeIsInstalled, OthersMasked, ReadSeesOnlyItsObject, vars,
      tableVars, runVars, maskVars
<1> QED
  BY <1>1, <1>2, <1>3, <1>4 DEF Next, Finished

\* Mask isolation: whatever raised or crashed before, no reading of one object
\* ever shows the payload of a sibling or of a statistic left on the table.
THEOREM MaskIsolation == Spec => []ReadSeesOnlyItsObject
<1>1. IsolationInv => ReadSeesOnlyItsObject
  BY DEF IsolationInv
<1> QED
  BY <1>1, InitIsolation, IsolationInductive, PTL DEF Spec

-----------------------------------------------------------------------------
(* The depth of the baselines. *)

\* No extended statistic is left on the table: between two queries of a run in
\* which a query has been filed, and whenever a level but the first is entered.
\* The columns of a swept level are then scanned to that level's depth and no
\* deeper, which is what its baseline is read at.
SweptBody ==
  /\ pc \in {"next", "done"} /\ (\E x \in Queries : file[x] # NoFile) => installed = {}
  /\ pc = "enter" /\ (li # 1 \/ \E x \in Queries \ {q} : file[x] # NoFile) => installed = {}
  /\ pc = "write" => installed = {}
  /\ pc \in {"create", "mask", "read", "restore", "cleanup"} => installed = made
  /\ pc \in {"clean", "baseline"} /\ Swept(Level) =>
       colStats.rows = RowsAt(TargetForLevel(Level))
  /\ pc \notin {"failed", "down", "doneDirty"} /\ ~ raising
  /\ \A l \in Levels : base[l] # NoReading /\ Swept(l) =>
       base[l].single.rows = RowsAt(TargetForLevel(l))

SweptInv == faults = 0 => SweptBody

\* The target is N/300 truncated, the reported rows are not: the rows read fall short
\* of the reported ones by less than 300, and by none if N is a multiple of 300.
LEMMA ReportedRows ==
  ASSUME NEW l \in Levels
  PROVE  /\ RowsAt(TargetForLevel(l)) <= SampleRowsAtLevel(l)
         /\ SampleRowsAtLevel(l) < RowsAt(TargetForLevel(l)) + 300
         /\ NumRows % 300 = 0 => RowsAt(TargetForLevel(l)) = SampleRowsAtLevel(l)
<1>1. Ladder[l] \in Nat
  BY SGridAssumption DEF Targets
<1>2. NumRows \in Nat
  BY SGridAssumption
<1>3. PICK d, r \in Nat : d = NumRows \div 300 /\ r = NumRows % 300
  BY <1>2, SMT
<1>4. NumRows = 300 * d + r /\ r < 300
  BY <1>2, <1>3, SMT
<1>5. TargetForLevel(l) = IF Ladder[l] < d THEN Ladder[l] ELSE d
  BY <1>1, <1>3 DEF TargetForLevel, LesserOf
<1> QED
  BY <1>1, <1>2, <1>3, <1>4, <1>5 DEF RowsAt, SampleRowsAtLevel, LesserOf

\* Raising calls and crashes are faults: as long as there is none, no call raises.
LEMMA FaultFree ==
  ASSUME IsolationInv, [Next]_vars, faults' = 0
  PROVE  faults = 0 /\ ~ Raise
<1>1. faults \in Nat
  BY DEF IsolationInv, TypeOK, RunTypeOK
<1>2. UNCHANGED faults \/ Raise
  BY DEF Next, Workload, Protocol, ProcessDies, Finished, vars, runVars, StartQuery, SkipQuery,
     CatchFailure, FinishRun, FinishRunFails, EnterSamplingState, EnterSamplingStateRaises,
     DropLeftovers, DropLeftoversRaises, MeasureBaseline, MeasureBaselineRaises,
     WriteQueryMeasure, WriteQueryMeasureRaises, Resume, CreateObject, CreateObjectRaises,
     BuildBatch, BuildBatchRaises, MaskAllBut, MaskAllButRaises, ReadObject, ReadObjectRaises,
     Restore, RestoreRaises, ReadsDone, Cleanup, Crash, NoRaise
<1> QED
  BY <1>1, <1>2 DEF Raise

\* A swept level is not the first of the run.
LEMMA SweptLevel ==
  ASSUME li \in DOMAIN LevelSeq, Swept(Level)
  PROVE  li # 1 \/ \E x \in Queries \ {q} : file[x] # NoFile
BY DEF Swept, Level

\* The steps both protocols share.
LEMMA WorkloadSwept ==
  ASSUME IsolationInv, SweptBody, Workload, UNCHANGED maskVars, ~ Raise
  PROVE  SweptBody'
<1> USE DEF SweptBody, Goto
<1>0. ~ raising' /\ made' = made
  BY DEF maskVars
<1>1. ASSUME NEW x \in Queries, StartQuery(x) PROVE SweptBody'
  BY <1>0, <1>1 DEF StartQuery, EmptyBase, tableVars
<1>2. ASSUME UNCHANGED <<q, base, file>>
      PROVE  \A l : Swept(l)' = Swept(l)
  BY <1>2 DEF Swept
<1>3. ASSUME NEW x \in Queries, SkipQuery(x) PROVE SweptBody'
  BY <1>0, <1>2, <1>3 DEF SkipQuery, tableVars
<1>4. CASE FinishRun
  <2>1. installed' = {} /\ pc' = "done"
    BY <1>4 DEF FinishRun, RemoveStats
  <2> QED
    BY <1>0, <1>2, <1>4, <2>1 DEF FinishRun
<1>5. CASE EnterSamplingState
  <2>1. li \in DOMAIN LevelSeq /\ TableTypeOK /\ Level' = Level
    BY <1>5 DEF IsolationInv, TypeOK, RunTypeOK, EnterSamplingState, Level
  <2>2. colStats'.rows = ScanRows(TargetForLevel(Level), target)
    BY <1>5 DEF EnterSamplingState, Analyze
  <2>3. Swept(Level) => ScanRows(TargetForLevel(Level), target) = RowsAt(TargetForLevel(Level))
    <3>1. Swept(Level) => installed = {}
      BY <1>5, <2>1, SweptLevel DEF EnterSamplingState
    <3> QED
      BY <2>1, <3>1, LevelType, ScanRowsExact DEF TableTypeOK
  <2>4. pc' = "clean" /\ UNCHANGED <<q, base, file>>
    BY <1>5 DEF EnterSamplingState
  <2> QED
    BY <1>0, <1>2, <2>1, <2>2, <2>3, <2>4
<1>6. CASE DropLeftovers
  <2>1. Level' = Level
    BY <1>6 DEF DropLeftovers, Level
  <2> QED
    BY <1>0, <1>2, <1>6, <2>1 DEF DropLeftovers, DropStats
<1>7. CASE MeasureBaseline
  <2>1. Level \in Levels /\ \A l \in Levels : base'[l] = IF l = Level THEN Seen ELSE base[l]
    BY <1>7, LevelType DEF MeasureBaseline, IsolationInv, TypeOK, RunTypeOK
  <2>2. Seen.single = colStats
    BY DEF Seen
  <2>3. \A l \in Levels : Swept(l)' = Swept(l)
    BY <1>7 DEF MeasureBaseline, Swept
  <2>4. \A l \in Levels : base'[l] # NoReading /\ Swept(l)' =>
           base'[l].single.rows = RowsAt(TargetForLevel(l))
    BY <1>7, <2>1, <2>2, <2>3 DEF MeasureBaseline
  <2>5. installed' = made'
    BY <1>7 DEF MeasureBaseline, tableVars, maskVars, IsolationInv, MadeIsInstalled
  <2>6. pc' = "create"
    BY <1>7 DEF MeasureBaseline
  <2> QED
    BY <1>0, <2>4, <2>5, <2>6
<1>8. CASE WriteQueryMeasure
  <2>1. \A l : Swept(l)' = Swept(l)
    BY <1>8 DEF WriteQueryMeasure, Swept, IsolationInv, TypeOK, RunTypeOK
  <2> QED
    BY <1>0, <1>8, <2>1 DEF WriteQueryMeasure, tableVars
<1>9. CASE Resume
  <2>1. pc = "done" /\ pc' = "next" /\ UNCHANGED <<q, base, file, installed>>
    BY <1>9 DEF Resume, Parked, tableVars
  <2> QED
    BY <1>0, <1>2, <2>1
<1>10. ~ (CatchFailure \/ FinishRunFails \/ EnterSamplingStateRaises \/ DropLeftoversRaises
            \/ MeasureBaselineRaises \/ WriteQueryMeasureRaises)
  BY DEF CatchFailure, FinishRunFails, EnterSamplingStateRaises, DropLeftoversRaises,
     MeasureBaselineRaises, WriteQueryMeasureRaises
<1> HIDE DEF SweptBody, Goto
<1> QED
  BY <1>1, <1>3, <1>4, <1>5, <1>6, <1>7, <1>8, <1>9, <1>10 DEF Workload

\* The steps of one level: without a fault the cleanup drops all that was created.
LEMMA ProtocolSwept ==
  ASSUME IsolationInv, SweptBody, Protocol, ~ Raise
  PROVE  SweptBody'
<1> USE DEF SweptBody, Goto
<1>1. ASSUME UNCHANGED <<q, base, file>>
      PROVE  \A l : Swept(l)' = Swept(l)
  BY <1>1 DEF Swept
<1>2. ASSUME NEW s \in Slots, CreateObject(s) PROVE SweptBody'
  BY <1>1, <1>2 DEF CreateObject, CreateStat
<1>3. CASE BuildBatch
  <2>1. installed' = installed
    BY <1>3 DEF BuildBatch, Analyze, tableVars
  <2> QED
    BY <1>1, <1>3, <2>1 DEF BuildBatch
<1>4. ASSUME NEW s \in Slots, MaskAllBut(s) PROVE SweptBody'
  BY <1>1, <1>4 DEF MaskAllBut, NullPayloads
<1>5. CASE ReadObject
  BY <1>1, <1>5 DEF ReadObject, tableVars, maskVars
<1>6. CASE Restore
  <2>1. installed' = installed
    BY <1>6 DEF Restore, PutBack, tableVars
  <2> QED
    BY <1>1, <1>6, <2>1 DEF Restore
<1>7. CASE ReadsDone
  BY <1>1, <1>7 DEF ReadsDone, tableVars, maskVars
<1>8. ASSUME NEW stuck \in SUBSET made, Cleanup(stuck) PROVE SweptBody'
  <2>1. stuck = {} /\ installed' = {} /\ ~ raising' /\ UNCHANGED <<q, base, file>>
    BY <1>8 DEF Cleanup, DropStats, RemoveStats
  <2>2. pc' \in {"write", "enter"} /\ (pc' = "enter" => li' = li + 1)
    BY <1>8 DEF Cleanup, NextLevel
  <2> QED
    BY <1>1, <2>1, <2>2
<1>9. ~ (CreateObjectRaises \/ BuildBatchRaises \/ MaskAllButRaises \/ ReadObjectRaises
           \/ RestoreRaises)
  BY DEF CreateObjectRaises, BuildBatchRaises, MaskAllButRaises, ReadObjectRaises, RestoreRaises
<1> HIDE DEF SweptBody, Goto
<1> QED
  BY <1>2, <1>3, <1>4, <1>5, <1>6, <1>7, <1>8, <1>9 DEF Protocol

\* Together.
LEMMA SweptNext == IsolationInv /\ SweptInv /\ [Next]_vars => SweptInv'
<1> SUFFICES ASSUME IsolationInv, SweptInv, [Next]_vars, faults' = 0 PROVE SweptBody'
  BY DEF SweptInv
<1>1. faults = 0 /\ ~ Raise
  BY FaultFree
<1>2. SweptBody
  BY <1>1 DEF SweptInv
<1>3. CASE Workload /\ UNCHANGED maskVars
  BY <1>1, <1>2, <1>3, WorkloadSwept
<1>4. CASE Protocol
  BY <1>1, <1>2, <1>4, ProtocolSwept
<1>5. CASE UNCHANGED vars
  BY <1>2, <1>5 DEF SweptBody, Swept, Level, vars, tableVars, runVars, maskVars
<1>6. ~ ProcessDies
  BY <1>1 DEF ProcessDies, Crash
<1> QED
  BY <1>3, <1>4, <1>5, <1>6 DEF Next, Finished

\* The rows a swept baseline is read at.
BaselineRows ==
  faults = 0 => \A l \in Levels : base[l] # NoReading /\ Swept(l) =>
     base[l].single.rows = RowsAt(TargetForLevel(l))

\* As long as nothing has failed, only the first baseline of a run can be read deeper
\* than its level: no object of one level deepens the next one's scan.
THEOREM BaselineRowsAlways == Spec => []BaselineRows
<1>1. Init => IsolationInv /\ SweptInv
  BY InitIsolation DEF Init, RunInit, SweptInv, SweptBody, EmptyBase
<1>2. IsolationInv /\ SweptInv => BaselineRows
  BY DEF SweptInv, SweptBody, BaselineRows
<1> QED
  BY <1>1, <1>2, IsolationInductive, SweptNext, PTL DEF Spec

\* On a table of a multiple of 300 rows these are the rows reported beside it.
THEOREM BaselineDepth == NumRows % 300 = 0 => (Spec => []BaselineAtLevelDepth)
<1> SUFFICES ASSUME NumRows % 300 = 0 PROVE Spec => []BaselineAtLevelDepth
  OBVIOUS
<1>1. BaselineRows => BaselineAtLevelDepth
  BY ReportedRows DEF BaselineRows, BaselineAtLevelDepth
<1> QED
  BY <1>1, BaselineRowsAlways, PTL

-----------------------------------------------------------------------------
(* The contract of Measurement. *)

\* The proviso.  The defaults meet it: level 0 has target 100, the pin is 100
\* and the grid starts below it; a table of fewer than 30000 rows does not.
PinMatchesFirstLevel ==
  /\ TargetForLevel(LevelSeq[1]) = ColumnPin
  /\ \E p \in Grid : p <= ColumnPin

Depth(l) == RowsAt(TargetForLevel(l))
Built(s) == [param |-> s.param, rows |-> Depth(s.level)]
Faithful(s, p) == p = Built(s) \/ (p = Null /\ s.cand \in MayBeEmpty)

InQuery == {"enter", "clean", "baseline", "create", "mask", "read", "restore",
            "cleanup", "write"}

-----------------------------------------------------------------------------
(* The inductive invariant, by topic. *)

\* The columns are in the sampling state of the level being measured.
ColumnsAtLevel ==
  /\ pc \in {"clean", "baseline", "create", "mask", "read", "restore"} =>
       /\ colTarget = TargetForLevel(Level)
       /\ colStats.target = TargetForLevel(Level)
       /\ colStats.rows >= Depth(Level)
  /\ pc \in {"mask", "read", "restore"} /\ made # {} =>
       colStats.rows = Depth(Level)

\* Once the first level is behind, the pin is cached and moves nothing.
PinIsSpent ==
  /\ pc \in InQuery => pinned \/ li = 1 \/ CandsOf[q] = {}
  /\ pc \in {"mask", "read", "restore"} \/ (pc = "cleanup" /\ ~raising) =>
       pinned \/ CandsOf[q] = {}

\* The level's objects are exactly its admissible slots.
MadeIsGrid ==
  /\ pc = "create" => made \cup todo = SlotsAt(q, Level)
  /\ pc \in {"mask", "read", "restore"} => made = SlotsAt(q, Level)
  /\ pc \in {"mask", "read", "restore"} => todo \subseteq made
  /\ pc \in {"read", "restore"} => cur \in made \ todo
  /\ raising => pc \in {"restore", "cleanup"}

\* Every payload a mask has hidden is in the backup.
PayloadsAtHand ==
  /\ pc = "mask" => ~ backedUp /\ \A s \in made : Faithful(s, payload[s])
  /\ pc \in {"read", "restore"} =>
       /\ backedUp
       /\ \A s \in made : Faithful(s, saved[s])
       /\ \A s \in made \ {cur} : payload[s] = Null
       /\ Faithful(cur, payload[cur])

LevelMeasured(l) ==
  /\ base[l] # NoReading
  /\ \A s \in SlotsAt(q, l) : reads[s] # NoReading

\* What the query has read so far is sound, and the levels behind are whole.
ReadingsSound ==
  /\ \A l \in Levels : base[l] # NoReading => Abstract!IsBaseline(base[l], l)
  /\ \A s \in Slots : reads[s] # NoReading =>
       /\ s \in SlotsOf(q)
       /\ base[s.level] # NoReading
       /\ Abstract!IsCandidateReading(reads[s], s)
ReadingsComplete ==
  /\ pc \in InQuery => \A j \in 1 .. (li - 1) : LevelMeasured(LevelSeq[j])
  /\ pc \in {"create", "mask", "read", "restore", "cleanup"} =>
       base[Level] # NoReading
  /\ pc = "mask" => \A s \in made \ todo : reads[s] # NoReading
  /\ pc = "read" => \A s \in made \ (todo \cup {cur}) : reads[s] # NoReading
  /\ pc = "restore" /\ ~raising => \A s \in made \ todo : reads[s] # NoReading
  /\ pc = "cleanup" /\ ~raising => LevelMeasured(Level)
  /\ pc = "write" => \A l \in Levels : LevelMeasured(l)

\* The corpus holds finished blocks only, and never the query in progress.
CorpusSound ==
  /\ \A x \in Queries : file[x] # NoFile => Abstract!IsBlock(file[x], x)
  /\ pc \in InQuery => file[q] = NoFile

ContractInv ==
  /\ IsolationInv
  /\ ColumnsAtLevel /\ PinIsSpent /\ MadeIsGrid /\ PayloadsAtHand
  /\ ReadingsSound /\ ReadingsComplete /\ CorpusSound

-----------------------------------------------------------------------------
(* The abstract measurement's vocabulary in this module's terms. *)

LEMMA AbstractGrid ==
  /\ Abstract!Levels = Levels
  /\ Abstract!Slots = Slots
  /\ \A x : Abstract!SlotsOf(x) = SlotsOf(x)
  /\ \A l : Abstract!TargetForLevel(l) = TargetForLevel(l)
  /\ \A l : Abstract!DeepRows(l) = Depth(l)
<1>1. Abstract!Levels = Levels
  BY DEF Abstract!Levels, Levels
<1>2. Abstract!Slots = Slots
  BY <1>1 DEF Abstract!Slots, Slots
<1>3. \A l : Abstract!TargetForLevel(l) = TargetForLevel(l)
  BY DEF Abstract!TargetForLevel, TargetForLevel, Abstract!LesserOf, LesserOf
<1>4. \A t : Abstract!RowsAt(t) = RowsAt(t)
  BY DEF Abstract!RowsAt, RowsAt, Abstract!LesserOf, LesserOf
<1>5. \A l : Abstract!DeepRows(l) = Depth(l)
  BY <1>3, <1>4 DEF Abstract!DeepRows, Depth
<1>6. \A x, l : Abstract!SlotsAt(x, l) = SlotsAt(x, l)
  BY <1>2, <1>3 DEF Abstract!SlotsAt, SlotsAt
<1>7. \A x : Abstract!SlotsOf(x) = SlotsOf(x)
  BY <1>1, <1>6 DEF Abstract!SlotsOf, SlotsOf
<1> QED
  BY <1>1, <1>2, <1>3, <1>5, <1>7

LEMMA AbstractBaseline ==
  \A r, l : Abstract!IsBaseline(r, l) <=>
     /\ r.single.target = TargetForLevel(l)
     /\ r.single.rows >= Depth(l)
     /\ r.live = {}
BY AbstractGrid DEF Abstract!IsBaseline

LEMMA AbstractCandidateReading ==
  \A r, s : Abstract!IsCandidateReading(r, s) <=>
     /\ r.single = [target |-> TargetForLevel(s.level), rows |-> Depth(s.level)]
     /\ \/ r.live = {[stat |-> s, payload |-> Built(s)]}
        \/ r.live = {} /\ s.cand \in MayBeEmpty
BY AbstractGrid
DEF Abstract!IsCandidateReading, Abstract!Alone, Built

LEMMA AbstractBlock ==
  \A b, x : Abstract!IsBlock(b, x) <=>
     /\ \A l \in Levels : b.base[l] # NoReading /\ Abstract!IsBaseline(b.base[l], l)
     /\ \A s \in Slots :
           IF s \in SlotsOf(x)
           THEN b.reads[s] # NoReading /\ Abstract!IsCandidateReading(b.reads[s], s)
           ELSE b.reads[s] = NoReading
BY AbstractGrid DEF Abstract!IsBlock

\* With parameters below the level's target, the batch scans the level's rows.
LEMMA BatchDepth ==
  ASSUME TypeOK, made = SlotsAt(q, Level), installed = made
  PROVE  ScanRows(TargetForLevel(Level), BatchTargets) = Depth(Level)
<1>1. TargetForLevel(Level) \in Targets
  BY LevelType DEF TypeOK, RunTypeOK
<1>2. BatchTargets \in [Stats -> Targets \cup {Unset}]
  BY SlotParam DEF TypeOK, TableTypeOK, MaskTypeOK, BatchTargets
<1>3. \A s \in installed :
         EffectiveTarget(s, TargetForLevel(Level), BatchTargets) <= TargetForLevel(Level)
  <2> SUFFICES ASSUME NEW s \in made
               PROVE  EffectiveTarget(s, TargetForLevel(Level), BatchTargets)
                        <= TargetForLevel(Level)
    OBVIOUS
  <2>1. s \in Stats /\ s \in Slots /\ s.param <= TargetForLevel(Level)
    BY DEF SlotsAt, Stats
  <2>2. BatchTargets[s] = s.param
    BY <2>1 DEF BatchTargets
  <2>3. s.param # Unset
    BY <2>1, SlotParam, PgTableAssumption DEF Targets
  <2> QED
    BY <2>1, <2>2, <2>3 DEF EffectiveTarget
<1>4. installed \subseteq Stats
  BY DEF TypeOK, TableTypeOK
<1> QED
  BY <1>1, <1>2, <1>3, <1>4, ScanRowsExact DEF Depth

-----------------------------------------------------------------------------
(* The contract invariant is inductive. *)

LEMMA InitContract == Init => ContractInv
<1> SUFFICES ASSUME Init PROVE ContractInv
  OBVIOUS
<1>1. IsolationInv
  BY InitIsolation
<1>2. ReadingsSound
  BY DEF Init, RunInit, ReadingsSound, EmptyBase, EmptyReads
<1> QED
  BY <1>1, <1>2
  DEF Init, RunInit, ContractInv, ColumnsAtLevel, PinIsSpent, MadeIsGrid,
      PayloadsAtHand, ReadingsComplete, CorpusSound, InQuery

\* Steps of the driver that touch neither what was read nor the corpus, and
\* whose next step is not inside a level.
LEMMA IdleStep ==
  ASSUME ContractInv, IsolationInv', ~raising',
         pc' \in {"next", "failed", "down", "done", "doneDirty"},
         UNCHANGED <<q, base, reads, file>>
  PROVE  ContractInv'
<1>1. ReadingsSound'
  BY DEF ContractInv, ReadingsSound
<1> QED
  BY <1>1
  DEF ContractInv, ColumnsAtLevel, PinIsSpent, MadeIsGrid, PayloadsAtHand,
      ReadingsComplete, CorpusSound, InQuery

LEMMA StartQueryContract ==
  ASSUME ContractInv, IsolationInv', UNCHANGED maskVars,
         NEW x \in Queries, StartQuery(x)
  PROVE  ContractInv'
<1>1. ReadingsSound'
  BY DEF StartQuery, ReadingsSound, EmptyBase, EmptyReads
<1>2. ReadingsComplete'
  BY DEF StartQuery, Goto, ReadingsComplete
<1>3. CorpusSound'
  BY DEF ContractInv, StartQuery, CorpusSound
<1> QED
  BY <1>1, <1>2, <1>3
  DEF ContractInv, StartQuery, Goto, ColumnsAtLevel, PinIsSpent, MadeIsGrid,
      PayloadsAtHand, InQuery, maskVars

LEMMA EnterSamplingStateContract ==
  ASSUME ContractInv, IsolationInv', UNCHANGED maskVars, EnterSamplingState
  PROVE  ContractInv'
<1>1. TargetForLevel(Level) \in Targets /\ TableTypeOK
  BY LevelType DEF ContractInv, IsolationInv, TypeOK, RunTypeOK
<1>2. /\ ScanRows(TargetForLevel(Level), target) \in Nat
      /\ Depth(Level) <= ScanRows(TargetForLevel(Level), target)
  BY <1>1, ScanRowsAtLeast DEF TableTypeOK, Depth
<1>3. Level' = Level
  BY DEF EnterSamplingState, Level
<1>4. Depth(Level) \in Nat
  BY <1>1, RowsAtMonotone DEF Depth, Targets
<1>5. ColumnsAtLevel'
  <2>1. colStats' = [target |-> TargetForLevel(Level),
                     rows |-> ScanRows(TargetForLevel(Level), target)]
        /\ colTarget' = TargetForLevel(Level)
    BY DEF EnterSamplingState, Analyze
  <2>2. colStats.rows' >= Depth(Level)'
    BY <1>2, <1>3, <1>4, <2>1
  <2> QED
    BY <1>3, <2>1, <2>2 DEF ColumnsAtLevel, EnterSamplingState, Goto
<1>6. ReadingsSound'
  BY DEF ContractInv, EnterSamplingState, ReadingsSound
<1>7. ReadingsComplete'
  BY <1>3
  DEF ContractInv, EnterSamplingState, Goto, ReadingsComplete, LevelMeasured,
      InQuery
<1> QED
  BY <1>5, <1>6, <1>7
  DEF ContractInv, EnterSamplingState, Goto, PinIsSpent, MadeIsGrid,
      PayloadsAtHand, CorpusSound, InQuery, maskVars

LEMMA DropLeftoversContract ==
  ASSUME ContractInv, IsolationInv', UNCHANGED maskVars, DropLeftovers
  PROVE  ContractInv'
<1>1. Level' = Level
  BY DEF DropLeftovers, Level
<1>2. ReadingsSound'
  BY DEF ContractInv, DropLeftovers, ReadingsSound
<1>3. ReadingsComplete'
  BY <1>1
  DEF ContractInv, DropLeftovers, Goto, ReadingsComplete, LevelMeasured, InQuery
<1> QED
  BY <1>1, <1>2, <1>3
  DEF ContractInv, DropLeftovers, DropStats, Goto, ColumnsAtLevel, PinIsSpent,
      MadeIsGrid, PayloadsAtHand, CorpusSound, InQuery, maskVars

LEMMA MeasureBaselineContract ==
  ASSUME ContractInv, IsolationInv', UNCHANGED maskVars, MeasureBaseline
  PROVE  ContractInv'
<1>1. Level' = Level /\ Level \in Levels
  BY LevelType DEF MeasureBaseline, Level, ContractInv, IsolationInv, TypeOK, RunTypeOK
<1>2. Seen.live = {} /\ Seen \in Readings
  BY SeenType
  DEF Seen, ContractInv, IsolationInv, MadeIsInstalled, TypeOK, MeasureBaseline, Goto
<1>3. Abstract!IsBaseline(Seen, Level)
  BY <1>2, AbstractBaseline
  DEF Seen, ContractInv, ColumnsAtLevel, MeasureBaseline, Goto
<1>4. base \in [Levels -> Readings \cup {NoReading}] /\ base' = [base EXCEPT ![Level] = Seen]
  BY DEF ContractInv, IsolationInv, TypeOK, RunTypeOK, MeasureBaseline
<1>5. \A l \in Levels : base'[l] = IF l = Level THEN Seen ELSE base[l]
  BY <1>4
<1>6. Seen # NoReading
  BY <1>2, MeasureRunAssumption
<1>7. ReadingsSound'
  <2>1. \A s \in Slots : s.level \in Levels
    BY DEF Slots
  <2> QED
    BY <1>3, <1>5, <1>6, <2>1 DEF ContractInv, ReadingsSound, MeasureBaseline
<1>8. ReadingsComplete'
  <2>1. \A j \in 1 .. (li - 1) : LevelSeq[j] \in Levels
    BY LevelSeqDomain DEF Levels, ContractInv, IsolationInv, TypeOK, RunTypeOK
  <2>2. \A j \in 1 .. (li - 1) : LevelMeasured(LevelSeq[j])'
    BY <1>5, <1>6, <2>1
    DEF ContractInv, ReadingsComplete, InQuery, LevelMeasured, MeasureBaseline, Goto
  <2>3. base'[Level'] # NoReading
    BY <1>1, <1>5, <1>6
  <2> QED
    BY <2>2, <2>3 DEF ReadingsComplete, MeasureBaseline, Goto
<1>9. MadeIsGrid'
  <2>1. made' = {} /\ todo' = SlotsAt(q, Level)' /\ raising' = raising /\ ~ raising
    BY <1>1
    DEF MeasureBaseline, Goto, ContractInv, IsolationInv, MadeIsInstalled,
        MadeIsGrid, maskVars
  <2> QED
    BY <2>1 DEF MeasureBaseline, Goto, MadeIsGrid
<1> QED
  BY <1>1, <1>7, <1>8, <1>9
  DEF ContractInv, MeasureBaseline, Goto, ColumnsAtLevel, PinIsSpent,
      PayloadsAtHand, CorpusSound, InQuery, tableVars, maskVars

LEMMA WriteContract ==
  ASSUME ContractInv, IsolationInv', UNCHANGED maskVars, WriteQueryMeasure
  PROVE  /\ ContractInv'
         /\ file[q] = NoFile
         /\ file' = [file EXCEPT ![q] = [base |-> base, reads |-> reads]]
         /\ Abstract!IsBlock([base |-> base, reads |-> reads], q)
<1>1. file[q] = NoFile /\ \A l \in Levels : LevelMeasured(l)
  BY DEF ContractInv, CorpusSound, ReadingsComplete, InQuery, WriteQueryMeasure, Goto
<1>2. \A s \in Slots : s \in SlotsOf(q) <=> reads[s] # NoReading
  BY <1>1, SlotsOfLevel DEF ContractInv, ReadingsSound, LevelMeasured, Slots
<1>3. Abstract!IsBlock([base |-> base, reads |-> reads], q)
  BY <1>1, <1>2, AbstractBlock DEF ContractInv, ReadingsSound, LevelMeasured
<1>4. file' = [file EXCEPT ![q] = [base |-> base, reads |-> reads]]
  BY DEF WriteQueryMeasure
<1>5. CorpusSound'
  <2>1. \A x \in Queries : file'[x] = IF x = q THEN [base |-> base, reads |-> reads]
                                               ELSE file[x]
    BY <1>4 DEF ContractInv, IsolationInv, TypeOK, RunTypeOK
  <2>2. \A x \in Queries : file'[x] # NoFile => Abstract!IsBlock(file'[x], x)
    BY <1>3, <2>1 DEF ContractInv, CorpusSound
  <2> QED
    BY <2>2 DEF CorpusSound, WriteQueryMeasure, Goto, InQuery
<1>6. ReadingsSound'
  BY DEF ContractInv, WriteQueryMeasure, ReadingsSound
<1>7. ContractInv'
  BY <1>5, <1>6
  DEF ContractInv, WriteQueryMeasure, Goto, ColumnsAtLevel, PinIsSpent,
      MadeIsGrid, PayloadsAtHand, ReadingsComplete, InQuery, maskVars
<1> QED
  BY <1>1, <1>3, <1>4, <1>7

LEMMA WorkloadContract ==
  ASSUME ContractInv, Workload, UNCHANGED maskVars
  PROVE  ContractInv'
<1>0. IsolationInv'
  BY WorkloadIsolation DEF ContractInv
<1>1. ~ raising' \/ pc \in {"restore", "cleanup"}
  BY DEF ContractInv, MadeIsGrid, maskVars
<1>2. ASSUME NEW x \in Queries, StartQuery(x) PROVE ContractInv'
  BY <1>0, <1>2, StartQueryContract
<1>3. ASSUME NEW x \in Queries, SkipQuery(x) PROVE ContractInv'
  BY <1>0, <1>1, <1>3, IdleStep DEF SkipQuery
<1>4. CASE CatchFailure
  BY <1>0, <1>1, <1>4, IdleStep DEF CatchFailure, Goto
<1>5. CASE FinishRun
  BY <1>0, <1>1, <1>5, IdleStep DEF FinishRun, Goto
<1>6. CASE FinishRunFails
  BY <1>0, <1>1, <1>6, IdleStep DEF FinishRunFails, Goto
<1>7. CASE EnterSamplingState
  BY <1>0, <1>7, EnterSamplingStateContract
<1>8. CASE EnterSamplingStateRaises
  BY <1>0, <1>1, <1>8, IdleStep DEF EnterSamplingStateRaises, Goto
<1>9. CASE DropLeftovers
  BY <1>0, <1>9, DropLeftoversContract
<1>10. CASE DropLeftoversRaises
  BY <1>0, <1>1, <1>10, IdleStep DEF DropLeftoversRaises, Goto
<1>11. CASE MeasureBaseline
  BY <1>0, <1>11, MeasureBaselineContract
<1>12. CASE MeasureBaselineRaises
  BY <1>0, <1>1, <1>12, IdleStep DEF MeasureBaselineRaises, Goto
<1>13. CASE WriteQueryMeasure
  BY <1>0, <1>13, WriteContract
<1>14. CASE WriteQueryMeasureRaises
  BY <1>0, <1>1, <1>14, IdleStep DEF WriteQueryMeasureRaises, Goto
<1>15. CASE Resume
  BY <1>0, <1>1, <1>15, IdleStep DEF Resume, Parked
<1> QED
  BY <1>2, <1>3, <1>4, <1>5, <1>6, <1>7, <1>8, <1>9, <1>10, <1>11, <1>12,
     <1>13, <1>14, <1>15 DEF Workload

\* A call that raises inside a level records nothing, and the level is given up.
LEMMA GiveUpStep ==
  ASSUME ContractInv, IsolationInv', raising', pc' = "cleanup",
         pc \in {"create", "mask", "read", "restore", "cleanup"},
         UNCHANGED <<q, li, base, reads, file>>, pinned => pinned'
  PROVE  ContractInv'
<1>1. Level' = Level
  BY DEF Level
<1>2. ReadingsSound'
  BY DEF ContractInv, ReadingsSound
<1>3. ReadingsComplete'
  BY <1>1 DEF ContractInv, ReadingsComplete, LevelMeasured, InQuery
<1> QED
  BY <1>1, <1>2, <1>3
  DEF ContractInv, ColumnsAtLevel, PinIsSpent, MadeIsGrid, PayloadsAtHand,
      CorpusSound, InQuery

LEMMA CreateObjectContract ==
  ASSUME ContractInv, IsolationInv', NEW s \in Slots, CreateObject(s)
  PROVE  ContractInv'
<1>1. Level' = Level
  BY DEF CreateObject, Level
<1>2. ReadingsSound'
  BY DEF ContractInv, CreateObject, ReadingsSound
<1>3. ReadingsComplete'
  BY <1>1
  DEF ContractInv, CreateObject, ReadingsComplete, LevelMeasured, InQuery
<1>4. MadeIsGrid'
  BY <1>1 DEF ContractInv, CreateObject, MadeIsGrid
<1> QED
  BY <1>1, <1>2, <1>3, <1>4
  DEF ContractInv, CreateObject, CreateStat, ColumnsAtLevel, PinIsSpent,
      PayloadsAtHand, CorpusSound, InQuery

\* The pin only ever lands on the target the level already has.
LEMMA PinMatchesLevel ==
  ASSUME PinMatchesFirstLevel, ContractInv, pc = "create", todo = {}
  PROVE  /\ made = SlotsAt(q, Level)
         /\ made # {} => BatchColumns = TargetForLevel(Level)
         /\ pinned \/ made # {} \/ CandsOf[q] = {}
<1>1. made = SlotsAt(q, Level)
  BY DEF ContractInv, MadeIsGrid
<1>2. pinned \/ li = 1 \/ CandsOf[q] = {}
  BY DEF ContractInv, PinIsSpent, InQuery
<1>3. made # {} => CandsOf[q] # {}
  BY <1>1 DEF SlotsAt
<1>4. li = 1 => TargetForLevel(Level) = ColumnPin
  BY DEF PinMatchesFirstLevel, Level
<1>5. colTarget = TargetForLevel(Level)
  BY DEF ContractInv, ColumnsAtLevel
<1>6. made # {} => BatchColumns = TargetForLevel(Level)
  BY <1>2, <1>3, <1>4, <1>5 DEF BatchColumns, PinnedColumns
<1>7. ASSUME li = 1, CandsOf[q] # {} PROVE made # {}
  <2>1. PICK c \in CandsOf[q], p \in Grid : p <= ColumnPin
    BY <1>7 DEF PinMatchesFirstLevel
  <2>2. c \in Candidates /\ Level \in Levels
    BY LevelType, SGridAssumption DEF ContractInv, IsolationInv, TypeOK, RunTypeOK
  <2>3. [cand |-> c, level |-> Level, param |-> p] \in SlotsAt(q, Level)
    BY <1>4, <1>7, <2>1, <2>2 DEF SlotsAt, Slots
  <2> QED
    BY <1>1, <2>3
<1> QED
  BY <1>1, <1>2, <1>6, <1>7

LEMMA BuildBatchContract ==
  ASSUME PinMatchesFirstLevel, ContractInv, IsolationInv', BuildBatch
  PROVE  ContractInv'
<1>1. /\ made = SlotsAt(q, Level) /\ made' = made /\ installed = made
      /\ made # {} => BatchColumns = TargetForLevel(Level)
      /\ pinned' \/ CandsOf[q] = {}
  BY PinMatchesLevel
  DEF BuildBatch, Goto, ContractInv, IsolationInv, MadeIsInstalled
<1>2. Level' = Level
  BY DEF BuildBatch, Level
<1>3. /\ colTarget = TargetForLevel(Level) /\ colStats.target = TargetForLevel(Level)
      /\ colStats.rows >= Depth(Level)
  BY DEF ContractInv, ColumnsAtLevel, BuildBatch, Goto
<1>4. TypeOK
  BY DEF ContractInv, IsolationInv
<1>5. ASSUME made # {}
      PROVE  /\ colTarget' = TargetForLevel(Level)
             /\ colStats' = [target |-> TargetForLevel(Level), rows |-> Depth(Level)]
             /\ \A s \in made : Faithful(s, payload'[s])
  <2>1. PICK hollow \in HollowSets :
           Analyze(TargetForLevel(Level), BatchTargets, hollow)
    BY <1>1, <1>5 DEF BuildBatch
  <2>2. ScanRows(TargetForLevel(Level), BatchTargets) = Depth(Level)
    BY <1>1, <1>4, BatchDepth
  <2>3. ASSUME NEW s \in made PROVE Faithful(s, payload'[s])
    <3>1. s \in Slots /\ s \in Stats /\ s.level = Level
      BY <1>1 DEF SlotsAt, Stats
    <3>2. BatchTargets[s] = s.param /\ s.param # Unset
      BY <3>1, SlotParam, PgTableAssumption DEF BatchTargets, Targets
    <3>3. s \in hollow => s.cand \in MayBeEmpty
      BY <3>1 DEF HollowSets
    <3>4. payload'[s] = IF s \in installed \ hollow
                        THEN [param |-> s.param, rows |-> Depth(Level)] ELSE Null
      BY <2>1, <2>2, <3>1, <3>2 DEF Analyze, EffectiveTarget
    <3> QED
      BY <1>1, <3>1, <3>3, <3>4 DEF Faithful, Built
  <2> QED
    BY <2>1, <2>2, <2>3 DEF Analyze
<1>6. ASSUME made = {} PROVE UNCHANGED <<colTarget, colStats>>
  BY <1>6 DEF BuildBatch, tableVars
<1>7. Depth(Level) \in Nat
  BY <1>4, LevelType, RowsAtMonotone DEF Depth, Targets, TypeOK, RunTypeOK
<1>8. ColumnsAtLevel'
  <2>1. CASE made = {}
    BY <1>1, <1>2, <1>3, <1>6, <2>1 DEF ColumnsAtLevel
  <2>2. CASE made # {}
    <3>1. colStats'.rows = Depth(Level) /\ colStats'.target = TargetForLevel(Level)
      BY <1>5, <2>2
    <3> QED
      BY <1>2, <1>5, <1>7, <2>2, <3>1 DEF ColumnsAtLevel
  <2> QED
    BY <2>1, <2>2
<1>9. PayloadsAtHand'
  BY <1>1, <1>5 DEF PayloadsAtHand, BuildBatch, Goto
<1>10. ReadingsSound'
  BY DEF ContractInv, BuildBatch, ReadingsSound
<1>11. ReadingsComplete'
  BY <1>2
  DEF ContractInv, BuildBatch, Goto, ReadingsComplete, LevelMeasured, InQuery
<1>12. PinIsSpent'
  BY <1>1 DEF BuildBatch, Goto, PinIsSpent
<1>13. MadeIsGrid'
  BY <1>1, <1>2 DEF ContractInv, BuildBatch, Goto, MadeIsGrid
<1> QED
  BY <1>8, <1>9, <1>10, <1>11, <1>12, <1>13
  DEF ContractInv, CorpusSound, InQuery, BuildBatch, Goto

LEMMA MaskAllButContract ==
  ASSUME ContractInv, IsolationInv', NEW s \in Slots, MaskAllBut(s)
  PROVE  ContractInv'
<1>1. Level' = Level /\ made' = made /\ made = SlotsAt(q, Level) /\ s \in made
      /\ todo' = todo \ {s} /\ cur' = s
  BY DEF MaskAllBut, Goto, Level, ContractInv, MadeIsGrid
<1>2. /\ saved' = Backup
      /\ payload' = [x \in Stats |-> IF x \in made \ {s} THEN Null ELSE payload[x]]
  BY DEF MaskAllBut, Goto, EnsureBackup, NullPayloads, ContractInv, PayloadsAtHand
<1>3. \A x \in made : Faithful(x, payload[x]) /\ x \in Slots /\ x \in Stats
  BY <1>1 DEF MaskAllBut, Goto, ContractInv, PayloadsAtHand, SlotsAt, Stats
<1>4. PayloadsAtHand'
  <2>1. \A x \in made : saved'[x] = payload[x]
    BY <1>2, <1>3 DEF Backup
  <2>2. \A x \in made : payload'[x] = IF x = s THEN payload[x] ELSE Null
    BY <1>2, <1>3
  <2>3. \A x, p : Faithful(x, p)' <=> Faithful(x, p)
    BY DEF Faithful, Built, Depth
  <2> QED
    BY <1>1, <1>3, <2>1, <2>2, <2>3
    DEF PayloadsAtHand, MaskAllBut, EnsureBackup, Goto
<1>5. MadeIsGrid'
  BY <1>1 DEF ContractInv, MadeIsGrid, MaskAllBut, Goto
<1>6. ReadingsSound'
  BY DEF ContractInv, MaskAllBut, ReadingsSound
<1>7. ReadingsComplete'
  BY <1>1
  DEF ContractInv, ReadingsComplete, LevelMeasured, InQuery, MaskAllBut, Goto
<1> QED
  BY <1>1, <1>4, <1>5, <1>6, <1>7
  DEF ContractInv, ColumnsAtLevel, PinIsSpent, CorpusSound, InQuery, MaskAllBut,
      NullPayloads, Goto

\* What EXPLAIN shows while one object is unmasked is that object's reading.
LEMMA SeenIsCandidateReading ==
  ASSUME ContractInv, pc = "read"
  PROVE  Abstract!IsCandidateReading(Seen, cur)
<1>1. cur \in made /\ installed = made /\ cur.level = Level
  BY DEF ContractInv, IsolationInv, MadeIsInstalled, MadeIsGrid, SlotsAt
<1>2. /\ Faithful(cur, payload[cur])
      /\ \A s \in made \ {cur} : payload[s] = Null
  BY DEF ContractInv, PayloadsAtHand
<1>3. Seen.live = IF payload[cur] = Null THEN {}
                  ELSE {[stat |-> cur, payload |-> payload[cur]]}
  BY <1>1, <1>2 DEF Seen
<1>4. Seen.single = [target |-> TargetForLevel(cur.level), rows |-> Depth(cur.level)]
  <2>1. colStats \in SingleStats
    BY DEF ContractInv, IsolationInv, TypeOK, TableTypeOK
  <2>2. colStats.target = TargetForLevel(Level) /\ colStats.rows = Depth(Level)
    BY <1>1 DEF ContractInv, ColumnsAtLevel
  <2> QED
    BY <1>1, <2>1, <2>2 DEF SingleStats, Seen
<1>5. Null # Built(cur)
  <2>1. cur \in Slots /\ cur.param \in Nat
    BY <1>1, SlotParam DEF ContractInv, IsolationInv, TypeOK, MaskTypeOK, Targets
  <2>2. Depth(cur.level) \in Nat
    BY <2>1, TargetForLevelType, RowsAtMonotone DEF Depth, Slots, Targets
  <2> QED
    BY <2>1, <2>2, PgTableAssumption DEF Built
<1> QED
  BY <1>2, <1>3, <1>4, <1>5, AbstractCandidateReading DEF Faithful

LEMMA ReadObjectContract ==
  ASSUME ContractInv, IsolationInv', ReadObject
  PROVE  ContractInv'
<1>1. /\ Level' = Level /\ made' = made /\ todo' = todo /\ cur' = cur
      /\ made = SlotsAt(q, Level) /\ cur \in made
      /\ raising' = raising /\ ~ raising
  BY DEF ReadObject, Goto, Level, maskVars, ContractInv, MadeIsGrid
<1>2. cur \in Slots /\ cur.level = Level /\ cur \in SlotsOf(q)
  BY <1>1, SlotsOfLevel DEF SlotsAt, Slots
<1>3. Abstract!IsCandidateReading(Seen, cur)
  BY SeenIsCandidateReading DEF ReadObject, Goto
<1>4. \A s \in Slots : reads'[s] = IF s = cur THEN Seen ELSE reads[s]
  BY DEF ReadObject, ContractInv, IsolationInv, TypeOK, RunTypeOK
<1>5. Seen # NoReading
  BY SeenType, MeasureRunAssumption DEF ContractInv, IsolationInv, TypeOK
<1>6. base[Level] # NoReading
  BY DEF ContractInv, ReadingsComplete, ReadObject, Goto
<1>7. ReadingsSound'
  BY <1>2, <1>3, <1>4, <1>6 DEF ContractInv, ReadingsSound, ReadObject
<1>8. ReadingsComplete'
  <2>1. \A l : SlotsAt(q, l) \subseteq Slots
    BY SlotsAtType
  <2>2. \A l : LevelMeasured(l) => LevelMeasured(l)'
    BY <1>4, <1>5, <2>1 DEF LevelMeasured, ReadObject
  <2>3. \A s \in made \ todo : reads'[s] # NoReading
    BY <1>1, <1>4, <1>5, <2>1
    DEF ContractInv, ReadingsComplete, ReadObject, Goto
  <2> QED
    BY <1>1, <2>2, <2>3
    DEF ContractInv, ReadingsComplete, InQuery, ReadObject, Goto
<1> QED
  BY <1>1, <1>7, <1>8
  DEF ContractInv, ColumnsAtLevel, PinIsSpent, MadeIsGrid, PayloadsAtHand,
      CorpusSound, InQuery, ReadObject, Goto, tableVars, maskVars

LEMMA ReadObjectRaisesContract ==
  ASSUME ContractInv, IsolationInv', ReadObjectRaises
  PROVE  ContractInv'
<1>1. Level' = Level
  BY DEF ReadObjectRaises, Level
<1>2. ReadingsSound'
  BY DEF ContractInv, ReadingsSound, ReadObjectRaises
<1>3. ReadingsComplete'
  BY <1>1
  DEF ContractInv, ReadingsComplete, LevelMeasured, InQuery, ReadObjectRaises, Goto
<1> QED
  BY <1>1, <1>2, <1>3
  DEF ContractInv, ColumnsAtLevel, PinIsSpent, MadeIsGrid, PayloadsAtHand,
      CorpusSound, InQuery, ReadObjectRaises, Goto, tableVars

LEMMA RestoreContract ==
  ASSUME ContractInv, IsolationInv', Restore
  PROVE  ContractInv'
<1>1. Level' = Level /\ made' = made /\ made = SlotsAt(q, Level)
  BY DEF Restore, Level, ContractInv, MadeIsGrid
<1>2. /\ backedUp
      /\ \A s \in made : Faithful(s, saved[s])
      /\ \A s \in made \ {cur} : payload[s] = Null
      /\ Faithful(cur, payload[cur])
  BY DEF Restore, ContractInv, PayloadsAtHand
<1>3. \A s \in made : Faithful(s, payload'[s])
  <2>1. \A s \in made : s \in Stats
    BY <1>1 DEF SlotsAt, Stats
  <2>2. \A s \in made : payload'[s] = IF saved[s] # Null THEN saved[s] ELSE payload[s]
    BY <1>2, <2>1 DEF Restore, PutBack
  <2> QED
    BY <1>2, <2>2 DEF Faithful
<1>4. PayloadsAtHand'
  <2>1. \A x, p : Faithful(x, p)' <=> Faithful(x, p)
    BY DEF Faithful, Built, Depth
  <2> QED
    BY <1>1, <1>3, <2>1 DEF Restore, PayloadsAtHand
<1>5. UNCHANGED <<colTarget, colStats>>
  BY DEF Restore, PutBack, tableVars
<1>6. ReadingsSound'
  BY DEF ContractInv, ReadingsSound, Restore
<1>7. ReadingsComplete'
  <2>1. pc' = "mask" => ~ raising
    BY DEF Restore
  <2>2. \A l : LevelMeasured(l) => LevelMeasured(l)'
    BY DEF LevelMeasured, Restore
  <2> QED
    BY <1>1, <2>1, <2>2 DEF ContractInv, ReadingsComplete, InQuery, Restore
<1>8. MadeIsGrid'
  BY <1>1 DEF ContractInv, MadeIsGrid, Restore
<1> QED
  BY <1>1, <1>4, <1>5, <1>6, <1>7, <1>8
  DEF ContractInv, ColumnsAtLevel, PinIsSpent, CorpusSound, InQuery, Restore

LEMMA ReadsDoneContract ==
  ASSUME ContractInv, IsolationInv', ReadsDone
  PROVE  ContractInv'
<1>1. Level' = Level
  BY DEF ReadsDone, Level
<1>2. ReadingsSound'
  BY DEF ContractInv, ReadingsSound, ReadsDone
<1>3. LevelMeasured(Level)
  BY DEF ContractInv, MadeIsGrid, ReadingsComplete, LevelMeasured, ReadsDone, Goto
<1>4. ReadingsComplete'
  BY <1>1, <1>3
  DEF ContractInv, ReadingsComplete, LevelMeasured, InQuery, ReadsDone, Goto
<1> QED
  BY <1>1, <1>2, <1>4
  DEF ContractInv, ColumnsAtLevel, PinIsSpent, MadeIsGrid, PayloadsAtHand,
      CorpusSound, InQuery, ReadsDone, Goto, tableVars, maskVars

LEMMA CleanupContract ==
  ASSUME ContractInv, IsolationInv', NEW stuck \in SUBSET made, Cleanup(stuck)
  PROVE  ContractInv'
<1>1. CASE raising
  BY <1>1, IdleStep DEF Cleanup
<1>2. CASE ~ raising
  <2>1. li \in 1 .. Len(LevelSeq) /\ Len(LevelSeq) \in Nat
    BY LevelSeqDomain DEF ContractInv, IsolationInv, TypeOK, RunTypeOK
  <2>2. \A j \in 1 .. li : LevelMeasured(LevelSeq[j])
    BY <1>2, <2>1 DEF ContractInv, ReadingsComplete, InQuery, Level, Cleanup
  <2>3. \A l : LevelMeasured(l)' <=> LevelMeasured(l)
    BY DEF LevelMeasured, Cleanup
  <2>4. pinned \/ CandsOf[q] = {}
    BY <1>2 DEF ContractInv, PinIsSpent, Cleanup
  <2>5. ReadingsSound'
    BY DEF ContractInv, ReadingsSound, Cleanup
  <2>6. CASE li = Len(LevelSeq)
    <3>1. pc' = "write" /\ li' = li
      BY <1>2, <2>6 DEF Cleanup, NextLevel
    <3>2. \A l \in Levels : LevelMeasured(l)
      BY <2>1, <2>2, <2>6, LevelSeqDomain DEF Levels
    <3>3. ReadingsComplete'
      BY <2>1, <2>2, <2>3, <3>1, <3>2 DEF ReadingsComplete
    <3> QED
      BY <2>4, <2>5, <3>1, <3>3
      DEF ContractInv, ColumnsAtLevel, PinIsSpent, MadeIsGrid, PayloadsAtHand,
          CorpusSound, InQuery, Cleanup
  <2>7. CASE li # Len(LevelSeq)
    <3>1. pc' = "enter" /\ li' = li + 1
      BY <1>2, <2>7 DEF Cleanup, NextLevel
    <3>2. ReadingsComplete'
      BY <2>1, <2>2, <2>3, <3>1 DEF ReadingsComplete
    <3> QED
      BY <2>4, <2>5, <3>1, <3>2
      DEF ContractInv, ColumnsAtLevel, PinIsSpent, MadeIsGrid, PayloadsAtHand,
          CorpusSound, InQuery, Cleanup
  <2> QED
    BY <2>6, <2>7
<1> QED
  BY <1>1, <1>2

LEMMA ProtocolContract ==
  ASSUME PinMatchesFirstLevel, ContractInv, Protocol
  PROVE  ContractInv'
<1>0. IsolationInv'
  BY ProtocolIsolation DEF ContractInv
<1>1. ASSUME NEW s \in Slots, CreateObject(s) PROVE ContractInv'
  BY <1>0, <1>1, CreateObjectContract
<1>2. CASE CreateObjectRaises
  BY <1>0, <1>2, IdleStep DEF CreateObjectRaises, Goto, ContractInv, MadeIsGrid
<1>3. CASE BuildBatch
  BY <1>0, <1>3, BuildBatchContract
<1>4. CASE BuildBatchRaises
  BY <1>0, <1>4, GiveUpStep DEF BuildBatchRaises, Goto
<1>5. ASSUME NEW s \in Slots, MaskAllBut(s) PROVE ContractInv'
  BY <1>0, <1>5, MaskAllButContract
<1>6. CASE MaskAllButRaises
  BY <1>0, <1>6, GiveUpStep DEF MaskAllButRaises, Goto
<1>7. CASE ReadObject
  BY <1>0, <1>7, ReadObjectContract
<1>8. CASE ReadObjectRaises
  BY <1>0, <1>8, ReadObjectRaisesContract
<1>9. CASE Restore
  BY <1>0, <1>9, RestoreContract
<1>10. CASE RestoreRaises
  BY <1>0, <1>10, GiveUpStep DEF RestoreRaises, Goto
<1>11. CASE ReadsDone
  BY <1>0, <1>11, ReadsDoneContract
<1>12. ASSUME NEW stuck \in SUBSET made, Cleanup(stuck) PROVE ContractInv'
  BY <1>0, <1>12, CleanupContract
<1> QED
  BY <1>1, <1>2, <1>3, <1>4, <1>5, <1>6, <1>7, <1>8, <1>9, <1>10, <1>11,
     <1>12 DEF Protocol

LEMMA StutterContract ==
  ASSUME ContractInv, UNCHANGED vars
  PROVE  ContractInv'
<1>1. IsolationInv'
  BY IsolationInductive DEF ContractInv
<1> QED
  BY <1>1
  DEF ContractInv, ColumnsAtLevel, PinIsSpent, MadeIsGrid, PayloadsAtHand,
      ReadingsSound, ReadingsComplete, LevelMeasured, CorpusSound, Level, vars,
      tableVars, runVars, maskVars

LEMMA ContractInductive ==
  ASSUME PinMatchesFirstLevel
  PROVE  ContractInv /\ [Next]_vars => ContractInv'
<1> SUFFICES ASSUME ContractInv, [Next]_vars PROVE ContractInv'
  OBVIOUS
<1>1. CASE Workload /\ UNCHANGED maskVars
  BY <1>1, WorkloadContract
<1>2. CASE Protocol
  BY <1>2, ProtocolContract
<1>3. CASE ProcessDies
  <2>1. IsolationInv'
    BY <1>3, IsolationInductive DEF ContractInv, Next
  <2> QED
    BY <1>3, <2>1, IdleStep DEF ProcessDies, Crash
<1>4. CASE UNCHANGED vars
  BY <1>4, StutterContract
<1> QED
  BY <1>1, <1>2, <1>3, <1>4 DEF Next, Finished

-----------------------------------------------------------------------------
(* What follows from it. *)

LEMMA ContractImpliesPairing == ContractInv => SameStatePairing
<1> SUFFICES ASSUME ContractInv, NEW s \in Slots, reads[s] # NoReading
             PROVE  reads[s].single.target = base[s.level].single.target
  BY DEF SameStatePairing
<1>1. s.level \in Levels
  BY DEF Slots
<1>2. /\ reads[s].single = [target |-> TargetForLevel(s.level), rows |-> Depth(s.level)]
      /\ base[s.level].single.target = TargetForLevel(s.level)
  BY <1>1, AbstractBaseline, AbstractCandidateReading
  DEF ContractInv, ReadingsSound
<1> QED
  BY <1>2

LEMMA ContractImpliesPayload == ContractInv => ReadSeesItsPayload
<1> SUFFICES ASSUME ContractInv, NEW s \in Slots, reads[s] # NoReading,
                    s.cand \notin MayBeEmpty
             PROVE  \E e \in reads[s].live :
                       e.payload = [param |-> s.param,
                                    rows  |-> RowsAt(TargetForLevel(s.level))]
  BY DEF ReadSeesItsPayload
<1>1. reads[s].live = {[stat |-> s, payload |-> Built(s)]}
  BY AbstractCandidateReading DEF ContractInv, ReadingsSound
<1> QED
  BY <1>1 DEF Built, Depth

\* The corpus changes only when a finished block is filed.
LEMMA FileOnlyByWrite ==
  ASSUME Next, ~ (WriteQueryMeasure /\ UNCHANGED maskVars)
  PROVE  UNCHANGED file
<1>1. CASE Workload /\ UNCHANGED maskVars
  BY <1>1
  DEF Workload, StartQuery, SkipQuery, CatchFailure, FinishRun, FinishRunFails,
      EnterSamplingState, EnterSamplingStateRaises, DropLeftovers,
      DropLeftoversRaises, MeasureBaseline, MeasureBaselineRaises,
      WriteQueryMeasureRaises, Resume
<1>2. CASE Protocol
  BY <1>2
  DEF Protocol, CreateObject, CreateObjectRaises, BuildBatch, BuildBatchRaises,
      MaskAllBut, MaskAllButRaises, ReadObject, ReadObjectRaises, Restore,
      RestoreRaises, ReadsDone, Cleanup
<1>3. CASE ProcessDies
  BY <1>3 DEF ProcessDies, Crash
<1>4. CASE Finished
  BY <1>4 DEF Finished, vars, runVars
<1> QED
  BY <1>1, <1>2, <1>3, <1>4 DEF Next

LEMMA StepRefines ==
  ASSUME ContractInv, [Next]_vars
  PROVE  [Abstract!Next]_file
<1>1. CASE WriteQueryMeasure /\ UNCHANGED maskVars
  <2>1. IsolationInv'
    BY IsolationInductive DEF ContractInv
  <2>2. /\ file[q] = NoFile
        /\ file' = [file EXCEPT ![q] = [base |-> base, reads |-> reads]]
        /\ Abstract!IsBlock([base |-> base, reads |-> reads], q)
    BY <1>1, <2>1, WriteContract
  <2>3. /\ q \in Queries /\ file \in [Queries -> Blocks \cup {NoFile}]
        /\ [base |-> base, reads |-> reads] \in Blocks
    BY DEF ContractInv, IsolationInv, TypeOK, RunTypeOK, Blocks
  <2>4. file'[q] = [base |-> base, reads |-> reads] /\ file'[q] # NoFile
    BY <2>2, <2>3, MeasureRunAssumption
  <2>5. Abstract!Record(q)
    BY <2>2, <2>4 DEF Abstract!Record
  <2> QED
    BY <2>3, <2>5 DEF Abstract!Next
<1>2. CASE ~ (WriteQueryMeasure /\ UNCHANGED maskVars)
  BY <1>2, FileOnlyByWrite DEF vars, runVars
<1> QED
  BY <1>1, <1>2

\* Same-S pairing for every instance that meets the proviso: a candidate is
\* compared only with a baseline read under the same single-column target.
THEOREM Pairing == PinMatchesFirstLevel => (Spec => []SameStatePairing)
<1> SUFFICES ASSUME PinMatchesFirstLevel PROVE Spec => []SameStatePairing
  OBVIOUS
<1>1. ContractInv /\ [Next]_vars => ContractInv'
  BY ContractInductive
<1> QED
  BY <1>1, InitContract, ContractImpliesPairing, PTL DEF Spec

\* The masks are undone between two reads: no object ANALYZE did build is
\* read as the NULL that the reading of a sibling left, at any fault.
THEOREM UnmaskedReading == PinMatchesFirstLevel => (Spec => []ReadSeesItsPayload)
<1> SUFFICES ASSUME PinMatchesFirstLevel PROVE Spec => []ReadSeesItsPayload
  OBVIOUS
<1>1. ContractInv /\ [Next]_vars => ContractInv'
  BY ContractInductive
<1> QED
  BY <1>1, InitContract, ContractImpliesPayload, PTL DEF Spec

\* Protocol-M implements the abstract measurement: each query is filed once,
\* whole, and with every number read in the state its level promises.
THEOREM Refinement == PinMatchesFirstLevel => (Spec => ImplementsMeasurement)
<1> SUFFICES ASSUME PinMatchesFirstLevel PROVE Spec => Abstract!Spec
  BY DEF ImplementsMeasurement
<1>1. Init => Abstract!Init
  BY DEF Init, RunInit, Abstract!Init
<1>2. ContractInv /\ [Next]_vars => ContractInv'
  BY ContractInductive
<1>3. ContractInv /\ [Next]_vars => [Abstract!Next]_file
  BY StepRefines
<1> QED
  BY <1>1, <1>2, <1>3, InitContract, PTL DEF Spec, Abstract!Spec
=============================================================================
