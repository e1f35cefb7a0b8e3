---------------------------- MODULE MeasureRun -----------------------------
(***************************************************************************)
(* The part of a measurement run that both protocols share: the loop over  *)
(* the workload that skips queries already on file, and for each sampling  *)
(* level of a query the sampling state, the removal of leftover            *)
(* statistics and the no-extension baseline.  A database call may raise,   *)
(* and the process may die between any two steps; what it had in memory is *)
(* lost, what it did to the table stays.                                   *)
(***************************************************************************)
EXTENDS PgTable

CONSTANTS
  MaxFaults,   \* bound on crashes and raising calls in one behaviour
  NoFile,      \* the query has no <qid>.json
  NoReading    \* nothing recorded yet

VARIABLES
  pc,         \* where the driver is
  remaining,  \* queries this run has not looked at yet
  q,          \* the query under measurement
  li,         \* index into LevelSeq of the current level
  todo,       \* slots of the current loop still to be handled
  base,       \* by_lambda[level]["baseline"]
  reads,      \* by_lambda[level]["candidates"], by slot
  file,       \* the corpus: <qid>.json
  pinned,     \* the table is in the backend's _pinned_single cache
  faults      \* faults so far

runVars == <<pc, remaining, q, li, todo, base, reads, file, pinned, faults>>

Level == LevelSeq[li]
Blocks == [base  : [Levels -> Readings \cup {NoReading}],
           reads : [Slots -> Readings \cup {NoReading}]]

ASSUME MeasureRunAssumption ==
  /\ MaxFaults \in Nat
  /\ NoReading \notin Readings
  /\ NoFile \notin Blocks

EmptyBase == [l \in Levels |-> NoReading]
EmptyReads == [s \in Slots |-> NoReading]

Parked == {"down", "done", "doneDirty"}
Running == {"next", "enter", "clean", "baseline", "create", "build", "mask",
            "read", "restore", "cleanup", "drop", "write", "failed"}

RunTypeOK ==
  /\ pc \in Running \cup Parked
  /\ remaining \subseteq Queries
  /\ q \in Queries
  /\ li \in DOMAIN LevelSeq
  /\ todo \subseteq Slots
  /\ base \in [Levels -> Readings \cup {NoReading}]
  /\ reads \in [Slots -> Readings \cup {NoReading}]
  /\ file \in [Queries -> Blocks \cup {NoFile}]
  /\ pinned \in BOOLEAN
  /\ faults \in Nat

RunInit ==
  /\ pc = "next"
  /\ remaining = Queries
  /\ q = CHOOSE x \in Queries : TRUE
  /\ li = 1
  /\ todo = {}
  /\ base = EmptyBase
  /\ reads = EmptyReads
  /\ file = [x \in Queries |-> NoFile]
  /\ pinned = FALSE
  /\ faults = 0

Goto(from, to) == pc = from /\ pc' = to
Raise == faults < MaxFaults /\ faults' = faults + 1
NoRaise == UNCHANGED faults

-----------------------------------------------------------------------------
(* The workload loop. *)

StartQuery(x) ==
  /\ Goto("next", "enter")
  /\ x \in remaining /\ file[x] = NoFile
  /\ q' = x /\ remaining' = remaining \ {x} /\ li' = 1
  /\ base' = EmptyBase /\ reads' = EmptyReads /\ todo' = {}
  /\ UNCHANGED <<file, pinned, faults, tableVars>>

SkipQuery(x) ==
  /\ pc = "next" /\ x \in remaining /\ file[x] # NoFile
  /\ remaining' = remaining \ {x}
  /\ UNCHANGED <<pc, q, li, todo, base, reads, file, pinned, faults, tableVars>>

\* The driver logs the query's exception and goes on with the next one.
CatchFailure ==
  /\ Goto("failed", "next")
  /\ UNCHANGED <<remaining, q, li, todo, base, reads, file, pinned, faults,
                 tableVars>>

\* Mutant: the pin is applied at every build, not once per process.
PinnedColumns_Uncached == ColumnPin

\* The columns' target once _ensure_single_columns_pinned has run.
PinnedColumns == IF pinned THEN colTarget ELSE ColumnPin

\* After the last query: drop every statistic on the table, then
\* restore_natural_stats.
FinishRun ==
  /\ Goto("next", "done") /\ remaining = {}
  /\ RemoveStats(installed)
  /\ colTarget' = PinnedColumns
  /\ colStats' = [target |-> PinnedColumns, rows |-> RowsAt(PinnedColumns)]
  /\ pinned' = TRUE
  /\ UNCHANGED <<remaining, q, li, todo, base, reads, file, faults>>

\* The same, cut short by an exception the driver swallows.
FinishRunFails ==
  /\ Goto("next", "doneDirty") /\ remaining = {} /\ Raise
  /\ \E S \in SUBSET installed : DropStats(S)
  /\ UNCHANGED <<remaining, q, li, todo, base, reads, file, pinned>>

-----------------------------------------------------------------------------
(* One sampling level of the current query, up to its baseline. *)

EnterSamplingState ==
  /\ Goto("enter", "clean") /\ NoRaise
  /\ \E hollow \in HollowSets :
        Analyze(TargetForLevel(Level), target, hollow)
  /\ UNCHANGED <<remaining, q, li, todo, base, reads, file, pinned>>

EnterSamplingStateRaises ==
  /\ Goto("enter", "failed") /\ Raise
  /\ \E c \in {colTarget, TargetForLevel(Level)} : SetTargets(c, target)
  /\ UNCHANGED <<remaining, q, li, todo, base, reads, file, pinned>>

DropLeftovers ==
  /\ Goto("clean", "baseline") /\ NoRaise
  /\ DropStats(installed)
  /\ UNCHANGED <<remaining, q, li, todo, base, reads, file, pinned>>

DropLeftoversRaises ==
  /\ Goto("clean", "failed") /\ Raise
  /\ \E S \in SUBSET installed : DropStats(S)
  /\ UNCHANGED <<remaining, q, li, todo, base, reads, file, pinned>>

MeasureBaseline ==
  /\ Goto("baseline", "create") /\ NoRaise
  /\ base' = [base EXCEPT ![Level] = Seen]
  /\ todo' = SlotsAt(q, Level)
  /\ UNCHANGED <<remaining, q, li, reads, file, pinned, tableVars>>

MeasureBaselineRaises ==
  /\ Goto("baseline", "failed") /\ Raise
  /\ UNCHANGED <<remaining, q, li, todo, base, reads, file, pinned, tableVars>>

-----------------------------------------------------------------------------
(* The end of a level, of a query and of a process. *)

\* Mutant: the file is written inside the loop over the levels.
NextLevel_WriteEach == pc' = "write" /\ UNCHANGED li

\* Mutant: the loop over the levels runs one step too far.
NextLevel_OffByOne == pc' = "enter" /\ li' = li + 1

\* by_lambda[level] is complete; go to the next level or to the file.
NextLevel ==
  IF li = Len(LevelSeq) THEN pc' = "write" /\ UNCHANGED li
                        ELSE pc' = "enter" /\ li' = li + 1

WriteQueryMeasure ==
  /\ Goto("write", "next") /\ NoRaise
  /\ file' = [file EXCEPT ![q] = [base |-> base, reads |-> reads]]
  /\ UNCHANGED <<remaining, q, li, todo, base, reads, pinned, tableVars>>

WriteQueryMeasureRaises ==
  /\ Goto("write", "failed") /\ Raise
  /\ UNCHANGED <<remaining, q, li, todo, base, reads, file, pinned, tableVars>>

Crash ==
  /\ pc \notin Parked /\ pc' = "down" /\ Raise
  /\ UNCHANGED <<remaining, q, li, todo, base, reads, file, pinned, tableVars>>

\* Mutant: the new run believes it has looked at every query already.
Resume_NothingLeft ==
  /\ pc \in Parked /\ pc' = "next"
  /\ \E x \in Queries : file[x] = NoFile
  /\ remaining' = {} /\ pinned' = FALSE
  /\ UNCHANGED <<q, li, todo, base, reads, file, faults, tableVars>>

\* The run is started again, in a new process with an empty cache.
Resume ==
  /\ pc \in Parked /\ pc' = "next"
  /\ \E x \in Queries : file[x] = NoFile
  /\ remaining' = Queries /\ pinned' = FALSE
  /\ UNCHANGED <<q, li, todo, base, reads, file, faults, tableVars>>

Workload ==
  \/ \E x \in Queries : StartQuery(x) \/ SkipQuery(x)
  \/ CatchFailure \/ FinishRun \/ FinishRunFails
  \/ EnterSamplingState \/ EnterSamplingStateRaises
  \/ DropLeftovers \/ DropLeftoversRaises
  \/ MeasureBaseline \/ MeasureBaselineRaises
  \/ WriteQueryMeasure \/ WriteQueryMeasureRaises
  \/ Resume
=============================================================================
