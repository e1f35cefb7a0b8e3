------------------------------ MODULE PgTable -------------------------------
(***************************************************************************)
(* One PostgreSQL table as the measurement sees it: its extended           *)
(* statistics, the attstattarget of its regular columns (all columns are   *)
(* always set together, so one value stands for them), and what the last   *)
(* ANALYZE left behind.  Statements autocommit.                            *)
(***************************************************************************)
EXTENDS SGrid

CONSTANTS
  Foreign,        \* statistics on the table that the tool did not create
  ForeignTargets, \* targets such a statistic may carry
  MayBeEmpty,     \* candidates for which ANALYZE may find no MCV item
  ColumnPin,      \* _SINGLE_COL_STATISTICS_TARGET
  Unset,          \* a statistic whose own target was never set
  Null            \* a NULL payload in pg_statistic_ext_data

ASSUME PgTableAssumption ==
  /\ Foreign \cap Slots = {}
  /\ ForeignTargets \subseteq Targets
  /\ MayBeEmpty \subseteq Candidates
  /\ ColumnPin \in Targets
  /\ Unset \notin Nat
  /\ Null \notin [param : Nat, rows : Nat]

VARIABLES
  installed,   \* the extended statistics in pg_statistic_ext
  target,      \* their stxstattarget
  payload,     \* their data in pg_statistic_ext_data
  colTarget,   \* attstattarget of the regular columns
  colStats     \* what the last ANALYZE stored for the single columns

tableVars == <<installed, target, payload, colTarget, colStats>>

Stats == Slots \cup Foreign
Payloads == [param : Nat, rows : Nat]
SingleStats == [target : Nat, rows : Nat]
LiveStats == [stat : Stats, payload : Payloads]
Readings == [single : SingleStats, live : SUBSET LiveStats]

TableTypeOK ==
  /\ installed \subseteq Stats
  /\ target \in [Stats -> Targets \cup {Unset}]
  /\ payload \in [Stats -> Payloads \cup {Null}]
  /\ colTarget \in Targets
  /\ colStats \in SingleStats

TableInit ==
  /\ installed \in SUBSET Foreign
  /\ target \in { f \in [Stats -> ForeignTargets \cup {Unset}] :
                    \A s \in Stats \ installed : f[s] = Unset }
  /\ payload = [s \in Stats |-> Null]
  /\ colTarget = ColumnPin
  /\ colStats = [target |-> ColumnPin, rows |-> RowsAt(ColumnPin)]

\* CREATE STATISTICS: no target of its own yet, and no data before ANALYZE.
CreateStat(s) ==
  /\ installed' = installed \cup {s}
  /\ target' = [target EXCEPT ![s] = Unset]
  /\ payload' = [payload EXCEPT ![s] = Null]
  /\ UNCHANGED <<colTarget, colStats>>

\* A dropped statistic takes its target and its data with it.
RemoveStats(S) ==
  /\ installed' = installed \ S
  /\ target' = [s \in Stats |-> IF s \in S THEN Unset ELSE target[s]]
  /\ payload' = [s \in Stats |-> IF s \in S THEN Null ELSE payload[s]]

\* DROP STATISTICS IF EXISTS for every member of S.
DropStats(S) == RemoveStats(S) /\ UNCHANGED <<colTarget, colStats>>

\* ALTER the columns' target to c and the statistics' own targets to tgt,
\* with no ANALYZE behind it.
SetTargets(c, tgt) ==
  /\ colTarget' = c
  /\ target' = tgt
  /\ UNCHANGED <<installed, payload, colStats>>

\* The targets ANALYZE honours: a statistic without its own follows the columns.
EffectiveTarget(s, c, tgt) == IF tgt[s] = Unset THEN c ELSE tgt[s]
DemandedTargets(c, tgt) ==
  {c} \cup { EffectiveTarget(s, c, tgt) : s \in installed }
DeepestTarget(c, tgt) ==
  CHOOSE m \in DemandedTargets(c, tgt) :
     \A t \in DemandedTargets(c, tgt) : t <= m
ScanRows(c, tgt) == RowsAt(DeepestTarget(c, tgt))

\* ALTER the targets, then one ANALYZE: the deepest target on the table sets
\* the sample for columns and statistics alike.  The statistics of hollow come
\* out with a NULL payload because the sample held no MCV item for them.
Analyze(c, tgt, hollow) ==
  /\ colTarget' = c
  /\ target' = tgt
  /\ colStats' = [target |-> c, rows |-> ScanRows(c, tgt)]
  /\ payload' = [s \in Stats |->
                   IF s \in installed \ hollow
                   THEN [param |-> EffectiveTarget(s, c, tgt),
                         rows  |-> ScanRows(c, tgt)]
                   ELSE Null]
  /\ UNCHANGED installed

\* The sets of statistics an ANALYZE may leave without a payload.
HollowSets == SUBSET { s \in installed : s \in Slots => s.cand \in MayBeEmpty }

\* What EXPLAIN can see: the single-column statistics and every payload that
\* is not NULL.
Seen == [single |-> colStats,
         live   |-> { [stat |-> s, payload |-> payload[s]] :
                        s \in { t \in installed : payload[t] # Null } }]
=============================================================================
