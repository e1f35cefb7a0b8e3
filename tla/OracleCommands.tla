--------------------------- MODULE OracleCommands ---------------------------
(***************************************************************************)
(* The other commands against an Oracle table: Protocol-A over column      *)
(* groups (measure_query_sampling, in place or on a fresh copy of the      *)
(* table in a worker's own schema), the fit of maintenance costs and the   *)
(* deployment of an optimised set.                                         *)
(***************************************************************************)
EXTENDS OracleIsolate

CONSTANTS
  Candidates,   \* the groups the query's predicates suggest
  Probes        \* the column pairs the fit times

ASSUME OracleCommandsAssumption ==
  Candidates \subseteq Groups /\ Probes \subseteq Groups

VARIABLES
  cur,      \* the group under measurement
  chosen,   \* the set to deploy
  arms,     \* [Levels -> the two arms timed by the running fit]
  maint     \* what _maint.json was computed from

commandVars == <<cur, chosen, arms, maint>>

Untimed == [l \in Levels |-> NoReading]
CommandInit == cur = NoReading /\ chosen = {} /\ arms = Untimed /\ maint = NoReading
CommandForgotten == cur' = NoReading /\ chosen' = {} /\ arms' = Untimed

-----------------------------------------------------------------------------
(* measure_query_sampling. *)

Measure ==
  /\ Start("measure") /\ Goto("mEnter")
  /\ UNCHANGED <<dictVars, todo, readVars, cur>>

\* CREATE TABLE AS SELECT in a schema created anew: no group is on the copy.
Worker ==
  /\ Start("worker") /\ Goto("wClean")
  /\ group' = [g \in Groups |-> Absent]
  /\ numRows' \in {0, TableRows} /\ single' = numRows'
  /\ UNCHANGED <<todo, readVars, cur>>

WorkerRestores ==
  /\ pc = "wClean" /\ Goto("mEnter")
  /\ Restore(TableRows)
  /\ known' = TRUE
  /\ NoDrop /\ UNCHANGED <<job, runs, faults, todo, readVars, cur>>

MeasureEnter ==
  /\ At("mEnter") /\ Goto("mClean")
  /\ EnterSamplingState(level)
  /\ todo' = Present
  /\ NoDrop /\ UNCHANGED <<readVars, cur>>

MeasureClean == DropNext("mClean") /\ UNCHANGED <<readVars, cur>>

MeasureBaseline ==
  /\ At("mClean") /\ todo = {} /\ Goto("mBuild")
  /\ base' = Seen /\ todo' = Candidates
  /\ NoDrop /\ UNCHANGED <<dictVars, reads, cur>>

\* build_stat_param; create_stat does nothing.
BuildObject ==
  /\ At("mBuild") /\ Goto("mRead")
  /\ \E g \in todo : Gather(Depth(level), {g}) /\ cur' = g /\ todo' = todo \ {g}
  /\ NoDrop /\ UNCHANGED readVars

ReadObject ==
  /\ At("mRead") /\ Goto("mDrop")
  /\ reads' = Recorded({cur})
  /\ NoDrop /\ UNCHANGED <<dictVars, todo, base, cur>>

\* Mutant: the finally does not drop.
DropObject_NoDrop ==
  /\ At("mDrop") /\ Goto("mBuild")
  /\ NoDrop /\ UNCHANGED <<dictVars, todo, readVars, cur>>

\* The finally drops the group.
DropObject ==
  /\ At("mDrop") /\ Goto("mBuild")
  /\ DropGroup(cur)
  /\ UNCHANGED <<todo, readVars, cur>>

\* The reading raises: the finally drops the group, the command ends.
ObjectRaises ==
  /\ pc = "mRead" /\ faults < MaxFaults /\ faults' = faults + 1
  /\ group' = [group EXCEPT ![cur] = Absent]
  /\ Forgotten /\ ReadForgotten /\ cur' = NoReading
  /\ UNCHANGED <<single, numRows>>

LevelMeasured == pc = "mBuild" /\ todo = {}

\* The worker measures level 0 only.
MeasureNextLevel ==
  /\ LevelMeasured /\ At("mBuild") /\ job # "worker" /\ pc' = "mEnter"
  /\ \E i \in 2 .. Len(LevelSeq) : LevelSeq[i - 1] = level /\ level' = LevelSeq[i]
  /\ ReadForgotten
  /\ NoDrop /\ UNCHANGED <<dictVars, todo, cur>>

MeasureEnd ==
  /\ LevelMeasured /\ (job = "worker" \/ level = LevelSeq[Len(LevelSeq)])
  /\ End("mBuild") /\ ReadForgotten /\ cur' = NoReading
  /\ UNCHANGED dictVars

MeasureNext ==
  /\ \/ Measure \/ Worker \/ WorkerRestores \/ MeasureEnter \/ MeasureClean
     \/ MeasureBaseline \/ BuildObject \/ ReadObject \/ DropObject
     \/ ObjectRaises \/ MeasureNextLevel \/ MeasureEnd
  /\ UNCHANGED <<isolateVars, chosen, arms, maint>>

-----------------------------------------------------------------------------
(* measure_table_maintenance_oracle. *)

FitLevel == Goto("fClean") /\ todo' = Probes

\* Mutant: the probes of an earlier run are not dropped first.
Fit_NoClean ==
  /\ Start("fit") /\ Goto("fClean") /\ todo' = {}
  /\ UNCHANGED <<dictVars, arms, maint>>

Fit ==
  /\ Start("fit") /\ FitLevel
  /\ UNCHANGED <<dictVars, arms, maint>>

FitDrop ==
  /\ \E here \in {"fClean", "fDrop"} : DropNext(here)
  /\ UNCHANGED <<arms, maint>>

\* The first bare gather of a table never gathered reads all of it; the median
\* of the three is one of the others.
BareRows == LesserOf(SRows[level], TableRows)

TimeBare ==
  /\ At("fClean") /\ todo = {} /\ Goto("fProbe")
  /\ Restore(BareRows)
  /\ arms' = [arms EXCEPT ![level] =
                [bare |-> [maintains |-> Present, rows |-> BareRows], withk |-> NoReading]]
  /\ NoDrop /\ UNCHANGED <<todo, maint>>

\* One gather to create the probes, the others timed; the drops have no finally.
TimeWithProbes ==
  /\ At("fProbe") /\ Goto("fDrop")
  /\ Gather(Depth(level), Probes)
  /\ arms' = [arms EXCEPT ![level].withk =
                [maintains |-> Present \cup Probes, rows |-> Depth(level)]]
  /\ todo' = Probes
  /\ NoDrop /\ UNCHANGED maint

FitNextLevel ==
  /\ At("fDrop") /\ todo = {} /\ pc' = "fClean" /\ todo' = Probes
  /\ \E i \in 2 .. Len(LevelSeq) : LevelSeq[i - 1] = level /\ level' = LevelSeq[i]
  /\ NoDrop /\ UNCHANGED <<dictVars, arms, maint>>

WriteMaint ==
  /\ todo = {} /\ level = LevelSeq[Len(LevelSeq)] /\ End("fDrop")
  /\ maint' = [at |-> arms, intact |-> intact] /\ arms' = Untimed
  /\ UNCHANGED dictVars

FitNext ==
  /\ Fit \/ FitDrop \/ TimeBare \/ TimeWithProbes \/ FitNextLevel \/ WriteMaint
  /\ UNCHANGED <<isolateVars, readVars, cur, chosen>>

-----------------------------------------------------------------------------
(* e2e_deploy_oracle. *)

Deploy ==
  /\ Start("deploy") /\ pc' = "dRestore" /\ level' \in Levels
  /\ chosen' \in SUBSET Candidates
  /\ UNCHANGED <<dictVars, todo, readVars>>

\* First the natural statistics of a full scan, then those of the level.
DeployRestore ==
  /\ \/ At("dRestore") /\ Goto("dClean") /\ Restore(TableRows)
     \/ At("dClean") /\ todo = {} /\ Goto("dCleanAgain") /\ EnterSamplingState(level)
  /\ todo' = Present
  /\ NoDrop /\ UNCHANGED <<readVars, chosen>>

DeployDrop ==
  /\ \E here \in {"dClean", "dCleanAgain"} : DropNext(here)
  /\ UNCHANGED <<readVars, chosen>>

\* Mutant: the groups are gathered one after the other (shown for the last two).
DeployGather_OneByOne ==
  /\ At("dCleanAgain") /\ todo = {} /\ Goto("dExplain")
  /\ group' = [g \in Groups |->
                 IF g \in chosen
                 THEN [size |-> IF g = CHOOSE x \in chosen : TRUE THEN Param ELSE SizeAuto,
                       rows |-> Depth(level)]
                 ELSE group[g]]
  /\ single' = Depth(level) /\ numRows' = TableRows
  /\ NoDrop /\ UNCHANGED <<todo, readVars, chosen>>

\* One combined gather.
DeployGather ==
  /\ At("dCleanAgain") /\ todo = {} /\ Goto("dExplain")
  /\ Gather(Depth(level), chosen)
  /\ NoDrop /\ UNCHANGED <<todo, readVars, chosen>>

DeployExplain ==
  /\ At("dExplain") /\ Goto("dReport")
  /\ reads' = [K \in {chosen} |-> Seen]
  /\ NoDrop /\ UNCHANGED <<dictVars, todo, base, chosen>>

DeployReport ==
  /\ End("dReport")
  /\ ReadForgotten /\ chosen' = {}
  /\ UNCHANGED dictVars

DeployNext ==
  /\ \/ Deploy \/ DeployRestore \/ DeployDrop \/ DeployGather
     \/ DeployExplain \/ DeployReport
  /\ UNCHANGED <<isolateVars, cur, arms, maint>>
=============================================================================
