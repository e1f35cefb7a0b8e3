---------------------------- MODULE OracleTable -----------------------------
(***************************************************************************)
(* One Oracle table as the backend drives it: its column groups, what the  *)
(* last GATHER_TABLE_STATS left behind and the row count in the dictionary *)
(* from which the backend computes estimate_percent; and the commands run  *)
(* against it, one at a time and each in a process of its own.             *)
(***************************************************************************)
EXTENDS Integers, Sequences, FiniteSets

CONSTANTS
  Groups,      \* the column groups that can be on the table
  LevelSeq,    \* the sampling levels
  SRows,       \* level -> s_rows of the ladder
  TableRows,   \* the rows of the table
  Param,       \* the one representation parameter, 254
  SizeAuto,    \* SIZE AUTO
  Absent,      \* the group does not exist
  Jobs,        \* the commands this instance runs
  NoJob,       \* nothing is running
  MaxRuns,     \* bound on commands started in one behaviour
  MaxFaults,   \* bound on commands that end early
  MaxLost      \* bound on drops whose error is swallowed

Levels == { LevelSeq[i] : i \in DOMAIN LevelSeq }

ASSUME OracleAssumption ==
  /\ LevelSeq \in Seq(Nat) /\ LevelSeq # << >> /\ 0 \in Levels
  /\ \A i, j \in DOMAIN LevelSeq : LevelSeq[i] = LevelSeq[j] => i = j
  /\ SRows \in [Levels -> Nat]
  /\ TableRows \in Nat \ {0}
  /\ NoJob \notin Jobs
  /\ Absent \notin [size : {Param, SizeAuto}, rows : Nat]

VARIABLES
  group,     \* the column groups, each with its SIZE and the rows behind it
  single,    \* the rows behind the single-column statistics
  numRows,   \* user_tables.num_rows, 0 before the first gather
  job,       \* the command running
  pc,        \* where it is
  level,     \* the sampling level it works at
  todo,      \* groups the current loop still has to handle
  known,     \* numRows was there when the command began
  intact,    \* none of the command's drops was lost
  runs, faults, lost

dictVars == <<group, single, numRows>>
procVars == <<job, pc, level, todo, known, intact>>
tableVars == <<dictVars, procVars, runs, faults, lost>>

Present == { g \in Groups : group[g] # Absent }

TableTypeOK ==
  /\ \A g \in Present : group[g].size \in {Param, SizeAuto} /\ group[g].rows <= TableRows
  /\ single \in 0 .. TableRows
  /\ numRows \in {0, TableRows}
  /\ job \in Jobs \cup {NoJob}
  /\ level \in Levels
  /\ todo \subseteq Groups
  /\ known \in BOOLEAN /\ intact \in BOOLEAN
  /\ runs \in 0 .. MaxRuns /\ faults \in 0 .. MaxFaults /\ lost \in 0 .. MaxLost

TableInit ==
  /\ numRows \in {0, TableRows} /\ single = numRows
  /\ group \in [Groups -> {Absent, [size |-> SizeAuto, rows |-> TableRows]}]
  /\ numRows = 0 => Present = {}
  /\ job = NoJob /\ pc = "idle" /\ level = LevelSeq[1] /\ todo = {}
  /\ known = TRUE /\ intact = TRUE
  /\ runs = 0 /\ faults = 0 /\ lost = 0

LesserOf(a, b) == IF a <= b THEN a ELSE b

\* The rows _percent_for makes a gather read: all of them while N is unknown.
Depth(l) == IF numRows = 0 THEN TableRows ELSE LesserOf(SRows[l], numRows)

\* GATHER_TABLE_STATS, FOR ALL COLUMNS SIZE AUTO FOR COLUMNS S SIZE 254: the
\* groups of S are created, those already there are columns like the others.
Gather(rows, S) ==
  /\ group' = [g \in Groups |->
                 IF g \in S THEN [size |-> Param, rows |-> rows]
                 ELSE IF g \in Present THEN [size |-> SizeAuto, rows |-> rows]
                 ELSE Absent]
  /\ single' = rows /\ numRows' = TableRows

\* restore_natural_stats.
Restore(rows) == Gather(rows, {})

\* Mutant: the sampling state is a natural gather at 100 percent.
EnterSamplingState_Full(l) == Restore(TableRows)

EnterSamplingState(l) == Restore(Depth(l))

\* What EXPLAIN and the catalog show.
Seen == [single |-> single,
         groups |-> { [name |-> g, as |-> group[g]] : g \in Present }]
Names(reading) == { e.name : e \in reading.groups }

-----------------------------------------------------------------------------
(* Commands. *)

At(here) == pc = here /\ UNCHANGED <<job, known, runs, faults>>
Goto(there) == pc' = there /\ UNCHANGED level
NoDrop == UNCHANGED <<intact, lost>>

Start(j) ==
  /\ j \in Jobs /\ job = NoJob /\ runs < MaxRuns
  /\ job' = j /\ runs' = runs + 1
  /\ known' = (numRows # 0) /\ intact' = TRUE
  /\ UNCHANGED <<faults, lost>>

Forgotten ==
  /\ job' = NoJob /\ pc' = "idle" /\ level' = LevelSeq[1] /\ todo' = {}
  /\ known' = TRUE /\ intact' = TRUE
  /\ UNCHANGED <<runs, lost>>

End(here) == pc = here /\ Forgotten /\ UNCHANGED faults

\* The command is killed, or a call it does not catch raises.
Interrupted ==
  /\ job # NoJob /\ faults < MaxFaults /\ faults' = faults + 1
  /\ Forgotten
  /\ UNCHANGED dictVars

\* DROP_EXTENDED_STATS: any error is taken for "not present".
DropGroup(g) ==
  /\ \/ group' = [group EXCEPT ![g] = Absent] /\ NoDrop
     \/ /\ g \in Present /\ lost < MaxLost /\ lost' = lost + 1
        /\ intact' = FALSE /\ UNCHANGED group
  /\ UNCHANGED <<single, numRows>>

\* One drop of the loop that the command is in.
DropNext(here) ==
  /\ At(here) /\ UNCHANGED <<pc, level>>
  /\ \E g \in todo : DropGroup(g) /\ todo' = todo \ {g}
=============================================================================
