----------------------------- MODULE PgSession ------------------------------
(***************************************************************************)
(* The commands other than a measurement that are run against one          *)
(* PostgreSQL table, one at a time and each in a process of its own.  A    *)
(* command may end at every step, killed or by a call that raises, and     *)
(* what it did to the table stays for the next one.                        *)
(***************************************************************************)
EXTENDS PgTable, FiniteSets, SequencesExt

CONSTANTS
  Jobs,        \* the commands this instance runs
  NoJob,       \* nothing is running
  MaxRuns,     \* bound on commands started in one behaviour
  MaxFaults,   \* bound on commands that end early
  ProbesAt     \* [Levels -> the probe statistics the fit creates there]

VARIABLES
  job,       \* the command running
  pc,        \* where it is
  level,     \* the sampling level it works at
  todo,      \* statistics the current loop still has to handle
  born,      \* what is on the table in creation order: ascending OIDs
  pinned,    \* the table is in the process's _pinned_single cache
  runs, faults

sessionVars == <<job, pc, level, todo, born, pinned, runs, faults>>

Probes == UNION { ProbesAt[l] : l \in Levels }

ASSUME PgSessionAssumption ==
  /\ ProbesAt \in [Levels -> SUBSET Foreign]
  /\ NoJob \notin Jobs
  /\ \A i, j \in DOMAIN LevelSeq : LevelSeq[i] = LevelSeq[j] => i = j
  /\ IsFiniteSet(Stats)
  /\ MaxRuns \in Nat /\ MaxFaults \in Nat

SessionTypeOK ==
  /\ job \in Jobs \cup {NoJob}
  /\ level \in Levels
  /\ todo \subseteq Stats
  /\ pinned \in BOOLEAN
  /\ runs \in 0 .. MaxRuns /\ faults \in 0 .. MaxFaults
  /\ ToSet(born) = installed /\ Len(born) = Cardinality(installed)

\* Somebody else's statistics may be there; leftovers only come about later.
SessionInit ==
  /\ TableInit /\ installed \cap Probes = {}
  /\ born \in SetToSeqs(installed)
  /\ job = NoJob /\ pc = "idle" /\ level = LevelSeq[1]
  /\ todo = {} /\ pinned = FALSE
  /\ runs = 0 /\ faults = 0

Start(j, at) ==
  /\ job = NoJob /\ runs < MaxRuns
  /\ job' = j /\ pc' = at /\ runs' = runs + 1
  /\ UNCHANGED <<faults, pinned>>

At(here) == pc = here /\ UNCHANGED <<job, runs, faults>>

\* What a command had in memory dies with its process.
Forgotten == level' = LevelSeq[1] /\ todo' = {} /\ pinned' = FALSE

\* The command comes to its end.
End(here) ==
  /\ pc = here /\ pc' = "idle" /\ job' = NoJob
  /\ Forgotten
  /\ UNCHANGED <<runs, faults>>

\* It is killed, or a call it does not catch raises.
Interrupted ==
  /\ job # NoJob /\ faults < MaxFaults
  /\ faults' = faults + 1
  /\ pc' = "idle" /\ job' = NoJob
  /\ Forgotten
  /\ UNCHANGED <<tableVars, born, runs>>

-----------------------------------------------------------------------------
(* Statements with their effect on the creation order. *)

Without(s) == RemoveFirst(born, s)

\* create_stat: DROP IF EXISTS, then CREATE.
Create(s) ==
  /\ s \in todo /\ todo' = todo \ {s}
  /\ CreateStat(s)
  /\ born' = Append(Without(s), s)
  /\ UNCHANGED <<pc, level, pinned>>

Drop(s) ==
  /\ s \in todo /\ todo' = todo \ {s}
  /\ DropStats({s})
  /\ born' = Without(s)
  /\ UNCHANGED <<pc, level, pinned>>

\* ALTER STATISTICS ... SET STATISTICS t for every member of S.
Retarget(S, t) == [s \in Stats |-> IF s \in S THEN t ELSE target[s]]

\* The columns after _ensure_single_columns_pinned.
PinnedColumns == IF pinned THEN colTarget ELSE ColumnPin

AnalyzeWith(c, tgt) ==
  /\ \E hollow \in HollowSets : Analyze(c, tgt, hollow)
  /\ UNCHANGED born

EnterSamplingState(l) == AnalyzeWith(TargetForLevel(l), target)
=============================================================================
