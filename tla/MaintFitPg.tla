----------------------------- MODULE MaintFitPg -----------------------------
(***************************************************************************)
(* The fit of PostgreSQL maintenance costs: at every level the table is    *)
(* timed bare, then carrying k probe statistics, and the difference is     *)
(* charged to the probes.  Of a timing only what the timed ANALYZE         *)
(* maintains and how many rows it reads are kept.                          *)
(***************************************************************************)
EXTENDS PgSession

CONSTANTS NoReading   \* an arm that is not timed, a file that is not written

VARIABLES
  arms,    \* [Levels -> the two arms timed by the running fit]
  maint,   \* what _maint.json was computed from
  scruff   \* the running fit found probes of an earlier one on the table

fitVars == <<arms, maint, scruff>>

Untimed == [l \in Levels |-> [bare |-> NoReading, withk |-> NoReading]]

FitForgotten == arms' = Untimed /\ scruff' = FALSE

FitInit == arms = Untimed /\ maint = NoReading /\ scruff = FALSE

\* What one ANALYZE at the targets in force has to do.
Work == [maintains |-> installed, rows |-> ScanRows(colTarget, target)]

Fit ==
  /\ "fit" \in Jobs
  /\ Start("fit", "fitEnter")
  /\ level' = LevelSeq[1]
  /\ arms' = Untimed /\ scruff' = (installed \cap Probes # {})
  /\ UNCHANGED <<tableVars, born, todo, maint>>

EnterFitLevel ==
  /\ At("fitEnter") /\ pc' = "fitBare"
  /\ EnterSamplingState(level)
  /\ UNCHANGED <<level, todo, pinned, fitVars>>

\* The warm-up and the timed repeats of the bare arm.
TimeBare ==
  /\ At("fitBare") /\ pc' = "fitCreate"
  /\ AnalyzeWith(colTarget, target)
  /\ arms' = [arms EXCEPT ![level].bare = Work]
  /\ todo' = ProbesAt[level]
  /\ UNCHANGED <<level, pinned, maint, scruff>>

CreateProbe ==
  /\ At("fitCreate") /\ UNCHANGED fitVars
  /\ \E s \in todo : Create(s)

\* Mutant: the second arm is timed after the probes have been dropped.
TimeWithProbes_Late ==
  /\ At("fitCreate") /\ todo = {} /\ ProbesAt[level] # {}
  /\ pc' = "fitDrop" /\ todo' = ProbesAt[level]
  /\ AnalyzeWith(colTarget, Retarget(ProbesAt[level], TargetForLevel(level)))
  /\ arms' = [arms EXCEPT ![level].withk =
                [maintains |-> installed \ ProbesAt[level],
                 rows |-> ScanRows(colTarget, target')]]
  /\ UNCHANGED <<level, pinned, maint, scruff>>

\* ALTER the probes to the level's target, ANALYZE once untimed, then time.
TimeWithProbes ==
  /\ At("fitCreate") /\ todo = {} /\ ProbesAt[level] # {}
  /\ pc' = "fitDrop" /\ todo' = ProbesAt[level]
  /\ AnalyzeWith(colTarget, Retarget(ProbesAt[level], TargetForLevel(level)))
  /\ arms' = [arms EXCEPT ![level].withk =
                [maintains |-> installed, rows |-> ScanRows(colTarget, target')]]
  /\ UNCHANGED <<level, pinned, maint, scruff>>

\* Inside the try: the finally still drops the probes.
TimeWithProbesRaises ==
  /\ pc = "fitCreate" /\ todo = {} /\ ProbesAt[level] # {}
  /\ faults < MaxFaults /\ faults' = faults + 1
  /\ pc' = "fitDrop" /\ todo' = ProbesAt[level]
  /\ \E S \in SUBSET ProbesAt[level] :
        SetTargets(colTarget, Retarget(S, TargetForLevel(level)))
  /\ UNCHANGED <<job, runs, level, born, pinned, fitVars>>

DropProbe ==
  /\ At("fitDrop") /\ UNCHANGED fitVars
  /\ \E s \in todo : Drop(s)

\* Nothing is dropped on a table with fewer than two columns: it has no probe.
LevelFitted == \/ pc = "fitDrop" /\ todo = {} /\ arms[level].withk # NoReading
               \/ pc = "fitCreate" /\ ProbesAt[level] = {}

NextFitLevel ==
  /\ LevelFitted /\ pc' = "fitEnter"
  /\ \E i \in 2 .. Len(LevelSeq) : LevelSeq[i - 1] = level /\ level' = LevelSeq[i]
  /\ UNCHANGED <<job, runs, faults, tableVars, todo, born, pinned, fitVars>>

\* write_maint, after the last level of the table.
WriteMaint ==
  /\ LevelFitted /\ level = Last(LevelSeq)
  /\ End(pc)
  /\ maint' = [at |-> arms, scruff |-> scruff]
  /\ FitForgotten
  /\ UNCHANGED <<tableVars, born>>

\* The exception goes on after the finally; nothing is written.
FitFails ==
  /\ pc = "fitDrop" /\ todo = {} /\ arms[level].withk = NoReading
  /\ End(pc)
  /\ FitForgotten
  /\ UNCHANGED <<tableVars, born, maint>>

FitNext ==
  Fit \/ EnterFitLevel \/ TimeBare \/ CreateProbe \/ TimeWithProbes
    \/ TimeWithProbesRaises \/ DropProbe \/ NextFitLevel \/ WriteMaint \/ FitFails
=============================================================================
