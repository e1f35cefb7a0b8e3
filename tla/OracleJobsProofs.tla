-------------------------- MODULE OracleJobsProofs --------------------------
(***************************************************************************)
(* OracleBackend.isolate keeps the contract of Isolation between commands  *)
(* of any kind, whatever they left on the table, and for the blocks of the *)
(* co-installation study too.                                              *)
(***************************************************************************)
EXTENDS OracleJobs, TLAPS

GroupStats == [size : {Param, SizeAuto}, rows : Nat]

\* What the dictionary can hold.
DictType ==
  /\ group \in [Groups -> GroupStats \cup {Absent}]
  /\ numRows \in Nat
  /\ level \in Levels /\ todo \subseteq Groups
  /\ faults \in Nat /\ lost \in Nat

IsolatePcs == {"isoDrop", "isoAdd", "isoBody", "isoUndo", "isoRestore"}
Keeps == KeepChoices \cup { K2Keeps[i] : i \in DOMAIN K2Keeps }

\* The groups on the table, position by position, unless a drop was lost.
OnTable ==
  /\ pc = "isoDrop" => /\ todo \subseteq orig \ keepSet
                       /\ Present = (orig \cap keepSet) \cup todo
  /\ pc = "isoAdd" => /\ todo \subseteq keepSet \ orig
                      /\ Present = keepSet \ todo
  /\ pc = "isoBody" => Present = keepSet
  /\ pc = "isoUndo" => /\ todo \subseteq keepSet \ orig
                       /\ Present = (orig \cap keepSet) \cup todo
  /\ pc = "isoRestore" => /\ todo \subseteq orig \ keepSet
                          /\ Present = orig \ todo

IsolateInv ==
  /\ DictType
  /\ intact \in BOOLEAN
  /\ job = NoJob => pc = "idle"
  /\ pc \in IsolatePcs => keepSet \in Keeps /\ orig \subseteq Groups
  /\ intact => OnTable

-----------------------------------------------------------------------------
(* The statements. *)

LEMMA LevelsAreNat == Levels \subseteq Nat /\ LevelSeq[1] \in Levels
BY OracleAssumption DEF Levels

LEMMA KeepsAreSets == Keeps \subseteq SUBSET Groups /\ NoKeep \notin Keeps
BY OracleIsolateAssumption DEF Keeps

LEMMA PresentGroups == Present \subseteq Groups
BY DEF Present

\* _percent_for asks for a number of rows.
LEMMA DepthType ==
  ASSUME DictType, NEW l \in Levels
  PROVE  Depth(l) \in Nat
BY OracleAssumption DEF DictType, Depth, LesserOf

\* A gather creates the groups it names and removes none.
LEMMA GatherOn ==
  ASSUME DictType, NEW rows \in Nat, NEW S \in SUBSET Groups, Gather(rows, S)
  PROVE  /\ group' \in [Groups -> GroupStats \cup {Absent}]
         /\ numRows' \in Nat
         /\ Present' = Present \cup S
<1> DEFINE Own == [size |-> Param, rows |-> rows]
           Other == [size |-> SizeAuto, rows |-> rows]
<1>1. Absent \notin GroupStats
  BY OracleAssumption, Zenon DEF GroupStats
<1>2. Own \in GroupStats /\ Other \in GroupStats
  BY DEF GroupStats
<1>3. /\ group' = [g \in Groups |-> IF g \in S THEN Own
                                   ELSE IF g \in Present THEN Other ELSE Absent]
      /\ numRows' = TableRows
  BY Zenon DEF Gather
<1> HIDE DEF Own, Other
<1>4. group' \in [Groups -> GroupStats \cup {Absent}]
  BY <1>2, <1>3
<1>5. Present' = Present \cup S
  BY <1>1, <1>2, <1>3 DEF Present
<1> QED
  BY <1>3, <1>4, <1>5, OracleAssumption

\* A drop removes its group, or is lost and the command with it.
LEMMA DropOn ==
  ASSUME DictType, NEW g, DropGroup(g)
  PROVE  /\ group' \in [Groups -> GroupStats \cup {Absent}]
         /\ numRows' \in Nat /\ lost' \in Nat
         /\ \/ Present' = Present \ {g} /\ UNCHANGED <<intact, lost>>
            \/ lost' = lost + 1 /\ intact' = FALSE
<1>1. CASE group' = [group EXCEPT ![g] = Absent] /\ NoDrop
  <2>1. Present' = Present \ {g}
    BY <1>1 DEF DictType, Present
  <2> QED
    BY <1>1, <2>1 DEF DictType, DropGroup, NoDrop
<1>2. CASE lost' = lost + 1 /\ intact' = FALSE /\ UNCHANGED group
  BY <1>2 DEF DictType, DropGroup
<1> QED
  BY <1>1, <1>2 DEF DropGroup

-----------------------------------------------------------------------------
(* Steps outside of a block. *)

LEMMA IsolateInvInit == Init => IsolateInv
<1> SUFFICES ASSUME Init PROVE IsolateInv
  OBVIOUS
<1>1. [size |-> SizeAuto, rows |-> TableRows] \in GroupStats
  BY OracleAssumption DEF GroupStats
<1>2. DictType
  BY <1>1, LevelsAreNat, OracleAssumption DEF Init, TableInit, DictType, Present
<1> QED
  BY <1>2 DEF Init, TableInit, IsolateInv, OnTable, IsolatePcs

Outside ==
  /\ pc \notin IsolatePcs /\ pc' \notin IsolatePcs
  /\ DictType' /\ intact' \in BOOLEAN
  /\ job' = NoJob => pc' = "idle"

\* The next of the levels is a level.
LEMMA NextLevelType ==
  ASSUME NEW i \in 2 .. Len(LevelSeq) PROVE LevelSeq[i] \in Levels
BY OracleAssumption DEF Levels

LEMMA FitOutside == ASSUME IsolateInv, FitNext PROVE Outside
<1> USE LevelsAreNat, PresentGroups, DepthType, OracleCommandsAssumption DEF IsolateInv, Outside, IsolatePcs, At, Goto, NoDrop, dictVars
<1>0. NoJob \notin Jobs /\ TableRows \in Nat /\ SRows \in [Levels -> Nat]
  BY OracleAssumption
<1>1. CASE Fit
  BY <1>0, <1>1 DEF Fit, Start, FitLevel, DictType
<1>2. CASE FitDrop
  <2>1. PICK g \in todo : DropGroup(g)
    BY <1>2 DEF FitDrop, DropNext
  <2> QED
    BY <1>2, <2>1, DropOn DEF FitDrop, DropNext, DictType
<1>3. CASE TimeBare
  <2>1. BareRows \in Nat
    BY <1>0 DEF BareRows, LesserOf, DictType
  <2>2. Gather(BareRows, {})
    BY <1>3 DEF TimeBare, Restore
  <2>3. group' \in [Groups -> GroupStats \cup {Absent}] /\ numRows' \in Nat
    BY <2>1, <2>2, GatherOn
  <2> QED
    BY <1>3, <2>3 DEF TimeBare, DictType
<1>4. CASE TimeWithProbes
  <2>1. Probes \in SUBSET Groups
    OBVIOUS
  <2>2. Gather(Depth(level), Probes) /\ Depth(level) \in Nat
    BY <1>4 DEF TimeWithProbes, DictType
  <2>3. group' \in [Groups -> GroupStats \cup {Absent}] /\ numRows' \in Nat
    BY <2>1, <2>2, GatherOn
  <2> QED
    BY <1>4, <2>3 DEF TimeWithProbes, DictType
<1>5. CASE FitNextLevel
  BY <1>5, NextLevelType DEF FitNextLevel, DictType
<1>6. CASE WriteMaint
  BY <1>6 DEF WriteMaint, End, Forgotten, DictType
<1> QED
  BY <1>1, <1>2, <1>3, <1>4, <1>5, <1>6 DEF FitNext

LEMMA MeasureOutside == ASSUME IsolateInv, MeasureNext PROVE Outside
<1> USE LevelsAreNat, PresentGroups, DepthType, OracleCommandsAssumption DEF IsolateInv, Outside, IsolatePcs, At, Goto, NoDrop,
        dictVars, Forgotten
<1>0. NoJob \notin Jobs /\ TableRows \in Nat
  BY OracleAssumption
<1>1. CASE Measure
  BY <1>0, <1>1 DEF Measure, Start, DictType
<1>2. CASE Worker
  BY <1>0, <1>2 DEF Worker, Start, DictType
<1>3. CASE WorkerRestores
  <2>1. Gather(TableRows, {})
    BY <1>3 DEF WorkerRestores, Restore
  <2>2. group' \in [Groups -> GroupStats \cup {Absent}] /\ numRows' \in Nat
    BY <1>0, <2>1, GatherOn
  <2> QED
    BY <1>3, <2>2 DEF WorkerRestores, DictType
<1>4. CASE MeasureEnter
  <2>1. Gather(Depth(level), {}) /\ Depth(level) \in Nat
    BY <1>4 DEF MeasureEnter, EnterSamplingState, Restore, DictType
  <2>2. group' \in [Groups -> GroupStats \cup {Absent}] /\ numRows' \in Nat
    BY <2>1, GatherOn
  <2> QED
    BY <1>4, <2>2 DEF MeasureEnter, DictType
<1>5. CASE MeasureClean
  <2>1. PICK g \in todo : DropGroup(g)
    BY <1>5 DEF MeasureClean, DropNext
  <2> QED
    BY <1>5, <2>1, DropOn DEF MeasureClean, DropNext, DictType
<1>6. CASE MeasureBaseline
  BY <1>6 DEF MeasureBaseline, DictType
<1>7. CASE BuildObject
  <2>1. PICK g \in todo : Gather(Depth(level), {g})
    BY <1>7 DEF BuildObject
  <2>2. g \in Groups /\ Depth(level) \in Nat
    BY DEF DictType
  <2>3. group' \in [Groups -> GroupStats \cup {Absent}] /\ numRows' \in Nat
    BY <2>1, <2>2, GatherOn
  <2> QED
    BY <1>7, <2>3 DEF BuildObject, DictType
<1>8. CASE ReadObject
  BY <1>8 DEF ReadObject, DictType
<1>9. CASE DropObject
  <2>1. DropGroup(cur)
    BY <1>9 DEF DropObject
  <2> QED
    BY <1>9, <2>1, DropOn DEF DropObject, DictType
<1>10. CASE ObjectRaises
  <2>1. group' = [group EXCEPT ![cur] = Absent] /\ group \in [Groups -> GroupStats \cup {Absent}]
    BY <1>10 DEF ObjectRaises, DictType
  <2>2. group' \in [Groups -> GroupStats \cup {Absent}]
    BY <2>1
  <2> QED
    BY <1>10, <2>2 DEF ObjectRaises, DictType
<1>11. CASE MeasureNextLevel
  BY <1>11, NextLevelType DEF MeasureNextLevel, DictType
<1>12. CASE MeasureEnd
  BY <1>12 DEF MeasureEnd, End, DictType
<1> HIDE DEF IsolateInv, Outside, IsolatePcs, At, Goto, NoDrop, dictVars, Forgotten
<1>13. \/ Measure \/ Worker \/ WorkerRestores \/ MeasureEnter \/ MeasureClean
       \/ MeasureBaseline \/ BuildObject \/ ReadObject \/ DropObject
       \/ ObjectRaises \/ MeasureNextLevel \/ MeasureEnd
  BY Zenon DEF MeasureNext
<1> QED
  BY <1>1, <1>2, <1>3, <1>4, <1>5, <1>6, <1>7, <1>8, <1>9, <1>10, <1>11, <1>12, <1>13

LEMMA DeployOutside ==
  ASSUME IsolateInv, chosen \subseteq Groups, DeployNext
  PROVE  Outside
<1> USE LevelsAreNat, PresentGroups, DepthType DEF IsolateInv, Outside, IsolatePcs,
        At, Goto, NoDrop, dictVars, Forgotten
<1>0. /\ NoJob \notin Jobs /\ TableRows \in Nat /\ Candidates \subseteq Groups
  BY OracleAssumption, OracleCommandsAssumption
<1>1. CASE Deploy
  BY <1>0, <1>1 DEF Deploy, Start, DictType
<1>2. CASE DeployRestore
  <2>1. \E rows \in Nat : Gather(rows, {})
    BY <1>0, <1>2 DEF DeployRestore, EnterSamplingState, Restore, DictType
  <2>2. group' \in [Groups -> GroupStats \cup {Absent}] /\ numRows' \in Nat
    BY <2>1, GatherOn
  <2> QED
    BY <1>2, <2>2 DEF DeployRestore, DictType
<1>3. CASE DeployDrop
  <2>1. PICK g \in todo : DropGroup(g)
    BY <1>3 DEF DeployDrop, DropNext
  <2> QED
    BY <1>3, <2>1, DropOn DEF DeployDrop, DropNext, DictType
<1>4. CASE DeployGather
  <2>1. Gather(Depth(level), chosen) /\ Depth(level) \in Nat
    BY <1>4 DEF DeployGather, DictType
  <2>2. group' \in [Groups -> GroupStats \cup {Absent}] /\ numRows' \in Nat
    BY <1>0, <2>1, GatherOn
  <2> QED
    BY <1>4, <2>2 DEF DeployGather, DictType
<1>5. CASE DeployExplain
  BY <1>5 DEF DeployExplain, DictType
<1>6. CASE DeployReport
  BY <1>6 DEF DeployReport, End, DictType
<1> HIDE DEF IsolateInv, Outside, IsolatePcs, At, Goto, NoDrop, dictVars, Forgotten
<1> QED
  BY <1>1, <1>2, <1>3, <1>4, <1>5, <1>6 DEF DeployNext

\* The study between its blocks.
LEMMA K2Outside ==
  ASSUME IsolateInv, K2Next, ~ K2Isolate
  PROVE  Outside
<1> USE LevelsAreNat, PresentGroups, DepthType DEF IsolateInv, Outside, IsolatePcs,
        At, Goto, NoDrop, dictVars, Forgotten
<1>0. NoJob \notin Jobs
  BY OracleAssumption
<1>1. CASE K2
  BY <1>0, <1>1 DEF K2, Start, DictType
<1>2. CASE K2Drop
  <2>1. PICK g \in todo : DropGroup(g)
    BY <1>2 DEF K2Drop, DropNext
  <2> QED
    BY <1>2, <2>1, DropOn DEF K2Drop, DropNext, DictType
<1>3. CASE K2Clean
  BY <1>3 DEF K2Clean, DictType
<1>4. CASE K2Enter
  <2>1. Gather(Depth(level), {}) /\ Depth(level) \in Nat
    BY <1>4 DEF K2Enter, EnterSamplingState, Restore, DictType
  <2>2. group' \in [Groups -> GroupStats \cup {Absent}] /\ numRows' \in Nat
    BY <2>1, GatherOn
  <2> QED
    BY <1>4, <2>2 DEF K2Enter, DictType
<1>5. CASE K2Baseline
  BY <1>5 DEF K2Baseline, DictType
<1>6. CASE K2NextLevel
  BY <1>6, NextLevelType DEF K2NextLevel, K2Read, DictType
<1>7. CASE K2LastLevel
  BY <1>7 DEF K2LastLevel, K2Read, DictType
<1>8. CASE K2End
  BY <1>8 DEF K2End, End, DictType
<1> HIDE DEF IsolateInv, Outside, IsolatePcs, At, Goto, NoDrop, dictVars, Forgotten
<1> QED
  BY <1>1, <1>2, <1>3, <1>4, <1>5, <1>6, <1>7, <1>8 DEF K2Next

-----------------------------------------------------------------------------
(* The set to deploy. *)

ChosenInv == chosen \subseteq Groups

LEMMA ChosenAreGroups ==
  /\ Init => ChosenInv
  /\ ChosenInv /\ [Next]_vars => ChosenInv'
<1> USE DEF ChosenInv
<1>1. Init => chosen \subseteq Groups
  BY DEF Init, CommandInit
<1>2. ASSUME chosen \subseteq Groups, DeployNext PROVE chosen' \subseteq Groups
  BY <1>2, OracleCommandsAssumption
     DEF DeployNext, Deploy, DeployRestore, DeployDrop, DeployGather, DeployExplain, DeployReport
<1>3. ASSUME chosen \subseteq Groups, [Next]_vars, ~ DeployNext PROVE chosen' \subseteq Groups
  BY <1>3 DEF Next, Blocks, MeasureNext, FitNext, CutShort, AllRun, vars, commandVars,
              CommandForgotten
<1> QED
  BY <1>1, <1>2, <1>3

-----------------------------------------------------------------------------
(* A block of isolate. *)

LEMMA BlockStep ==
  ASSUME IsolateInv, IsolateNext \/ K2Isolate
  PROVE  IsolateInv' /\ [Contract!Next]_(Contract!vars)
<1> USE LevelsAreNat, PresentGroups, KeepsAreSets
    DEF IsolateInv, DictType, OnTable, IsolatePcs, At, Goto, NoDrop, dictVars
<1> USE DEF Contract!Next, Contract!Elsewhere, Contract!Abandon, Contract!Enter,
            Contract!Leave, Contract!vars, Open, Entering, Leaving
<1>0. NoJob \notin Jobs
  BY OracleAssumption
<1>1. CASE Caller
  BY <1>0, <1>1 DEF Caller, Start, Enter, Keeps, Present
<1>2. CASE K2Isolate
  BY <1>0, <1>2 DEF K2Isolate, Enter, Keeps, Present
<1>3. CASE DropUnkept
  <2>1. PICK g \in todo : DropGroup(g) /\ todo' = todo \ {g}
    BY <1>3 DEF DropUnkept, DropNext
  <2> QED
    BY <1>0, <1>3, <2>1, DropOn DEF DropUnkept, DropNext, isolateVars
<1>4. CASE AllDropped
  BY <1>0, <1>4 DEF AllDropped, isolateVars, Present
<1>5. CASE AddKept
  <2>1. PICK g \in todo : Gather(Depth(level), {g}) /\ todo' = todo \ {g}
    BY <1>5 DEF AddKept
  <2>2. g \in Groups /\ Depth(level) \in Nat
    BY DepthType
  <2>3. /\ group' \in [Groups -> GroupStats \cup {Absent}] /\ numRows' \in Nat
        /\ Present' = Present \cup {g}
    BY <2>1, <2>2, GatherOn
  <2> QED
    BY <1>0, <1>5, <2>1, <2>3 DEF AddKept, isolateVars
<1>6. CASE Yield
  BY <1>0, <1>6 DEF Yield, isolateVars, Present
<1>7. CASE Body
  BY <1>0, <1>7 DEF Body, Present
<1>8. CASE DropAdded
  <2>1. PICK g \in todo : DropGroup(g) /\ todo' = todo \ {g}
    BY <1>8 DEF DropAdded, DropNext
  <2>2. /\ pc = "isoUndo" /\ pc' = pc /\ UNCHANGED <<job, level, faults, isolateVars>>
        /\ intact \in BOOLEAN /\ todo \subseteq Groups /\ orig \subseteq Groups
    BY <1>8 DEF DropAdded, DropNext
  <2>3. DictType'
    BY <2>1, <2>2, DropOn
  <2>4. CASE Present' = Present \ {g} /\ UNCHANGED <<intact, lost>>
    <3>1. OnTable' \/ ~ intact
      BY <2>1, <2>2, <2>4 DEF isolateVars
    <3> QED
      BY <1>0, <2>1, <2>2, <2>3, <2>4, <3>1 DEF isolateVars
  <2>5. CASE lost' = lost + 1 /\ intact' = FALSE
    <3>1. IsolateInv'
      BY <1>0, <2>1, <2>2, <2>3, <2>5 DEF isolateVars
    <3>2. faults' + lost' # faults + lost
      BY <2>2, <2>5
    <3> QED
      BY <2>2, <2>5, <3>1, <3>2
  <2> QED
    BY <2>1, <2>4, <2>5, DropOn
<1>9. CASE AllUndone
  BY <1>0, <1>9 DEF AllUndone, isolateVars, Present
<1>10. CASE RestoreDropped
  <2>1. PICK g \in todo : /\ todo' = todo \ {g}
                          /\ IF g \in Present THEN UNCHANGED dictVars ELSE Gather(Depth(0), {g})
    BY <1>10 DEF RestoreDropped
  <2>2. g \in Groups /\ Depth(0) \in Nat
    BY DepthType, OracleAssumption
  <2>3. /\ group' \in [Groups -> GroupStats \cup {Absent}] /\ numRows' \in Nat
        /\ Present' = Present \cup {g}
    BY <2>1, <2>2, GatherOn DEF Present
  <2>4. orig \subseteq Groups /\ keepSet \in Keeps
    BY <1>10 DEF RestoreDropped
  <2>5. IsolateInv'
    BY <1>0, <1>10, <2>1, <2>3, <2>4 DEF RestoreDropped, isolateVars
  <2> QED
    BY <1>0, <1>10, <2>1, <2>4, <2>5 DEF RestoreDropped, isolateVars
<1>11. CASE LeaveAndEnd
  BY <1>0, <1>11 DEF LeaveAndEnd, End, Forgotten, IsolateForgotten, Present
<1>12. CASE Leave
  BY <1>0, <1>12 DEF Leave, IsolateForgotten, Present
<1> QED
  BY <1>1, <1>2, <1>3, <1>4, <1>5, <1>6, <1>7, <1>8, <1>9, <1>10, <1>11, <1>12
     DEF IsolateNext

\* Every other step is made outside of a block, or breaks it.
LEMMA OtherStep ==
  ASSUME IsolateInv, ChosenInv,
         MeasureNext \/ FitNext \/ DeployNext \/ (K2Next /\ ~ K2Isolate) \/ CutShort
  PROVE  IsolateInv' /\ Contract!Next
<1> USE DEF Contract!Next, Contract!Elsewhere, Contract!Abandon, Open, Entering, Leaving
<1>1. CASE CutShort
  <2>1. /\ pc' = "idle" /\ intact' = TRUE /\ UNCHANGED <<dictVars, lost>>
        /\ level' = LevelSeq[1] /\ todo' = {} /\ faults' = faults + 1
    BY <1>1 DEF CutShort, Interrupted, Forgotten
  <2>2. DictType'
    BY <2>1, LevelsAreNat DEF IsolateInv, DictType, dictVars
  <2> QED
    BY <2>1, <2>2 DEF IsolateInv, DictType, OnTable, IsolatePcs
<1>2. CASE ~ CutShort
  <2>1. Outside
    BY <1>2, FitOutside, MeasureOutside, DeployOutside, K2Outside DEF ChosenInv
  <2>2. IsolateInv'
    BY <2>1 DEF Outside, IsolateInv, OnTable, IsolatePcs
  <2> QED
    BY <2>1, <2>2 DEF Outside, IsolatePcs
<1> QED
  BY <1>1, <1>2

\* Inside the block of isolate exactly the groups to keep are on the table, and
\* afterwards those that were there before, whatever earlier commands left, as
\* long as the block's command loses no drop and is not cut short.
THEOREM IsolationKept == Spec => ImplementsIsolation
<1>1. Init => Contract!Init
  BY PresentGroups DEF Init, TableInit, Contract!Init, Open, Entering, Leaving
<1>2. IsolateInv /\ ChosenInv /\ [Next]_vars
      => IsolateInv' /\ [Contract!Next]_(Contract!vars)
  <2> SUFFICES ASSUME IsolateInv, ChosenInv, [Next]_vars
               PROVE  IsolateInv' /\ [Contract!Next]_(Contract!vars)
    OBVIOUS
  <2>1. CASE IsolateNext \/ K2Isolate
    BY <2>1, BlockStep
  <2>2. CASE MeasureNext \/ FitNext \/ DeployNext \/ (K2Next /\ ~ K2Isolate) \/ CutShort
    BY <2>2, OtherStep
  <2>3. CASE UNCHANGED vars
    BY <2>3 DEF vars, tableVars, dictVars, procVars, isolateVars, IsolateInv, DictType,
       OnTable, IsolatePcs, Present, Contract!vars, Open, Entering, Leaving
  <2> QED
    BY <2>1, <2>2, <2>3 DEF Next, Blocks, AllRun
<1> QED
  BY <1>1, <1>2, IsolateInvInit, ChosenAreGroups, PTL
     DEF Spec, ImplementsIsolation, Contract!Spec

-----------------------------------------------------------------------------
(* Every command, and what it leaves behind.  Position by position, what is  *)
(* known of the table, the readings and the arms; the intact commands know   *)
(* more, and with one lost drop at most the study and the deployment know    *)
(* enough.                                                                   *)

MeasurePcs == {"wClean", "mEnter", "mClean", "mBuild", "mRead", "mDrop"}
FitPcs == {"fClean", "fProbe", "fDrop"}
DeployPcs == {"dRestore", "dClean", "dCleanAgain", "dExplain", "dReport"}
StudyPcs == {"kFirst", "kClean", "kEnter", "kNext", "kFinal"}

\* The rows a gather of the level reads once the dictionary knows the table.
LevelRows(l) == LesserOf(SRows[l], TableRows)

\* A group gathered at its own parameter.
Own(l) == [size |-> Param, rows |-> LevelRows(l)]

\* A position belongs to one command.
JobInv ==
  /\ pc \in {"idle"} \cup MeasurePcs \cup FitPcs \cup DeployPcs \cup StudyPcs \cup IsolatePcs
  /\ pc = "idle" <=> job = NoJob
  /\ pc \in MeasurePcs => job \in {"measure", "worker"}
  /\ pc \in FitPcs => job = "fit"
  /\ pc \in DeployPcs => job = "deploy"
  /\ pc \in StudyPcs => job = "k2"
  /\ pc \in IsolatePcs => job \in {"caller", "k2"}

\* Positions at which nothing has been read yet at the level.
Unread == {"idle", "wClean", "mEnter", "mClean", "kFirst", "kEnter", "kClean",
           "dRestore", "dClean", "dCleanAgain", "dExplain"} \cup FitPcs

\* A command starts from no reading and no timed arm, at the first level.
QuietInv ==
  /\ pc \in Unread \/ (pc \in IsolatePcs /\ job = "caller")
       => base = NoReading /\ reads = << >>
  /\ pc = "dReport" => base = NoReading
  /\ pc = "idle" => level = LevelSeq[1]
  /\ pc \notin FitPcs => arms = Untimed

\* The dictionary does not forget the table, and a spoilt command lost a drop.
KnownInv ==
  /\ numRows \in {0, TableRows}
  /\ known /\ pc \notin {"idle", "wClean"} => numRows = TableRows
  /\ pc # "idle" /\ ~ intact => lost >= 1

\* Protocol-A: one group at a time on a table that was cleaned at the level.
MeasureInv ==
  /\ pc \in {"mClean", "mBuild", "mRead", "mDrop"} =>
       /\ numRows = TableRows
       /\ known => /\ single = LevelRows(level)
                   /\ base # NoReading => base.single = LevelRows(level)
       /\ \A K \in DOMAIN reads : reads[K].single = LevelRows(level)
  /\ pc \in {"mRead", "mDrop"} => single = LevelRows(level)
  /\ intact =>
       /\ pc = "mClean" => Present \subseteq todo
       /\ pc = "mBuild" => Present = {}
       /\ pc = "mRead" => Present = {cur} /\ group[cur] = Own(level)
       /\ pc = "mDrop" => Present \subseteq {cur}
       /\ pc \in {"mBuild", "mRead", "mDrop"} =>
            /\ base.groups = {}
            /\ \A K \in DOMAIN reads :
                 \E g \in K : reads[K].groups = { [name |-> g, as |-> Own(level)] }

\* The study: an intact one opens every block on an empty table; a single lost
\* drop leaves one group more or less on entry, and isolate then loses none.
StudyInv ==
  /\ intact => /\ pc = "kClean" => Present \subseteq todo
               /\ pc = "kNext" => Present = {}
               /\ job = "k2" /\ pc \in IsolatePcs => orig = {}
  /\ job = "k2" /\ lost <= 1 =>
       /\ pc = "isoDrop" => /\ todo \cap keepSet = {} /\ Present \ keepSet \subseteq todo
                            /\ Present \cap keepSet = orig \cap keepSet
       /\ pc = "isoAdd" => /\ todo \cup Present \subseteq keepSet
                           /\ keepSet \ todo \subseteq Present
       /\ pc = "isoBody" => Present = keepSet
       /\ \A K \in DOMAIN reads : Names(reads[K]) = K

\* The study's readings are over the rows of the level.
PairInv ==
  job = "k2" /\ known /\ intact /\ pc \in IsolatePcs \cup {"kClean", "kNext", "kFinal"} =>
    /\ single = LevelRows(level)
    /\ base # NoReading => base.single = LevelRows(level)
    /\ \A K \in DOMAIN reads : reads[K].single = LevelRows(level)

Marginal(arm) ==
  /\ arm.withk.maintains \ arm.bare.maintains = Probes
  /\ arm.withk.rows = arm.bare.rows

\* The fit: the levels before this one are timed, their arms differ by the probes.
FitInv ==
  /\ DOMAIN arms = Levels
  /\ pc = "fProbe" =>
       /\ numRows = TableRows
       /\ arms[level] = [bare |-> [maintains |-> Present, rows |-> LevelRows(level)],
                         withk |-> NoReading]
  /\ intact =>
       /\ pc = "fClean" => Present \cap Probes \subseteq todo
       /\ pc = "fProbe" => Present \cap Probes = {}
       /\ pc = "fDrop" => Marginal(arms[level])
       /\ pc \in FitPcs =>
            \A i, j \in DOMAIN LevelSeq :
              LevelSeq[i] = level /\ j < i => Marginal(arms[LevelSeq[j]])

\* The deployment cleans the table twice, so one lost drop does not reach it.
DeployInv ==
  /\ pc \in {"dClean", "dCleanAgain", "dExplain", "dReport"} => numRows = TableRows
  /\ pc = "dClean" /\ intact => Present \subseteq todo
  /\ pc = "dCleanAgain" /\ lost <= 1 => Present \subseteq todo /\ (intact => todo = {})
  /\ pc = "dExplain" /\ lost <= 1 =>
       /\ Present = chosen /\ single = LevelRows(level)
       /\ \A g \in chosen : group[g] = Own(level)
  /\ pc = "dReport" /\ lost <= 1 =>
       \A K \in DOMAIN reads :
         reads[K] = [single |-> LevelRows(level),
                     groups |-> { [name |-> g, as |-> Own(level)] : g \in chosen }]

CommandInv ==
  JobInv /\ QuietInv /\ KnownInv /\ MeasureInv /\ StudyInv /\ PairInv /\ FitInv /\ DeployInv

Base == IsolateInv /\ ChosenInv

-----------------------------------------------------------------------------
(* What the calls leave in the dictionary and the records. *)

\* Once the dictionary knows the table, _percent_for asks for the level's rows.
LEMMA DepthIsLevelRows == ASSUME numRows = TableRows, NEW l PROVE Depth(l) = LevelRows(l)
BY OracleAssumption DEF Depth, LevelRows

LEMMA LevelRowsType == ASSUME NEW l \in Levels PROVE LevelRows(l) \in Nat
BY OracleAssumption DEF LevelRows, LesserOf

\* A gather leaves the groups it names at their own parameter.
LEMMA GatherLeaves ==
  ASSUME DictType, NEW rows \in Nat, NEW S \in SUBSET Groups, Gather(rows, S)
  PROVE  /\ Present' = Present \cup S
         /\ \A g \in S : group'[g] = [size |-> Param, rows |-> rows]
         /\ single' = rows /\ numRows' = TableRows
<1>1. Present' = Present \cup S
  BY GatherOn
<1>2. \A g \in S : group'[g] = [size |-> Param, rows |-> rows]
  BY DEF Gather
<1>3. single' = rows /\ numRows' = TableRows
  BY DEF Gather
<1> QED
  BY <1>1, <1>2, <1>3

\* A drop touches no single-column statistics.
LEMMA DropLeaves ==
  ASSUME DictType, NEW g, DropGroup(g)
  PROVE  /\ UNCHANGED <<single, numRows>>
         /\ \/ Present' = Present \ {g} /\ UNCHANGED <<intact, lost>>
            \/ Present' = Present /\ g \in Present /\ lost' = lost + 1 /\ intact' = FALSE
<1>1. CASE group' = [group EXCEPT ![g] = Absent] /\ NoDrop
  <2>1. Present' = Present \ {g}
    BY <1>1 DEF DictType, Present
  <2> QED
    BY <1>1, <2>1 DEF DropGroup, NoDrop
<1>2. CASE g \in Present /\ lost' = lost + 1 /\ intact' = FALSE /\ UNCHANGED group
  BY <1>2 DEF DropGroup, Present
<1> QED
  BY <1>1, <1>2 DEF DropGroup

\* One more reading, and the others as they were.
LEMMA RecordedOn ==
  ASSUME NEW K
  PROVE  /\ DOMAIN Recorded(K) = DOMAIN reads \cup {K}
         /\ Recorded(K)[K] = Seen
         /\ \A L \in DOMAIN Recorded(K) : L # K => L \in DOMAIN reads /\ Recorded(K)[L] = reads[L]
BY DEF Recorded

-----------------------------------------------------------------------------
(* Positions, readings and the account of drops. *)

\* Every command keeps to its own positions.
LEMMA MeasureJob == ASSUME JobInv, MeasureNext
  PROVE  JobInv' /\ pc \in MeasurePcs \cup {"idle"} /\ pc' \in MeasurePcs \cup {"idle"}
<1> USE DEF JobInv, MeasurePcs, At, Goto, End, Forgotten, Start
<1>0. NoJob \notin Jobs
  BY OracleAssumption
<1>1. \/ Measure \/ Worker \/ WorkerRestores \/ MeasureEnter \/ MeasureClean
      \/ MeasureBaseline \/ BuildObject \/ ReadObject \/ DropObject
      \/ ObjectRaises \/ MeasureNextLevel \/ MeasureEnd
  BY Zenon DEF MeasureNext
<1> QED
  BY <1>0, <1>1 DEF Measure, Worker, WorkerRestores, MeasureEnter, MeasureClean,
     MeasureBaseline, BuildObject, ReadObject, DropObject, ObjectRaises, MeasureNextLevel,
     MeasureEnd, LevelMeasured, DropNext, FitPcs, DeployPcs, StudyPcs, IsolatePcs

LEMMA FitJob == ASSUME JobInv, FitNext
  PROVE  JobInv' /\ pc \in FitPcs \cup {"idle"} /\ pc' \in FitPcs \cup {"idle"}
<1> USE DEF JobInv, FitPcs, At, Goto, End, Forgotten, Start
<1>0. NoJob \notin Jobs
  BY OracleAssumption
<1> QED
  BY <1>0 DEF FitNext, Fit, FitLevel, FitDrop, TimeBare, TimeWithProbes, FitNextLevel,
     WriteMaint, DropNext, MeasurePcs, DeployPcs, StudyPcs, IsolatePcs

LEMMA DeployJob == ASSUME JobInv, DeployNext
  PROVE  JobInv' /\ pc \in DeployPcs \cup {"idle"} /\ pc' \in DeployPcs \cup {"idle"}
<1> USE DEF JobInv, DeployPcs, At, Goto, End, Forgotten, Start
<1>0. NoJob \notin Jobs
  BY OracleAssumption
<1> QED
  BY <1>0 DEF DeployNext, Deploy, DeployRestore, DeployDrop, DeployGather, DeployExplain,
     DeployReport, DropNext, MeasurePcs, FitPcs, StudyPcs, IsolatePcs

LEMMA BlockJob == ASSUME JobInv, IsolateNext \/ K2Next
  PROVE  JobInv' /\ pc \in StudyPcs \cup IsolatePcs \cup {"idle"} /\ pc' \in StudyPcs \cup IsolatePcs \cup {"idle"}
<1> USE DEF JobInv, StudyPcs, IsolatePcs, At, Goto, End, Forgotten, Start, Enter
<1>0. NoJob \notin Jobs
  BY OracleAssumption
<1>1. CASE IsolateNext
  BY <1>0, <1>1 DEF IsolateNext, Caller, DropUnkept, AllDropped, AddKept, Yield, Body,
     DropAdded, AllUndone, RestoreDropped, LeaveAndEnd, Leave, DropNext, MeasurePcs, FitPcs,
     DeployPcs
<1>2. CASE K2Next
  BY <1>0, <1>2 DEF K2Next, K2, K2Drop, K2Clean, K2Enter, K2Baseline, K2Isolate, K2Read,
     K2NextLevel, K2LastLevel, K2End, DropNext, MeasurePcs, FitPcs, DeployPcs
<1> QED
  BY <1>1, <1>2

\* What each command leaves behind for the next.
LEMMA MeasureQuiet == ASSUME JobInv, QuietInv, MeasureNext PROVE QuietInv'
<1> USE DEF At, Goto, End, Forgotten, Start, ReadForgotten, readVars
<1>0. NoJob \notin Jobs
  BY OracleAssumption
<1>1. \/ Measure \/ Worker \/ WorkerRestores \/ MeasureEnter \/ MeasureClean
      \/ MeasureBaseline \/ BuildObject \/ ReadObject \/ DropObject
      \/ ObjectRaises \/ MeasureNextLevel \/ MeasureEnd
  BY Zenon DEF MeasureNext
<1>2. UNCHANGED arms /\ pc' \notin FitPcs \cup {"dReport"}
  BY MeasureJob DEF MeasureNext, MeasurePcs, FitPcs
<1>3. pc \notin FitPcs
  BY MeasureJob DEF MeasurePcs, FitPcs
<1>4. pc' \in Unread => base' = NoReading /\ reads' = << >>
  BY <1>0, <1>1 DEF Measure, Worker, WorkerRestores, MeasureEnter, MeasureClean,
     MeasureBaseline, BuildObject, ReadObject, DropObject, ObjectRaises, MeasureNextLevel,
     MeasureEnd, DropNext, LevelMeasured, Unread, FitPcs, JobInv, QuietInv
<1>5. pc' = "idle" => level' = LevelSeq[1]
  BY <1>0, <1>1 DEF Measure, Worker, WorkerRestores, MeasureEnter, MeasureClean,
     MeasureBaseline, BuildObject, ReadObject, DropObject, ObjectRaises, MeasureNextLevel,
     MeasureEnd, DropNext, LevelMeasured, JobInv, QuietInv
<1>6. pc' \notin IsolatePcs
  BY MeasureJob DEF MeasurePcs, IsolatePcs
<1> QED
  BY <1>2, <1>3, <1>4, <1>5, <1>6 DEF QuietInv

LEMMA FitQuiet == ASSUME JobInv, QuietInv, FitNext PROVE QuietInv'
<1> USE DEF At, Goto, End, Forgotten, Start, FitPcs
<1>0. NoJob \notin Jobs
  BY OracleAssumption
<1>1. UNCHANGED <<base, reads>> /\ pc' \notin IsolatePcs \cup {"dReport"}
  BY FitJob DEF FitNext, readVars, IsolatePcs
<1>2. pc \in Unread
  BY FitJob DEF Unread
<1>3. pc' = "idle" => level' = LevelSeq[1] /\ arms' = Untimed
  BY <1>0 DEF FitNext, Fit, FitLevel, FitDrop, TimeBare, TimeWithProbes, FitNextLevel,
     WriteMaint, DropNext, JobInv
<1>4. pc' \in FitPcs \/ pc' = "idle"
  BY FitJob
<1> QED
  BY <1>1, <1>2, <1>3, <1>4 DEF QuietInv

LEMMA DeployQuiet == ASSUME JobInv, QuietInv, DeployNext PROVE QuietInv'
<1> USE DEF At, Goto, End, Forgotten, Start, ReadForgotten, readVars, DeployPcs
<1>0. NoJob \notin Jobs
  BY OracleAssumption
<1>1. UNCHANGED arms /\ pc' \notin FitPcs \cup IsolatePcs /\ pc \notin FitPcs
  BY DeployJob DEF DeployNext, FitPcs, IsolatePcs
<1>2. /\ pc' \in Unread => base' = NoReading /\ reads' = << >>
      /\ pc' = "dReport" => base' = NoReading
      /\ pc' = "idle" => level' = LevelSeq[1]
  BY <1>0 DEF DeployNext, Deploy, DeployRestore, DeployDrop, DeployGather, DeployExplain,
     DeployReport, DropNext, Unread, FitPcs, JobInv, QuietInv
<1> QED
  BY <1>1, <1>2 DEF QuietInv

LEMMA BlockQuiet == ASSUME JobInv, QuietInv, Blocks PROVE QuietInv'
<1> USE DEF At, Goto, End, Forgotten, Start, ReadForgotten, readVars, Enter, IsolatePcs,
        StudyPcs
<1>0. NoJob \notin Jobs
  BY OracleAssumption
<1>1. UNCHANGED arms /\ pc' \notin FitPcs \cup {"dReport"} /\ pc \notin FitPcs
  BY BlockJob DEF Blocks, commandVars, FitPcs
<1>2. /\ pc' \in Unread \/ (pc' \in IsolatePcs /\ job' = "caller") => base' = NoReading /\ reads' = << >>
      /\ pc' = "idle" => level' = LevelSeq[1]
  <2>1. CASE IsolateNext
    BY <1>0, <2>1 DEF IsolateNext, Caller, DropUnkept, AllDropped, AddKept, Yield, Body,
       DropAdded, AllUndone, RestoreDropped, LeaveAndEnd, Leave, DropNext, Unread, FitPcs,
       JobInv, QuietInv
  <2>2. CASE K2Next
    BY <1>0, <2>2 DEF K2Next, K2, K2Drop, K2Clean, K2Enter, K2Baseline, K2Isolate, K2Read,
       K2NextLevel, K2LastLevel, K2End, DropNext, Unread, FitPcs, JobInv, QuietInv
  <2> QED
    BY <2>1, <2>2 DEF Blocks
<1> QED
  BY <1>1, <1>2 DEF QuietInv

\* A command cut short leaves the dictionary and forgets everything else.
LEMMA CutShortLeaves == ASSUME CutShort
  PROVE  /\ pc' = "idle" /\ job' = NoJob /\ intact' = TRUE /\ level' = LevelSeq[1]
         /\ base' = NoReading /\ reads' = << >> /\ arms' = Untimed
         /\ UNCHANGED <<dictVars, lost, maint>>
BY DEF CutShort, Interrupted, Forgotten, ReadForgotten, CommandForgotten

\* Only a gather writes the count of rows, only a drop can be lost.
LEMMA CountOfRows ==
  /\ \A rows, S : Gather(rows, S) => numRows' = TableRows
  /\ \A g : DropGroup(g) => /\ numRows' = numRows
                           /\ \/ UNCHANGED <<intact, lost>>
                              \/ lost' = lost + 1 /\ intact' = FALSE
BY Zenon DEF Gather, DropGroup, NoDrop

\* The count of rows and the account of the drops, command by command.
LEMMA MeasureKnown == ASSUME lost \in Nat, intact \in BOOLEAN, JobInv, KnownInv,
  MeasureNext PROVE KnownInv'
<1> USE DEF KnownInv, At, Goto, End, Forgotten, Start, dictVars, NoDrop, Restore,
        EnterSamplingState, Enter
<1>a. NoJob \notin Jobs
  BY OracleAssumption
<1>b. pc = "idle" <=> job = NoJob
  BY DEF JobInv
<1>1. CASE Measure
  BY CountOfRows, <1>a, <1>b, <1>1 DEF Measure
<1>2. CASE Worker
  BY CountOfRows, <1>a, <1>b, <1>2 DEF Worker
<1>3. CASE WorkerRestores
  BY CountOfRows, <1>a, <1>b, <1>3 DEF WorkerRestores
<1>4. CASE MeasureEnter
  BY CountOfRows, <1>a, <1>b, <1>4 DEF MeasureEnter
<1>5. CASE MeasureClean
  BY CountOfRows, <1>a, <1>b, <1>5 DEF MeasureClean, DropNext
<1>6. CASE MeasureBaseline
  BY CountOfRows, <1>a, <1>b, <1>6 DEF MeasureBaseline
<1>7. CASE BuildObject
  BY CountOfRows, <1>a, <1>b, <1>7 DEF BuildObject
<1>8. CASE ReadObject
  BY CountOfRows, <1>a, <1>b, <1>8 DEF ReadObject
<1>9. CASE DropObject
  BY CountOfRows, <1>a, <1>b, <1>9 DEF DropObject
<1>10. CASE ObjectRaises
  BY CountOfRows, <1>a, <1>b, <1>10 DEF ObjectRaises
<1>11. CASE MeasureNextLevel
  BY CountOfRows, <1>a, <1>b, <1>11 DEF MeasureNextLevel, LevelMeasured
<1>12. CASE MeasureEnd
  BY CountOfRows, <1>a, <1>b, <1>12 DEF MeasureEnd, LevelMeasured
<1> HIDE DEF KnownInv, At, Goto, End, Forgotten, Start, dictVars, NoDrop, Restore,
        EnterSamplingState, Enter
<1>13. \/ Measure \/ Worker \/ WorkerRestores \/ MeasureEnter \/ MeasureClean
       \/ MeasureBaseline \/ BuildObject \/ ReadObject \/ DropObject \/ ObjectRaises
       \/ MeasureNextLevel \/ MeasureEnd
  BY Zenon DEF MeasureNext
<1> QED
  BY <1>1, <1>2, <1>3, <1>4, <1>5, <1>6, <1>7, <1>8, <1>9, <1>10, <1>11, <1>12, <1>13

LEMMA FitKnown == ASSUME lost \in Nat, intact \in BOOLEAN, JobInv, KnownInv, FitNext
  PROVE KnownInv'
<1> USE DEF KnownInv, At, Goto, End, Forgotten, Start, dictVars, NoDrop, Restore,
        EnterSamplingState, Enter
<1>a. NoJob \notin Jobs
  BY OracleAssumption
<1>b. pc = "idle" <=> job = NoJob
  BY DEF JobInv
<1>1. CASE Fit
  BY CountOfRows, <1>a, <1>b, <1>1 DEF Fit, FitLevel
<1>2. CASE FitDrop
  BY CountOfRows, <1>a, <1>b, <1>2 DEF FitDrop, DropNext
<1>3. CASE TimeBare
  BY CountOfRows, <1>a, <1>b, <1>3 DEF TimeBare
<1>4. CASE TimeWithProbes
  BY CountOfRows, <1>a, <1>b, <1>4 DEF TimeWithProbes
<1>5. CASE FitNextLevel
  BY CountOfRows, <1>a, <1>b, <1>5 DEF FitNextLevel, FitLevel
<1>6. CASE WriteMaint
  BY CountOfRows, <1>a, <1>b, <1>6 DEF WriteMaint
<1> HIDE DEF KnownInv, At, Goto, End, Forgotten, Start, dictVars, NoDrop, Restore,
        EnterSamplingState, Enter
<1>7. Fit \/ FitDrop \/ TimeBare \/ TimeWithProbes \/ FitNextLevel \/ WriteMaint
  BY Zenon DEF FitNext
<1> QED
  BY <1>1, <1>2, <1>3, <1>4, <1>5, <1>6, <1>7

LEMMA DeployKnown == ASSUME lost \in Nat, intact \in BOOLEAN, JobInv, KnownInv,
  DeployNext PROVE KnownInv'
<1> USE DEF KnownInv, At, Goto, End, Forgotten, Start, dictVars, NoDrop, Restore,
        EnterSamplingState, Enter
<1>a. NoJob \notin Jobs
  BY OracleAssumption
<1>b. pc = "idle" <=> job = NoJob
  BY DEF JobInv
<1>1. CASE Deploy
  BY CountOfRows, <1>a, <1>b, <1>1 DEF Deploy
<1>2. CASE DeployRestore
  BY CountOfRows, <1>a, <1>b, <1>2 DEF DeployRestore
<1>3. CASE DeployDrop
  BY CountOfRows, <1>a, <1>b, <1>3 DEF DeployDrop, DropNext
<1>4. CASE DeployGather
  BY CountOfRows, <1>a, <1>b, <1>4 DEF DeployGather
<1>5. CASE DeployExplain
  BY CountOfRows, <1>a, <1>b, <1>5 DEF DeployExplain
<1>6. CASE DeployReport
  BY CountOfRows, <1>a, <1>b, <1>6 DEF DeployReport
<1> HIDE DEF KnownInv, At, Goto, End, Forgotten, Start, dictVars, NoDrop, Restore,
        EnterSamplingState, Enter
<1>7. Deploy \/ DeployRestore \/ DeployDrop \/ DeployGather \/ DeployExplain \/ DeployReport
  BY Zenon DEF DeployNext
<1> QED
  BY <1>1, <1>2, <1>3, <1>4, <1>5, <1>6, <1>7

LEMMA IsolateKnown == ASSUME lost \in Nat, intact \in BOOLEAN, JobInv, KnownInv,
  IsolateNext PROVE KnownInv'
<1> USE DEF KnownInv, At, Goto, End, Forgotten, Start, dictVars, NoDrop, Restore,
        EnterSamplingState, Enter
<1>a. NoJob \notin Jobs
  BY OracleAssumption
<1>b. pc = "idle" <=> job = NoJob
  BY DEF JobInv
<1>1. CASE Caller
  BY CountOfRows, <1>a, <1>b, <1>1 DEF Caller
<1>2. CASE DropUnkept
  BY CountOfRows, <1>a, <1>b, <1>2 DEF DropUnkept, DropNext
<1>3. CASE AllDropped
  BY CountOfRows, <1>a, <1>b, <1>3 DEF AllDropped
<1>4. CASE AddKept
  BY CountOfRows, <1>a, <1>b, <1>4 DEF AddKept
<1>5. CASE Yield
  BY CountOfRows, <1>a, <1>b, <1>5 DEF Yield
<1>6. CASE Body
  BY CountOfRows, <1>a, <1>b, <1>6 DEF Body
<1>7. CASE DropAdded
  BY CountOfRows, <1>a, <1>b, <1>7 DEF DropAdded, DropNext
<1>8. CASE AllUndone
  BY CountOfRows, <1>a, <1>b, <1>8 DEF AllUndone
<1>9. CASE RestoreDropped
  BY CountOfRows, <1>a, <1>b, <1>9 DEF RestoreDropped
<1>10. CASE LeaveAndEnd
  BY CountOfRows, <1>a, <1>b, <1>10 DEF LeaveAndEnd
<1>11. CASE Leave
  BY CountOfRows, <1>a, <1>b, <1>11 DEF Leave
<1> HIDE DEF KnownInv, At, Goto, End, Forgotten, Start, dictVars, NoDrop, Restore,
        EnterSamplingState, Enter
<1>12. \/ Caller \/ DropUnkept \/ AllDropped \/ AddKept \/ Yield \/ Body \/ DropAdded
       \/ AllUndone \/ RestoreDropped \/ LeaveAndEnd \/ Leave
  BY Zenon DEF IsolateNext
<1> QED
  BY <1>1, <1>2, <1>3, <1>4, <1>5, <1>6, <1>7, <1>8, <1>9, <1>10, <1>11, <1>12

LEMMA StudyKnown == ASSUME lost \in Nat, intact \in BOOLEAN, JobInv, KnownInv, K2Next
  PROVE KnownInv'
<1> USE DEF KnownInv, At, Goto, End, Forgotten, Start, dictVars, NoDrop, Restore,
        EnterSamplingState, Enter
<1>a. NoJob \notin Jobs
  BY OracleAssumption
<1>b. pc = "idle" <=> job = NoJob
  BY DEF JobInv
<1>1. CASE K2
  BY CountOfRows, <1>a, <1>b, <1>1 DEF K2
<1>2. CASE K2Drop
  BY CountOfRows, <1>a, <1>b, <1>2 DEF K2Drop, DropNext
<1>3. CASE K2Clean
  BY CountOfRows, <1>a, <1>b, <1>3 DEF K2Clean
<1>4. CASE K2Enter
  BY CountOfRows, <1>a, <1>b, <1>4 DEF K2Enter
<1>5. CASE K2Baseline
  BY CountOfRows, <1>a, <1>b, <1>5 DEF K2Baseline
<1>6. CASE K2Isolate
  BY CountOfRows, <1>a, <1>b, <1>6 DEF K2Isolate
<1>7. CASE K2NextLevel
  BY CountOfRows, <1>a, <1>b, <1>7 DEF K2NextLevel, K2Read
<1>8. CASE K2LastLevel
  BY CountOfRows, <1>a, <1>b, <1>8 DEF K2LastLevel, K2Read
<1>9. CASE K2End
  BY CountOfRows, <1>a, <1>b, <1>9 DEF K2End
<1> HIDE DEF KnownInv, At, Goto, End, Forgotten, Start, dictVars, NoDrop, Restore,
        EnterSamplingState, Enter
<1>10. \/ K2 \/ K2Drop \/ K2Clean \/ K2Enter \/ K2Baseline \/ K2Isolate \/ K2NextLevel
       \/ K2LastLevel \/ K2End
  BY Zenon DEF K2Next
<1> QED
  BY <1>1, <1>2, <1>3, <1>4, <1>5, <1>6, <1>7, <1>8, <1>9, <1>10

\* What a reading shows.
LEMMA SeenIs ==
  /\ Seen.single = single
  /\ Seen.groups = { [name |-> g, as |-> group[g]] : g \in Present }
  /\ Names(Seen) = Present
<1>1. /\ Seen.single = single
      /\ Seen.groups = { [name |-> g, as |-> group[g]] : g \in Present }
  BY DEF Seen
<1>2. Names(Seen) = { e.name : e \in { [name |-> g, as |-> group[g]] : g \in Present } }
  BY <1>1 DEF Names
<1>3. \A n : n \in { e.name : e \in { [name |-> g, as |-> group[g]] : g \in Present } } <=> n \in Present
  <2> DEFINE Entry(g) == [name |-> g, as |-> group[g]]
             E == { Entry(g) : g \in Present }
  <2>1. \A g : Entry(g).name = g
    OBVIOUS
  <2> HIDE DEF Entry
  <2>2. \A n : n \in { e.name : e \in E } <=> n \in Present
    BY <2>1, Zenon
  <2> QED
    BY <2>2 DEF Entry
<1>4. Names(Seen) = Present
  BY <1>2, <1>3, Zenon
<1> QED
  BY <1>1, <1>4

-----------------------------------------------------------------------------
(* Protocol-A, the study, the deployment and the fit. *)

\* Protocol-A.
LEMMA MeasureSafe ==
  ASSUME IsolateInv, JobInv, QuietInv, KnownInv, MeasureInv, MeasureNext
  PROVE  MeasureInv'
<1> USE DEF At, Goto, End, Forgotten, Start, dictVars, NoDrop, Restore, EnterSamplingState,
        readVars
<1>a. NoJob \notin Jobs /\ TableRows \in Nat \ {0}
  BY OracleAssumption
<1>b. DictType /\ DictType' /\ Depth(level) \in Nat
  BY MeasureOutside, DepthType DEF IsolateInv, DictType, Outside
<1>c. numRows = TableRows => Depth(level) = LevelRows(level)
  BY DepthIsLevelRows
<1>d. Present \subseteq Groups /\ Candidates \subseteq Groups
  BY PresentGroups, OracleCommandsAssumption
<1>1. CASE Measure \/ Worker \/ WorkerRestores \/ MeasureNextLevel \/ MeasureEnd \/ ObjectRaises
  BY <1>1 DEF Measure, Worker, WorkerRestores, MeasureNextLevel, MeasureEnd, ObjectRaises,
     MeasureInv
<1>2. CASE MeasureEnter
  <2>1. Gather(Depth(level), {})
    BY <1>2 DEF MeasureEnter
  <2>2. single' = Depth(level) /\ numRows' = TableRows /\ Present' = Present
    <3>1. {} \in SUBSET Groups /\ Present \cup {} = Present
      OBVIOUS
    <3> QED
      BY <1>b, <2>1, <3>1, GatherLeaves
  <2>3. known' => single' = LevelRows(level)'
    BY <1>2, <1>c, <2>2 DEF MeasureEnter, KnownInv, LevelRows
  <2>4. base' = NoReading /\ reads' = << >>
    BY <1>2 DEF MeasureEnter, QuietInv, Unread
  <2>5. pc' = "mClean" /\ todo' = Present
    BY <1>2 DEF MeasureEnter
  <2> QED
    BY <2>2, <2>3, <2>4, <2>5 DEF MeasureInv
<1>3. CASE MeasureClean
  <2>1. PICK g \in todo : DropGroup(g) /\ todo' = todo \ {g}
    BY <1>3 DEF MeasureClean, DropNext
  <2>2. /\ pc = "mClean" /\ pc' = "mClean" /\ UNCHANGED <<level, known, base, reads>>
    BY <1>3 DEF MeasureClean, DropNext
  <2>3. LevelRows(level)' = LevelRows(level)
    BY <2>2 DEF LevelRows
  <2>4. UNCHANGED <<single, numRows>>
    BY <1>b, <2>1, DropLeaves
  <2>5. intact' => intact /\ Present' = Present \ {g}
    BY <1>b, <2>1, DropLeaves
  <2> QED
    BY <2>1, <2>2, <2>3, <2>4, <2>5 DEF MeasureInv
<1>4. CASE MeasureBaseline
  <2>1. /\ pc = "mClean" /\ pc' = "mBuild" /\ UNCHANGED <<level, known, reads, group, single, numRows, intact>>
        /\ base' = Seen /\ todo = {}
    BY <1>4 DEF MeasureBaseline
  <2>2. LevelRows(level)' = LevelRows(level) /\ Present' = Present
    BY <2>1 DEF LevelRows, Present
  <2>3. base'.single = single /\ (Present = {} => base'.groups = {})
    BY <2>1, SeenIs
  <2>4. reads = << >>
    BY <2>1 DEF QuietInv, Unread
  <2> QED
    BY <2>1, <2>2, <2>3, <2>4 DEF MeasureInv
<1>5. CASE BuildObject
  <2>1. PICK g \in todo : Gather(Depth(level), {g}) /\ cur' = g
    BY <1>5 DEF BuildObject
  <2>2. /\ pc = "mBuild" /\ pc' = "mRead" /\ UNCHANGED <<level, known, reads, base, intact>>
    BY <1>5 DEF BuildObject
  <2>3. LevelRows(level)' = LevelRows(level) /\ g \in Groups /\ Own(level)' = Own(level)
    BY <2>2, <1>b DEF LevelRows, DictType, Own
  <2>4. /\ Present' = Present \cup {g} /\ group'[g] = [size |-> Param, rows |-> Depth(level)]
        /\ single' = Depth(level) /\ numRows' = TableRows
    BY <1>b, <2>1, <2>3, GatherLeaves
  <2>5. Depth(level) = LevelRows(level)
    BY <1>c, <2>2 DEF MeasureInv
  <2>6. group'[g] = Own(level)
    BY <2>4, <2>5 DEF Own
  <2>7. Own(level) = [size |-> Param, rows |-> LevelRows(level)]
    BY DEF Own
  <2> HIDE DEF Own
  <2> QED
    BY <2>1, <2>2, <2>3, <2>4, <2>5, <2>6 DEF MeasureInv
<1>6. CASE ReadObject
  <2>1. /\ pc = "mRead" /\ pc' = "mDrop" /\ UNCHANGED <<level, known, base, intact, cur, group, single, numRows>>
        /\ reads' = Recorded({cur})
    BY <1>6 DEF ReadObject
  <2>2. LevelRows(level)' = LevelRows(level) /\ Present' = Present /\ Own(level)' = Own(level)
    BY <2>1 DEF LevelRows, Present, Own
  <2>3. \A K \in DOMAIN reads' : K # {cur} => K \in DOMAIN reads /\ reads'[K] = reads[K]
    BY <2>1, RecordedOn
  <2>4. reads'[{cur}] = Seen
    BY <2>1, RecordedOn
  <2>5. intact => Seen.groups = { [name |-> cur, as |-> Own(level)] }
    <3> SUFFICES ASSUME intact PROVE Seen.groups = { [name |-> cur, as |-> Own(level)] }
      OBVIOUS
    <3>1. Present = {cur} /\ group[cur] = Own(level)
      BY <2>1 DEF MeasureInv
    <3>2. Seen.groups = { [name |-> g, as |-> group[g]] : g \in Present }
      BY SeenIs
    <3> QED
      BY <3>1, <3>2, Zenon
  <2>6. Seen.single = LevelRows(level)
    BY <2>1, SeenIs DEF MeasureInv
  <2>7. numRows' = TableRows /\ single' = LevelRows(level)
    BY <2>1 DEF MeasureInv
  <2>8. known' => (base' # NoReading => base'.single = LevelRows(level))
    BY <2>1 DEF MeasureInv
  <2>9. \A K \in DOMAIN reads' : reads'[K].single = LevelRows(level)
    BY <2>1, <2>3, <2>4, <2>6 DEF MeasureInv
  <2>10. intact => base'.groups = {} /\ Present' = {cur'}
    BY <2>1, <2>2 DEF MeasureInv
  <2>11. intact => \A K \in DOMAIN reads' : \E g \in K : reads'[K].groups = { [name |-> g, as |-> Own(level)] }
    <3> SUFFICES ASSUME intact, NEW K \in DOMAIN reads'
                 PROVE  \E g \in K : reads'[K].groups = { [name |-> g, as |-> Own(level)] }
      OBVIOUS
    <3>1. CASE K = {cur}
      BY <3>1, <2>4, <2>5, Zenon
    <3>2. CASE K # {cur}
      <4>1. \A L \in DOMAIN reads : \E g \in L : reads[L].groups = { [name |-> g, as |-> Own(level)] }
        BY <2>1 DEF MeasureInv
      <4> QED
        BY <3>2, <2>3, <4>1
    <3> QED
      BY <3>1, <3>2
  <2>12. pc' = "mDrop" /\ intact' = intact /\ known' = known /\ level' = level
    BY <2>1
  <2> QED
    BY <2>2, <2>7, <2>8, <2>9, <2>10, <2>11, <2>12 DEF MeasureInv
<1>7. CASE DropObject
  <2>1. /\ pc = "mDrop" /\ pc' = "mBuild" /\ UNCHANGED <<level, known, base, reads, cur>> /\ DropGroup(cur)
    BY <1>7 DEF DropObject
  <2>2. LevelRows(level)' = LevelRows(level) /\ Own(level)' = Own(level)
    BY <2>1 DEF LevelRows, Own
  <2>3. UNCHANGED <<single, numRows>>
    BY <1>b, <2>1, DropLeaves
  <2>4. intact' => intact /\ Present' = Present \ {cur}
    BY <1>b, <2>1, DropLeaves
  <2> QED
    BY <2>1, <2>2, <2>3, <2>4 DEF MeasureInv
<1> HIDE DEF At, Goto, End, Forgotten, Start, dictVars, NoDrop, Restore, EnterSamplingState,
        readVars
<1>8. \/ Measure \/ Worker \/ WorkerRestores \/ MeasureEnter \/ MeasureClean
      \/ MeasureBaseline \/ BuildObject \/ ReadObject \/ DropObject
      \/ ObjectRaises \/ MeasureNextLevel \/ MeasureEnd
  BY Zenon DEF MeasureNext
<1> QED
  BY <1>1, <1>2, <1>3, <1>4, <1>5, <1>6, <1>7, <1>8

\* Outside of the study nothing is claimed of it.
LEMMA StudyElsewhere ==
  ASSUME JobInv', QuietInv', pc' \notin StudyPcs \cup IsolatePcs
  PROVE  StudyInv' /\ PairInv'
<1>1. job' = "k2" => reads' = << >>
  BY DEF JobInv, QuietInv, Unread, MeasurePcs, FitPcs, DeployPcs
<1> QED
  BY <1>1 DEF StudyInv, PairInv, StudyPcs, IsolatePcs

\* The study between its blocks.
LEMMA StudySafe ==
  ASSUME IsolateInv, IsolateInv', JobInv, QuietInv, QuietInv', KnownInv, StudyInv, K2Next
  PROVE  StudyInv'
<1> USE DEF At, Goto, End, Forgotten, Start, dictVars, NoDrop, Restore, EnterSamplingState,
        readVars, isolateVars, StudyInv, IsolatePcs, StudyPcs
<1>a. NoJob \notin Jobs /\ TableRows \in Nat \ {0}
  BY OracleAssumption
<1>b. DictType /\ Depth(level) \in Nat /\ lost \in Nat
  BY DepthType DEF IsolateInv, DictType
<1>c. Present \subseteq Groups
  BY PresentGroups
<1>d. pc' \in Unread => reads' = << >>
  BY DEF QuietInv
<1>1. CASE K2 \/ K2End
  BY <1>1, <1>a, <1>d DEF K2, K2End, ReadForgotten, Unread
<1>2. CASE K2Drop
  <2>1. PICK g \in todo : DropGroup(g) /\ todo' = todo \ {g}
    BY <1>2 DEF K2Drop, DropNext
  <2>2. pc' = pc /\ pc \in {"kFirst", "kClean", "kFinal"} /\ UNCHANGED <<job, reads, orig>>
    BY <1>2 DEF K2Drop, DropNext
  <2>3. intact' => intact /\ Present' = Present \ {g}
    BY <1>b, <2>1, DropLeaves
  <2>4. lost' = lost \/ lost' = lost + 1
    BY <1>b, <2>1, DropLeaves
  <2>5. \A K : Names(reads[K])' = Names(reads[K])
    BY <2>2 DEF Names
  <2> QED
    BY <1>b, <2>1, <2>2, <2>3, <2>4, <2>5
<1>3. CASE K2Clean \/ K2Enter
  <2>1. pc' \in {"kEnter", "kClean"} /\ reads' = << >>
    BY <1>3, <1>d DEF K2Clean, K2Enter, Unread
  <2>2. pc' = "kClean" => Present' \subseteq todo'
    <3> SUFFICES ASSUME K2Enter PROVE Present' \subseteq todo'
      BY <1>3 DEF K2Clean
    <3>1. Gather(Depth(level), {}) /\ todo' = Present
      BY DEF K2Enter
    <3>2. {} \in SUBSET Groups /\ Present \cup {} = Present
      OBVIOUS
    <3> QED
      BY <1>b, <3>1, <3>2, GatherLeaves
  <2> QED
    BY <2>1, <2>2
<1>4. CASE K2Baseline
  <2>1. pc = "kClean" /\ pc' = "kNext" /\ todo = {} /\ reads' = reads /\ UNCHANGED <<intact, group>>
    BY <1>4 DEF K2Baseline
  <2>2. reads = << >> /\ Present' = Present
    BY <2>1 DEF QuietInv, Unread, Present
  <2> QED
    BY <2>1, <2>2
<1>5. CASE K2Isolate
  <2>1. /\ pc = "kNext" /\ pc' = "isoDrop" /\ UNCHANGED <<job, reads, intact, lost, group>>
        /\ todo' = Present \ keepSet' /\ orig' = Present
    BY <1>5 DEF K2Isolate, Enter
  <2>2. Present' = Present /\ \A K : Names(reads[K])' = Names(reads[K])
    BY <2>1 DEF Present, Names
  <2> QED
    BY <2>1, <2>2
<1>6. CASE K2NextLevel
  BY <1>6 DEF K2NextLevel, ReadForgotten
<1>7. CASE K2LastLevel
  <2>1. pc' = "kFinal" /\ pc = "kNext" /\ UNCHANGED <<job, reads, lost>>
    BY <1>7 DEF K2LastLevel, K2Read
  <2>2. \A K : Names(reads[K])' = Names(reads[K])
    BY <2>1 DEF Names
  <2> QED
    BY <2>1, <2>2
<1> HIDE DEF At, Goto, End, Forgotten, Start, dictVars, NoDrop, Restore, EnterSamplingState,
        readVars, isolateVars, StudyInv, IsolatePcs, StudyPcs
<1> QED
  BY <1>1, <1>2, <1>3, <1>4, <1>5, <1>6, <1>7 DEF K2Next

\* The study inside of a block.
LEMMA StudyBlockSafe ==
  ASSUME IsolateInv, IsolateInv', JobInv, QuietInv, QuietInv', KnownInv, StudyInv, IsolateNext
  PROVE  StudyInv'
<1> USE DEF At, Goto, End, Forgotten, Start, dictVars, NoDrop, Restore, EnterSamplingState,
        readVars, isolateVars, StudyInv, IsolatePcs
<1>a. NoJob \notin Jobs /\ TableRows \in Nat \ {0}
  BY OracleAssumption
<1>b. DictType /\ Depth(level) \in Nat /\ lost \in Nat
  BY DepthType DEF IsolateInv, DictType
<1>c. Present \subseteq Groups /\ (pc = "isoBody" => keepSet \subseteq Groups)
  BY PresentGroups, KeepsAreSets DEF IsolateInv
<1>d. pc' = "idle" => reads' = << >>
  BY DEF QuietInv, Unread
<1>e. \A f, K : Names(f[K])' = Names(f[K])
  BY DEF Names
<1>1. CASE Caller
  BY <1>1, <1>a DEF Caller, Enter
<1>2. CASE LeaveAndEnd
  BY <1>2, <1>a, <1>d DEF LeaveAndEnd, Enter
<1>3. CASE DropUnkept
  <2>1. PICK g \in todo : DropGroup(g) /\ todo' = todo \ {g}
    BY <1>3 DEF DropUnkept, DropNext
  <2>2. pc = "isoDrop" /\ pc' = pc /\ UNCHANGED <<job, reads, orig, keepSet>>
    BY <1>3 DEF DropUnkept, DropNext
  <2>3. \/ Present' = Present \ {g} /\ UNCHANGED <<intact, lost>>
        \/ Present' = Present /\ g \in Present /\ lost' = lost + 1 /\ intact' = FALSE
    BY <1>b, <2>1, DropLeaves
  <2>4. job = "k2" /\ intact => todo = {}
    BY <2>2 DEF IsolateInv, OnTable
  <2>5. ~ intact => lost >= 1
    BY <2>2 DEF KnownInv
  <2>6. job = "k2" /\ lost' <= 1 => Present' = Present \ {g} /\ UNCHANGED <<intact, lost>>
    BY <1>b, <2>1, <2>3, <2>4, <2>5
  <2>7. job = "k2" /\ intact' => orig' = {}
    BY <2>2, <2>3
  <2>8. intact \in BOOLEAN
    BY DEF IsolateInv
  <2>9. UNCHANGED <<job, keepSet, orig, reads>> /\ pc' = "isoDrop" /\ pc = "isoDrop"
    BY <2>2
  <2> QED
    BY <1>b, <1>e, <2>1, <2>3, <2>5, <2>6, <2>7, <2>8, <2>9
<1>4. CASE AllDropped
  <2>1. /\ pc = "isoDrop" /\ pc' = "isoAdd" /\ todo = {} /\ todo' = keepSet \ orig
        /\ UNCHANGED <<job, group, keepSet, orig, reads, intact, lost>>
    BY <1>4 DEF AllDropped
  <2>2. Present' = Present
    BY <2>1 DEF Present
  <2> QED
    BY <1>e, <2>1, <2>2
<1>5. CASE AddKept
  <2>1. PICK g \in todo : Gather(Depth(level), {g}) /\ todo' = todo \ {g}
    BY <1>5 DEF AddKept
  <2>2. pc = "isoAdd" /\ pc' = "isoAdd" /\ UNCHANGED <<job, keepSet, orig, reads, intact, lost>>
    BY <1>5 DEF AddKept
  <2>3. {g} \in SUBSET Groups
    BY <1>b DEF DictType
  <2>4. Present' = Present \cup {g}
    BY <1>b, <2>1, <2>3, GatherLeaves
  <2> QED
    BY <1>e, <2>1, <2>2, <2>4
<1>6. CASE Yield
  <2>1. /\ pc = "isoAdd" /\ pc' = "isoBody" /\ todo = {}
        /\ UNCHANGED <<job, group, keepSet, orig, reads, intact, lost>>
    BY <1>6 DEF Yield
  <2>2. Present' = Present
    BY <2>1 DEF Present
  <2> QED
    BY <1>e, <2>1, <2>2
<1>7. CASE Body
  <2>1. /\ pc = "isoBody" /\ pc' = "isoUndo"
        /\ UNCHANGED <<job, orig, intact, lost>>
        /\ job = "k2" => reads' = reads \/ reads' = Recorded(keepSet)
    BY <1>7 DEF Body
  <2>2. job = "k2" /\ lost <= 1 => Names(Seen) = keepSet
    BY <2>1, SeenIs
  <2>3. \A K \in DOMAIN Recorded(keepSet) : K # keepSet => K \in DOMAIN reads /\ Recorded(keepSet)[K] = reads[K]
    BY RecordedOn
  <2>4. Recorded(keepSet)[keepSet] = Seen
    BY RecordedOn
  <2>5. job = "k2" /\ lost <= 1 => \A K \in DOMAIN reads' : Names(reads'[K]) = K
    BY <2>1, <2>2, <2>3, <2>4
  <2>6. \A K : Names(reads[K])' = Names(reads'[K])
    BY DEF Names
  <2> QED
    BY <2>1, <2>5, <2>6
<1>8. CASE DropAdded
  <2>1. PICK g \in todo : DropGroup(g) /\ todo' = todo \ {g}
    BY <1>8 DEF DropAdded, DropNext
  <2>2. pc = "isoUndo" /\ pc' = pc /\ UNCHANGED <<job, reads, orig, keepSet>>
    BY <1>8 DEF DropAdded, DropNext
  <2>3. \/ UNCHANGED <<intact, lost>>
        \/ lost' = lost + 1 /\ intact' = FALSE
    BY <1>b, <2>1, DropLeaves
  <2> QED
    BY <1>b, <1>e, <2>2, <2>3
<1>9. CASE AllUndone
  BY <1>9, <1>e DEF AllUndone
<1>10. CASE RestoreDropped
  BY <1>10, <1>e DEF RestoreDropped
<1>11. CASE Leave
  <2>1. /\ pc = "isoRestore" /\ pc' = "kNext" /\ job = "k2" /\ todo = {}
        /\ UNCHANGED <<job, group, reads, intact, lost>>
    BY <1>11 DEF Leave
  <2>2. Present' = Present
    BY <2>1 DEF Present
  <2>3. intact => orig = {} /\ Present = orig \ todo
    BY <2>1 DEF IsolateInv, OnTable
  <2> QED
    BY <1>e, <2>1, <2>2, <2>3
<1> HIDE DEF At, Goto, End, Forgotten, Start, dictVars, NoDrop, Restore, EnterSamplingState,
        readVars, isolateVars, StudyInv, IsolatePcs
<1> QED
  BY <1>1, <1>2, <1>3, <1>4, <1>5, <1>6, <1>7, <1>8, <1>9, <1>10, <1>11 DEF IsolateNext

\* The depth of the study's readings: an intact study never re-gathers at level 0.
LEMMA PairSafe ==
  ASSUME IsolateInv, JobInv, QuietInv, QuietInv', KnownInv, StudyInv, PairInv, IsolateNext \/ K2Next
  PROVE  PairInv'
<1> USE DEF At, Goto, End, Forgotten, Start, dictVars, NoDrop, Restore, EnterSamplingState,
        readVars, isolateVars, IsolatePcs
<1>a. NoJob \notin Jobs
  BY OracleAssumption
<1>b. DictType /\ Depth(level) \in Nat /\ lost \in Nat /\ intact \in BOOLEAN
  BY DepthType DEF IsolateInv, DictType
<1>c. ASSUME known, pc \notin {"idle", "wClean"} PROVE Depth(level) = LevelRows(level)
  BY <1>c, DepthIsLevelRows DEF KnownInv
<1>d. pc' \in Unread => base' = NoReading /\ reads' = << >>
  BY DEF QuietInv
<1>1. CASE Caller \/ LeaveAndEnd \/ K2 \/ K2Clean \/ K2End \/ K2NextLevel
  BY <1>1, <1>a DEF Caller, LeaveAndEnd, K2, K2Clean, K2End, K2NextLevel, Enter, PairInv
<1>2. CASE DropUnkept \/ DropAdded \/ K2Drop
  <2>1. PICK g \in todo : DropGroup(g)
    BY <1>2 DEF DropUnkept, DropAdded, K2Drop, DropNext
  <2>2. pc' = pc /\ UNCHANGED <<job, reads, base, level, known>>
    BY <1>2 DEF DropUnkept, DropAdded, K2Drop, DropNext
  <2>3. UNCHANGED single /\ (intact' => intact)
    BY <1>b, <2>1, DropLeaves
  <2> QED
    BY <2>2, <2>3 DEF PairInv, LevelRows
<1>3. CASE K2Enter
  <2>1. pc = "kEnter" /\ pc' = "kClean" /\ UNCHANGED <<job, level, known>> /\ Gather(Depth(level), {})
    BY <1>3 DEF K2Enter
  <2>2. {} \in SUBSET Groups
    OBVIOUS
  <2>3. single' = Depth(level)
    BY <1>b, <2>1, <2>2, GatherLeaves
  <2> QED
    BY <1>c, <1>d, <2>1, <2>3 DEF PairInv, Unread, LevelRows
<1>4. CASE K2Baseline
  <2>1. pc = "kClean" /\ pc' = "kNext" /\ UNCHANGED <<job, level, known, reads, single, intact>> /\ base' = Seen
    BY <1>4 DEF K2Baseline
  <2> QED
    BY <2>1, SeenIs DEF PairInv, LevelRows
<1>5. CASE K2Isolate \/ K2LastLevel \/ AllDropped \/ Yield \/ AllUndone \/ Leave
  <2>1. UNCHANGED <<job, level, known, base, reads, single, intact>> /\ pc \in IsolatePcs \cup {"kNext"}
    BY <1>5 DEF K2Isolate, K2LastLevel, K2Read, AllDropped, Yield, AllUndone, Leave, Enter
  <2> QED
    BY <2>1 DEF PairInv, LevelRows
<1>6. CASE AddKept
  <2>1. PICK g \in todo : Gather(Depth(level), {g})
    BY <1>6 DEF AddKept
  <2>2. pc = "isoAdd" /\ pc' = "isoAdd" /\ UNCHANGED <<job, level, known, base, reads, intact>>
    BY <1>6 DEF AddKept
  <2>3. {g} \in SUBSET Groups
    BY <1>b DEF DictType
  <2>4. single' = Depth(level)
    BY <1>b, <2>1, <2>3, GatherLeaves
  <2> QED
    BY <1>c, <2>2, <2>4 DEF PairInv, LevelRows
<1>7. CASE Body
  <2>1. /\ pc = "isoBody" /\ pc' = "isoUndo"
        /\ UNCHANGED <<job, level, known, base, single, intact>>
        /\ job = "k2" => reads' = reads \/ reads' = Recorded(keepSet)
    BY <1>7 DEF Body
  <2>2. \A K \in DOMAIN Recorded(keepSet) : K # keepSet => K \in DOMAIN reads /\ Recorded(keepSet)[K] = reads[K]
    BY RecordedOn
  <2>3. Recorded(keepSet)[keepSet].single = single
    BY RecordedOn, SeenIs
  <2> QED
    BY <2>1, <2>2, <2>3 DEF PairInv, LevelRows
<1>8. CASE RestoreDropped
  <2>1. /\ pc = "isoRestore" /\ pc' = "isoRestore" /\ UNCHANGED <<job, known, intact>> /\ todo # {}
    BY <1>8 DEF RestoreDropped
  <2>2. job = "k2" => ~ intact
    BY <2>1 DEF IsolateInv, OnTable, StudyInv
  <2> QED
    BY <2>1, <2>2 DEF PairInv
<1> HIDE DEF At, Goto, End, Forgotten, Start, dictVars, NoDrop, Restore, EnterSamplingState,
        readVars, isolateVars, IsolatePcs
<1> QED
  BY <1>1, <1>2, <1>3, <1>4, <1>5, <1>6, <1>7, <1>8 DEF IsolateNext, K2Next

\* The deployment.
LEMMA DeploySafe ==
  ASSUME IsolateInv, IsolateInv', ChosenInv, JobInv, QuietInv, QuietInv', KnownInv, DeployInv, DeployNext
  PROVE  DeployInv'
<1> USE DEF At, Goto, End, Forgotten, Start, dictVars, NoDrop, Restore, EnterSamplingState,
        readVars
<1>a. NoJob \notin Jobs /\ TableRows \in Nat
  BY OracleAssumption
<1>b. DictType /\ Depth(level) \in Nat /\ lost \in Nat /\ intact \in BOOLEAN
  BY DepthType DEF IsolateInv, DictType
<1>c. /\ {} \in SUBSET Groups /\ Present \cup {} = Present
      /\ chosen \in SUBSET Groups
  BY DEF ChosenInv
<1>1. CASE Deploy \/ DeployReport
  BY <1>1, <1>a DEF Deploy, DeployReport, DeployInv
<1>2. CASE DeployRestore
  <2>1. PICK rows \in Nat : Gather(rows, {})
    BY <1>a, <1>b, <1>2 DEF DeployRestore
  <2>2. Present' = Present /\ numRows' = TableRows
    BY <1>b, <1>c, <2>1, GatherLeaves
  <2>3. /\ pc' \in {"dClean", "dCleanAgain"} /\ todo' = Present /\ UNCHANGED <<intact, lost>>
        /\ pc' = "dCleanAgain" => todo = {} /\ pc = "dClean"
    BY <1>2 DEF DeployRestore
  <2>4. pc' = "dCleanAgain" /\ intact => Present = {}
    BY <2>3 DEF DeployInv
  <2> QED
    BY <2>2, <2>3, <2>4 DEF DeployInv
<1>3. CASE DeployDrop
  <2>1. PICK g \in todo : DropGroup(g) /\ todo' = todo \ {g}
    BY <1>3 DEF DeployDrop, DropNext
  <2>2. pc' = pc /\ pc \in {"dClean", "dCleanAgain"}
    BY <1>3 DEF DeployDrop, DropNext
  <2>3. \/ Present' = Present \ {g} /\ UNCHANGED <<intact, lost>>
        \/ Present' = Present /\ g \in Present /\ lost' = lost + 1 /\ intact' = FALSE
    BY <1>b, <2>1, DropLeaves
  <2>4. UNCHANGED numRows
    BY <1>b, <2>1, DropLeaves
  <2>5. ~ intact => lost >= 1
    BY <2>2 DEF KnownInv
  <2>6. pc = "dCleanAgain" /\ lost' <= 1 => Present' = Present \ {g} /\ ~ intact'
    BY <1>b, <2>1, <2>3, <2>5 DEF DeployInv
  <2> QED
    BY <1>b, <2>1, <2>2, <2>3, <2>4, <2>6 DEF DeployInv
<1>4. CASE DeployGather
  <2>1. /\ pc = "dCleanAgain" /\ pc' = "dExplain" /\ todo = {} /\ UNCHANGED <<level, chosen, lost>>
        /\ Gather(Depth(level), chosen)
    BY <1>4 DEF DeployGather
  <2>2. /\ Present' = Present \cup chosen
        /\ \A g \in chosen : group'[g] = [size |-> Param, rows |-> Depth(level)]
        /\ single' = Depth(level) /\ numRows' = TableRows
    BY <1>b, <1>c, <2>1, GatherLeaves
  <2>3. Depth(level) = LevelRows(level)
    BY <2>1, DepthIsLevelRows DEF DeployInv
  <2>4. \A g \in chosen : group'[g] = Own(level)
    BY <2>2, <2>3 DEF Own
  <2>5. Own(level)' = Own(level) /\ LevelRows(level)' = LevelRows(level)
    BY <2>1 DEF Own, LevelRows
  <2>6. lost <= 1 => Present = {}
    BY <2>1 DEF DeployInv
  <2> QED
    BY <2>1, <2>2, <2>3, <2>4, <2>5, <2>6 DEF DeployInv
<1>5. CASE DeployExplain
  <2>1. /\ pc = "dExplain" /\ pc' = "dReport" /\ UNCHANGED <<level, chosen, lost, numRows>>
        /\ reads' = [K \in {chosen} |-> Seen]
    BY <1>5 DEF DeployExplain
  <2>2. Own(level)' = Own(level) /\ LevelRows(level)' = LevelRows(level)
    BY <2>1 DEF Own, LevelRows
  <2>3. lost <= 1 => Seen = [single |-> LevelRows(level), groups |-> { [name |-> g, as |-> Own(level)] : g \in chosen }]
    <3> SUFFICES ASSUME lost <= 1
                 PROVE  Seen = [single |-> LevelRows(level), groups |-> { [name |-> g, as |-> Own(level)] : g \in chosen }]
      OBVIOUS
    <3>1. Present = chosen /\ single = LevelRows(level) /\ \A g \in chosen : group[g] = Own(level)
      BY <2>1 DEF DeployInv
    <3>2. { [name |-> g, as |-> group[g]] : g \in chosen } = { [name |-> g, as |-> Own(level)] : g \in chosen }
      BY <3>1, Zenon
    <3> QED
      BY <3>1, <3>2 DEF Seen
  <2>4. \A K \in DOMAIN reads' : reads'[K] = Seen
    BY <2>1
  <2>5. numRows' = TableRows
    BY <2>1 DEF DeployInv
  <2> QED
    BY <2>1, <2>2, <2>3, <2>4, <2>5 DEF DeployInv
<1> HIDE DEF At, Goto, End, Forgotten, Start, dictVars, NoDrop, Restore, EnterSamplingState,
        readVars
<1> QED
  BY <1>1, <1>2, <1>3, <1>4, <1>5 DEF DeployNext

\* The second arm of a level is timed, the other arms are kept.
LEMMA ArmTimed ==
  ASSUME DOMAIN arms = Levels, NEW l \in Levels, NEW bare, NEW other, NEW arm,
         arms[l] = [bare |-> bare, withk |-> other],
         arms' = [arms EXCEPT ![l].withk = arm]
  PROVE  /\ DOMAIN arms' = Levels
         /\ arms'[l].bare = bare /\ arms'[l].withk = arm
         /\ \A k \in Levels : k # l => arms'[k] = arms[k]
<1>1. DOMAIN arms' = Levels
  BY Zenon
<1>2. arms'[l] = [arms[l] EXCEPT !.withk = arm]
  BY Zenon
<1>3. [[bare |-> bare, withk |-> other] EXCEPT !.withk = arm].bare = bare
  BY Zenon
<1>4. [[bare |-> bare, withk |-> other] EXCEPT !.withk = arm].withk = arm
  BY Zenon
<1>5. \A k \in Levels : k # l => arms'[k] = arms[k]
  BY Zenon
<1> QED
  BY <1>1, <1>2, <1>3, <1>4, <1>5, Zenon

\* The fit: the arms of the level, and the levels done.
LEMMA FitSafe ==
  ASSUME IsolateInv, IsolateInv', JobInv, QuietInv, KnownInv, FitInv, FitNext
  PROVE  FitInv'
<1> USE DEF At, Goto, End, Forgotten, Start, dictVars, NoDrop, Restore
<1>a. NoJob \notin Jobs /\ TableRows \in Nat /\ SRows \in [Levels -> Nat]
  BY OracleAssumption
<1>b. DictType /\ Depth(level) \in Nat /\ level \in Levels /\ BareRows = LevelRows(level) /\ BareRows \in Nat
  BY <1>a, DepthType, LevelRowsType DEF IsolateInv, DictType, BareRows, LevelRows
<1>c. /\ LevelSeq \in Seq(Nat)
      /\ \A i, j \in DOMAIN LevelSeq : LevelSeq[i] = LevelSeq[j] => i = j
  BY OracleAssumption
<1>d. Probes \in SUBSET Groups /\ {} \in SUBSET Groups /\ Present \cup {} = Present
  BY OracleCommandsAssumption
<1>1. CASE Fit
  <2>1. pc' = "fClean" /\ todo' = Probes /\ UNCHANGED <<arms, level>> /\ pc = "idle"
    BY <1>1, <1>a DEF Fit, FitLevel, JobInv
  <2>2. level = LevelSeq[1]
    BY <2>1 DEF QuietInv
  <2>3. \A i, j \in DOMAIN LevelSeq : LevelSeq[i] = level /\ j < i => FALSE
    BY <1>c, <2>2, OracleAssumption
  <2> QED
    BY <2>1, <2>3 DEF FitInv
<1>2. CASE FitDrop
  <2>1. PICK g \in todo : DropGroup(g) /\ todo' = todo \ {g}
    BY <1>2 DEF FitDrop, DropNext
  <2>2. pc' = pc /\ pc \in {"fClean", "fDrop"} /\ UNCHANGED <<arms, level>>
    BY <1>2 DEF FitDrop, DropNext
  <2>3. intact' => intact /\ Present' = Present \ {g}
    BY <1>b, <2>1, DropLeaves
  <2> QED
    BY <2>1, <2>2, <2>3 DEF FitInv, FitPcs
<1>3. CASE TimeBare
  <2> DEFINE bare == [maintains |-> Present, rows |-> LevelRows(level)]
  <2>1. /\ pc = "fClean" /\ pc' = "fProbe" /\ todo = {} /\ UNCHANGED <<level, intact>>
        /\ Gather(LevelRows(level), {})
    BY <1>3, <1>b DEF TimeBare
  <2>2. arms' = [arms EXCEPT ![level] = [bare |-> bare, withk |-> NoReading]]
    BY <1>3, <1>b DEF TimeBare
  <2>3. Present' = Present /\ numRows' = TableRows /\ LevelRows(level)' = LevelRows(level)
    BY <1>b, <1>d, <2>1, GatherLeaves DEF LevelRows
  <2>4. DOMAIN arms' = Levels /\ arms'[level] = [bare |-> bare, withk |-> NoReading]
    BY <1>b, <2>2 DEF FitInv
  <2>5. \A l \in Levels : l # level => arms'[l] = arms[l]
    BY <2>2 DEF FitInv
  <2>6. \A i, j \in DOMAIN LevelSeq : LevelSeq[i] = level /\ j < i => LevelSeq[j] \in Levels \ {level}
    BY <1>c DEF Levels
  <2>7. intact => \A i, j \in DOMAIN LevelSeq : LevelSeq[i] = level /\ j < i => Marginal(arms'[LevelSeq[j]])
    BY <2>1, <2>5, <2>6 DEF FitInv, FitPcs
  <2>8. intact => Present \cap Probes = {}
    BY <2>1 DEF FitInv
  <2>9. arms'[level'] = [bare |-> [maintains |-> Present', rows |-> LevelRows(level)'], withk |-> NoReading]
    BY <2>1, <2>3, <2>4
  <2> HIDE DEF bare
  <2> QED
    BY <2>1, <2>3, <2>4, <2>7, <2>8, <2>9 DEF FitInv, Marginal
<1>4. CASE TimeWithProbes
  <2> DEFINE bare == [maintains |-> Present, rows |-> LevelRows(level)]
             arm == [maintains |-> Present \cup Probes, rows |-> Depth(level)]
  <2>1. /\ pc = "fProbe" /\ pc' = "fDrop" /\ UNCHANGED <<level, intact>>
    BY <1>4 DEF TimeWithProbes
  <2>2. arms' = [arms EXCEPT ![level].withk = arm]
    BY <1>4, Zenon DEF TimeWithProbes
  <2>3. numRows = TableRows /\ arms[level] = [bare |-> bare, withk |-> NoReading]
    BY <2>1 DEF FitInv
  <2>4. Depth(level) = LevelRows(level)
    BY <2>3, DepthIsLevelRows
  <2>5. /\ DOMAIN arms' = Levels
        /\ arms'[level].bare = bare /\ arms'[level].withk = arm
        /\ \A k \in Levels : k # level => arms'[k] = arms[k]
    <3> HIDE DEF bare, arm
    <3> QED
      BY <1>b, <2>2, <2>3, ArmTimed DEF FitInv
  <2>6. \A i, j \in DOMAIN LevelSeq : LevelSeq[i] = level /\ j < i => LevelSeq[j] \in Levels \ {level}
    BY <1>c DEF Levels
  <2>7. intact => \A i, j \in DOMAIN LevelSeq : LevelSeq[i] = level /\ j < i => Marginal(arms'[LevelSeq[j]])
    BY <2>1, <2>5, <2>6 DEF FitInv, FitPcs
  <2>8. intact => Present \cap Probes = {}
    BY <2>1 DEF FitInv
  <2>9. intact => Marginal(arms'[level])
    BY <2>4, <2>5, <2>8 DEF Marginal
  <2> HIDE DEF bare, arm
  <2> QED
    BY <2>1, <2>5, <2>7, <2>9 DEF FitInv, Marginal
<1>5. CASE FitNextLevel
  <2>1. /\ pc = "fDrop" /\ pc' = "fClean" /\ todo' = Probes /\ UNCHANGED <<intact, arms>>
    BY <1>5 DEF FitNextLevel
  <2>2. PICK k \in 2 .. Len(LevelSeq) : LevelSeq[k - 1] = level /\ level' = LevelSeq[k]
    BY <1>5 DEF FitNextLevel
  <2>3. k \in DOMAIN LevelSeq /\ k - 1 \in DOMAIN LevelSeq
    BY <1>c
  <2>4. ASSUME intact, NEW i \in DOMAIN LevelSeq, NEW j \in DOMAIN LevelSeq, LevelSeq[i] = level', j < i
        PROVE  Marginal(arms[LevelSeq[j]])
    <3>1. i = k
      BY <1>c, <2>2, <2>3, <2>4
    <3>2. j = k - 1 \/ j < k - 1
      BY <1>c, <2>2, <2>4, <3>1
    <3>3. Marginal(arms[level])
      BY <2>1, <2>4 DEF FitInv
    <3> QED
      BY <2>1, <2>2, <2>3, <2>4, <3>2, <3>3 DEF FitInv, FitPcs
  <2> QED
    BY <2>1, <2>4 DEF FitInv, Marginal
<1>6. CASE WriteMaint
  BY <1>6, OracleCommandsAssumption DEF WriteMaint, FitInv, Untimed, FitPcs
<1> HIDE DEF At, Goto, End, Forgotten, Start, dictVars, NoDrop, Restore
<1> QED
  BY <1>1, <1>2, <1>3, <1>4, <1>5, <1>6 DEF FitNext

MaintInv == MarginalIsOfTheProbes

\* _maint.json is computed from the arms of all levels.
LEMMA MaintSafe ==
  ASSUME JobInv, FitInv, MaintInv, FitNext
  PROVE  MaintInv'
<1>1. CASE WriteMaint
  <2>1. pc = "fDrop" /\ level = LevelSeq[Len(LevelSeq)] /\ maint' = [at |-> arms, intact |-> intact]
    BY <1>1 DEF WriteMaint, End
  <2>2. ASSUME intact, NEW l \in Levels PROVE Marginal(arms[l])
    <3>1. LevelSeq \in Seq(Nat) /\ LevelSeq # << >>
      BY OracleAssumption
    <3>2. PICK j \in DOMAIN LevelSeq : l = LevelSeq[j]
      BY DEF Levels
    <3>3. Len(LevelSeq) \in DOMAIN LevelSeq /\ (j = Len(LevelSeq) \/ j < Len(LevelSeq))
      BY <3>1, <3>2
    <3> QED
      BY <2>1, <2>2, <3>2, <3>3 DEF FitInv, FitPcs
  <2>3. maint'.intact => \A l \in Levels : Marginal(maint'.at[l])
    BY <2>1, <2>2
  <2> QED
    BY <2>3 DEF MaintInv, MarginalIsOfTheProbes, Marginal
<1>2. CASE ~ WriteMaint
  <2>1. maint' = maint
    BY <1>2 DEF FitNext, Fit, FitDrop, TimeBare, TimeWithProbes, FitNextLevel
  <2> QED
    BY <2>1 DEF MaintInv, MarginalIsOfTheProbes
<1> QED
  BY <1>1, <1>2

OracleInv == Base /\ CommandInv /\ MaintInv

-----------------------------------------------------------------------------
(* The invariant, and the properties it implies. *)

\* Together.
LEMMA OracleInvInit == Init => OracleInv
<1> SUFFICES ASSUME Init PROVE OracleInv
  OBVIOUS
<1>1. Base
  BY IsolateInvInit, ChosenAreGroups DEF Base
<1>2. /\ pc = "idle" /\ job = NoJob /\ level = LevelSeq[1] /\ intact = TRUE
      /\ base = NoReading /\ reads = << >> /\ arms = Untimed /\ maint = NoReading
      /\ numRows \in {0, TableRows}
  BY DEF Init, TableInit, ReadInit, CommandInit
<1>3. JobInv
  BY <1>2 DEF JobInv, MeasurePcs, FitPcs, DeployPcs, StudyPcs, IsolatePcs
<1>4. QuietInv
  BY <1>2 DEF QuietInv, IsolatePcs
<1>5. StudyInv /\ PairInv
  BY <1>2 DEF StudyInv, PairInv, IsolatePcs
<1>6. KnownInv /\ MeasureInv /\ DeployInv
  BY <1>2 DEF KnownInv, MeasureInv, DeployInv
<1>7. FitInv
  BY <1>2 DEF FitInv, FitPcs, Untimed
<1>8. MaintInv
  BY <1>2 DEF MaintInv, MarginalIsOfTheProbes
<1> QED
  BY <1>1, <1>3, <1>4, <1>5, <1>6, <1>7, <1>8 DEF OracleInv, CommandInv

\* The invariant of isolate is kept by every step.
LEMMA BaseStep == Base /\ [Next]_vars => Base'
<1> SUFFICES ASSUME Base, [Next]_vars PROVE Base'
  OBVIOUS
<1>1. ChosenInv'
  BY ChosenAreGroups DEF Base
<1>2. CASE IsolateNext \/ K2Isolate
  BY <1>1, <1>2, BlockStep DEF Base
<1>3. CASE MeasureNext \/ FitNext \/ DeployNext \/ (K2Next /\ ~ K2Isolate) \/ CutShort
  BY <1>1, <1>3, OtherStep DEF Base
<1>4. CASE UNCHANGED vars
  BY <1>1, <1>4 DEF vars, tableVars, dictVars, procVars, isolateVars, IsolateInv, DictType,
     OnTable, IsolatePcs, Present, Base
<1> QED
  BY <1>2, <1>3, <1>4 DEF Next, Blocks, AllRun

\* What the other commands' steps leave of the fit's account.
LEMMA FitElsewhere ==
  ASSUME FitInv, MaintInv, QuietInv', UNCHANGED maint, pc' \notin FitPcs
  PROVE  FitInv' /\ MaintInv'
<1>1. arms' = Untimed
  BY DEF QuietInv
<1>2. FitInv'
  BY <1>1 DEF FitInv, Untimed, FitPcs
<1> QED
  BY <1>2 DEF MaintInv, MarginalIsOfTheProbes

LEMMA MeasureElsewhere ==
  ASSUME pc' \notin MeasurePcs PROVE MeasureInv'
BY DEF MeasureInv, MeasurePcs

LEMMA DeployElsewhere ==
  ASSUME pc' \notin DeployPcs PROVE DeployInv'
BY DEF DeployInv, DeployPcs

LEMMA OracleInvStep == OracleInv /\ [Next]_vars => OracleInv'
<1> SUFFICES ASSUME OracleInv, [Next]_vars PROVE OracleInv'
  OBVIOUS
<1> USE DEF OracleInv, CommandInv
<1>0. Base' /\ lost \in Nat /\ intact \in BOOLEAN
  BY BaseStep DEF Base, IsolateInv, DictType
<1>1. CASE MeasureNext
  <2>1. JobInv' /\ QuietInv' /\ KnownInv' /\ MeasureInv'
    BY <1>0, <1>1, MeasureJob, MeasureQuiet, MeasureKnown, MeasureSafe DEF Base
  <2>2. pc' \notin FitPcs \cup DeployPcs \cup StudyPcs \cup IsolatePcs /\ UNCHANGED maint
    BY <1>1, MeasureJob DEF MeasureNext, MeasurePcs, FitPcs, DeployPcs, StudyPcs, IsolatePcs
  <2> QED
    BY <1>0, <2>1, <2>2, FitElsewhere, StudyElsewhere, DeployElsewhere
<1>2. CASE FitNext
  <2>1. JobInv' /\ QuietInv' /\ KnownInv' /\ FitInv' /\ MaintInv'
    BY <1>0, <1>2, FitJob, FitQuiet, FitKnown, FitSafe, MaintSafe DEF Base
  <2>2. pc' \notin MeasurePcs \cup DeployPcs \cup StudyPcs \cup IsolatePcs
    BY <1>2, FitJob DEF MeasurePcs, FitPcs, DeployPcs, StudyPcs, IsolatePcs
  <2> QED
    BY <1>0, <2>1, <2>2, MeasureElsewhere, StudyElsewhere, DeployElsewhere
<1>3. CASE DeployNext
  <2>1. JobInv' /\ QuietInv' /\ KnownInv' /\ DeployInv'
    BY <1>0, <1>3, DeployJob, DeployQuiet, DeployKnown, DeploySafe DEF Base
  <2>2. pc' \notin MeasurePcs \cup FitPcs \cup StudyPcs \cup IsolatePcs /\ UNCHANGED maint
    BY <1>3, DeployJob DEF DeployNext, MeasurePcs, FitPcs, DeployPcs, StudyPcs, IsolatePcs
  <2> QED
    BY <1>0, <2>1, <2>2, FitElsewhere, StudyElsewhere, MeasureElsewhere
<1>4. CASE Blocks
  <2>0. IsolateNext \/ K2Next
    BY <1>4 DEF Blocks
  <2>1. JobInv' /\ QuietInv' /\ KnownInv'
    BY <1>0, <1>4, <2>0, BlockJob, BlockQuiet, IsolateKnown, StudyKnown DEF Base
  <2>2. pc' \notin MeasurePcs \cup FitPcs \cup DeployPcs /\ UNCHANGED maint
    BY <1>4, <2>0, BlockJob DEF Blocks, commandVars, MeasurePcs, FitPcs, DeployPcs,
       StudyPcs, IsolatePcs
  <2>3. StudyInv' /\ PairInv'
    BY <1>0, <2>0, <2>1, StudySafe, StudyBlockSafe, PairSafe DEF Base
  <2> QED
    BY <1>0, <2>1, <2>2, <2>3, FitElsewhere, DeployElsewhere, MeasureElsewhere
<1>5. CASE CutShort
  <2>1. /\ pc' = "idle" /\ job' = NoJob /\ intact' = TRUE /\ level' = LevelSeq[1]
        /\ base' = NoReading /\ reads' = << >> /\ arms' = Untimed
        /\ UNCHANGED <<numRows, maint>>
    BY <1>5, CutShortLeaves DEF dictVars
  <2>2. JobInv'
    BY <2>1 DEF JobInv, MeasurePcs, FitPcs, DeployPcs, StudyPcs, IsolatePcs
  <2>3. QuietInv' /\ KnownInv'
    BY <2>1 DEF QuietInv, KnownInv, IsolatePcs
  <2>4. pc' \notin MeasurePcs \cup FitPcs \cup DeployPcs \cup StudyPcs \cup IsolatePcs
    BY <2>1 DEF MeasurePcs, FitPcs, DeployPcs, StudyPcs, IsolatePcs
  <2> QED
    BY <1>0, <2>1, <2>2, <2>3, <2>4, FitElsewhere, StudyElsewhere, DeployElsewhere,
       MeasureElsewhere
<1>6. CASE UNCHANGED vars
  <2>1. UNCHANGED <<group, single, numRows, job, pc, level, todo, known, intact, lost, keepSet, orig, base, reads, cur, chosen, arms, maint>>
    BY <1>6 DEF vars, tableVars, dictVars, procVars, isolateVars, readVars, commandVars
  <2>2. Present' = Present /\ \A l : LevelRows(l)' = LevelRows(l)
    BY <2>1 DEF Present, LevelRows
  <2>3. JobInv' /\ QuietInv' /\ KnownInv'
    BY <2>1 DEF JobInv, QuietInv, KnownInv
  <2>4. MeasureInv' /\ DeployInv'
    BY <2>1, <2>2 DEF MeasureInv, DeployInv, Own
  <2>5. StudyInv' /\ PairInv'
    BY <2>1, <2>2 DEF StudyInv, PairInv, Names
  <2>6. FitInv' /\ MaintInv'
    BY <2>1, <2>2 DEF FitInv, MaintInv, MarginalIsOfTheProbes, Marginal
  <2> QED
    BY <1>0, <2>3, <2>4, <2>5, <2>6
<1> HIDE DEF OracleInv, CommandInv
<1> QED
  BY <1>1, <1>2, <1>3, <1>4, <1>5, <1>6 DEF Next, AllRun

\* The inductive invariant holds in every reachable state, for any table, any levels
\* and any sequence of commands, faults and lost drops.
THEOREM OracleInvHolds == Spec => []OracleInv
BY OracleInvInit, OracleInvStep, PTL DEF Spec

\* measure_query_sampling reads every candidate alone at its own parameter, and its
\* baseline without any group, whatever the commands before left, unless it lost a drop.
THEOREM MeasuredAloneAlways == Spec => []MeasuredAlone
<1>1. OracleInv => MeasuredAlone
  <2> SUFFICES ASSUME OracleInv, job \in {"measure", "worker"}, intact
               PROVE  /\ base # NoReading => base.groups = {}
                      /\ \A K \in DOMAIN reads :
                           \E g \in K : reads[K].groups = { [name |-> g, as |-> [size |-> Param, rows |-> Depth(level)]] }
    BY DEF MeasuredAlone
  <2>1. CASE pc \in {"mBuild", "mRead", "mDrop"}
    <3>1. Own(level) = [size |-> Param, rows |-> Depth(level)]
      BY <2>1, DepthIsLevelRows DEF OracleInv, CommandInv, MeasureInv, Own
    <3>2. /\ base.groups = {}
          /\ \A K \in DOMAIN reads : \E g \in K : reads[K].groups = { [name |-> g, as |-> Own(level)] }
      BY <2>1 DEF OracleInv, CommandInv, MeasureInv
    <3> QED
      BY <3>1, <3>2
  <2>2. CASE pc \notin {"mBuild", "mRead", "mDrop"}
    <3>1. base = NoReading /\ reads = << >>
      BY <2>2 DEF OracleInv, CommandInv, JobInv, QuietInv, Unread, MeasurePcs, FitPcs,
         DeployPcs, StudyPcs, IsolatePcs
    <3> QED
      BY <3>1
  <2> QED
    BY <2>1, <2>2
<1> QED
  BY <1>1, OracleInvHolds, PTL

\* The two arms from which _maint.json is computed differ by exactly the probes and
\* read the same rows, after any earlier kill, unless the fit lost a drop.
THEOREM MarginalAlways == Spec => []MarginalIsOfTheProbes
<1>1. OracleInv => MarginalIsOfTheProbes
  BY DEF OracleInv, MaintInv
<1> QED
  BY <1>1, OracleInvHolds, PTL

\* Up to one lost drop leaves every reading of the co-installation study made with
\* exactly the groups it is recorded for.
THEOREM ReadsExactlyKeepAlways == Spec => [](lost <= 1 => ReadsExactlyKeep)
<1>1. OracleInv => (lost <= 1 => ReadsExactlyKeep)
  BY DEF OracleInv, CommandInv, StudyInv, ReadsExactlyKeep
<1> QED
  BY <1>1, OracleInvHolds, PTL

\* Up to one lost drop leaves a deployment EXPLAINed with exactly the chosen groups,
\* gathered together at their own parameter and at the level's depth.
THEOREM DeployedAsSelectedAlways == Spec => [](lost <= 1 => DeployedAsSelected)
<1>1. OracleInv => (lost <= 1 => DeployedAsSelected)
  <2> SUFFICES ASSUME OracleInv, lost <= 1, job = "deploy", NEW K \in DOMAIN reads
               PROVE  reads[K] = [single |-> Depth(level),
                        groups |-> { [name |-> g, as |-> [size |-> Param, rows |-> Depth(level)]] : g \in chosen }]
    BY DEF DeployedAsSelected
  <2>1. pc = "dReport"
    BY DEF OracleInv, CommandInv, JobInv, QuietInv, Unread, MeasurePcs, FitPcs, DeployPcs,
       StudyPcs, IsolatePcs
  <2>2. Depth(level) = LevelRows(level)
    BY <2>1, DepthIsLevelRows DEF OracleInv, CommandInv, DeployInv
  <2> QED
    BY <2>1, <2>2 DEF OracleInv, CommandInv, DeployInv, Own
<1> QED
  BY <1>1, OracleInvHolds, PTL

\* Same-S pairing of candidate and baseline holds in every command on a known table;
\* a study that has lost a drop is excepted: restoring a group re-gathers at level 0.
THEOREM SameDepthAlways == Spec => [](intact \/ job # "k2" => SameDepthPairing)
<1>1. OracleInv => (intact \/ job # "k2" => SameDepthPairing)
  <2> SUFFICES ASSUME OracleInv, intact \/ job # "k2", known, base # NoReading, NEW K \in DOMAIN reads
               PROVE  reads[K].single = base.single
    BY DEF SameDepthPairing
  <2> USE DEF OracleInv, CommandInv
  <2>1. CASE job = "k2"
    <3>1. pc \in IsolatePcs \cup {"kClean", "kNext", "kFinal"}
      BY <2>1 DEF JobInv, QuietInv, Unread, MeasurePcs, FitPcs, DeployPcs, StudyPcs,
         IsolatePcs
    <3> QED
      BY <2>1, <3>1 DEF PairInv
  <2>2. CASE job # "k2"
    <3>1. pc \in {"mBuild", "mRead", "mDrop"}
      BY <2>2 DEF JobInv, QuietInv, Unread, MeasurePcs, FitPcs, DeployPcs, StudyPcs,
         IsolatePcs
    <3> QED
      BY <3>1 DEF MeasureInv
  <2> QED
    BY <2>1, <2>2
<1> QED
  BY <1>1, OracleInvHolds, PTL
=============================================================================
