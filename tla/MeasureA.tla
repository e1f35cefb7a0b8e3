------------------------------ MODULE MeasureA ------------------------------
(***************************************************************************)
(* Protocol-A: one object at a time is created, built by an ANALYZE of its *)
(* own, read and dropped again.  The fallback of every backend that cannot *)
(* mask payloads, here over a PostgreSQL table.                            *)
(***************************************************************************)
EXTENDS MeasureRun

VARIABLES
  cur,      \* the object under measurement
  raising   \* an exception is propagating through the finally block

protocolVars == <<cur, raising>>
vars == <<tableVars, runVars, protocolVars>>

AnySlot == CHOOSE s \in Slots : TRUE

TypeOK == TableTypeOK /\ RunTypeOK /\ cur \in Slots /\ raising \in BOOLEAN

Init == TableInit /\ RunInit /\ cur = AnySlot /\ raising = FALSE

-----------------------------------------------------------------------------
CreateObject(s) ==
  /\ Goto("create", "build") /\ s \in todo /\ NoRaise
  /\ CreateStat(s)
  /\ cur' = s /\ todo' = todo \ {s}
  /\ UNCHANGED <<remaining, q, li, base, reads, file, pinned, raising>>

\* Outside the try: the exception leaves the query at once.
CreateObjectRaises ==
  /\ Goto("create", "failed") /\ todo # {} /\ Raise
  /\ \E S \in SUBSET todo : DropStats(S)
  /\ UNCHANGED <<remaining, q, li, todo, base, reads, file, pinned, protocolVars>>

\* Mutant: the object's own target is never set.
BuildTargets_Unset == target

\* build_stat_param: the columns keep the target of the sampling state.
BuildTargets == [target EXCEPT ![cur] = cur.param]

\* Mutant: the columns are pinned before the build, as the batch build does.
BuildObject_Pins ==
  /\ Goto("build", "read") /\ NoRaise
  /\ \E hollow \in HollowSets : Analyze(PinnedColumns, BuildTargets, hollow)
  /\ UNCHANGED <<remaining, q, li, todo, base, reads, file, pinned, protocolVars>>

BuildObject ==
  /\ Goto("build", "read") /\ NoRaise
  /\ \E hollow \in HollowSets : Analyze(colTarget, BuildTargets, hollow)
  /\ UNCHANGED <<remaining, q, li, todo, base, reads, file, pinned, protocolVars>>

BuildObjectRaises ==
  /\ Goto("build", "drop") /\ Raise
  /\ UNCHANGED tableVars \/ SetTargets(colTarget, BuildTargets)
  /\ raising' = TRUE
  /\ UNCHANGED <<remaining, q, li, todo, base, reads, file, pinned, cur>>

ReadObject ==
  /\ Goto("read", "drop") /\ NoRaise
  /\ reads' = [reads EXCEPT ![cur] = Seen]
  /\ UNCHANGED <<remaining, q, li, todo, base, file, pinned, tableVars,
                 protocolVars>>

ReadObjectRaises ==
  /\ Goto("read", "drop") /\ Raise
  /\ raising' = TRUE
  /\ UNCHANGED <<remaining, q, li, todo, base, reads, file, pinned, tableVars, cur>>

\* Mutant: the finally block forgets the drop.
DropObject_NoDrop ==
  /\ pc = "drop" /\ pc' = (IF raising THEN "failed" ELSE "create") /\ NoRaise
  /\ cur' = AnySlot /\ raising' = FALSE
  /\ UNCHANGED <<remaining, q, li, todo, base, reads, file, pinned, tableVars>>

\* The finally block.
DropObject ==
  /\ pc = "drop" /\ pc' = (IF raising THEN "failed" ELSE "create") /\ NoRaise
  /\ DropStats({cur})
  /\ cur' = AnySlot /\ raising' = FALSE
  /\ UNCHANGED <<remaining, q, li, todo, base, reads, file, pinned>>

DropObjectRaises ==
  /\ Goto("drop", "failed") /\ Raise
  /\ cur' = AnySlot /\ raising' = FALSE
  /\ UNCHANGED <<remaining, q, li, todo, base, reads, file, pinned, tableVars>>

LevelDone ==
  /\ pc = "create" /\ todo = {} /\ NoRaise
  /\ NextLevel
  /\ UNCHANGED <<remaining, q, todo, base, reads, file, pinned, tableVars,
                 protocolVars>>

ProcessDies == Crash /\ cur' = AnySlot /\ raising' = FALSE

AllMeasured == \A x \in Queries : file[x] # NoFile
Finished == pc \in Parked /\ AllMeasured /\ UNCHANGED vars

Protocol ==
  \/ \E s \in Slots : CreateObject(s)
  \/ CreateObjectRaises \/ BuildObject \/ BuildObjectRaises
  \/ ReadObject \/ ReadObjectRaises \/ DropObject \/ DropObjectRaises
  \/ LevelDone

Next ==
  \/ Workload /\ UNCHANGED protocolVars
  \/ Protocol
  \/ ProcessDies
  \/ Finished

Spec == Init /\ [][Next]_vars

-----------------------------------------------------------------------------
(* Properties. *)

\* Protocol-A fulfils the same contract as Protocol-M: complete blocks, every
\* candidate alone and in its level's sampling state.
Abstract == INSTANCE Measurement WITH file <- file
ImplementsMeasurement == Abstract!Spec

\* At most one object of the measurement is on the table at any time, unless
\* a failure left one behind that no level has cleared yet.
OneObjectAtATime ==
  pc \in {"create", "build", "read", "drop"} =>
     installed \subseteq (IF pc = "create" THEN {} ELSE {cur})

\* A candidate is read with the single-column statistics of its baseline.
SameStatePairing ==
  \A s \in Slots : reads[s] # NoReading =>
     reads[s].single.target = base[s.level].single.target
=============================================================================
