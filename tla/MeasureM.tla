------------------------------ MODULE MeasureM ------------------------------
(***************************************************************************)
(* Protocol-M: per sampling level every (candidate, parameter) object is   *)
(* created, ONE batch ANALYZE builds them all, and each is read alone by   *)
(* NULL-masking the payloads of the others out of a temporary backup and   *)
(* putting them back before the next read.                                 *)
(***************************************************************************)
EXTENDS MeasureRun

VARIABLES
  made,      \* objs: the objects this level has created
  cur,       \* the object under measurement
  saved,     \* the payloads in the temporary backup tables
  backedUp,  \* PgPayloadBackup._backed_up
  raising    \* an exception is propagating through the finally blocks

maskVars == <<made, cur, saved, backedUp, raising>>
vars == <<tableVars, runVars, maskVars>>

NoBackup == [s \in Slots |-> Null]
AnySlot == CHOOSE s \in Slots : TRUE

MaskTypeOK ==
  /\ made \subseteq Slots
  /\ cur \in Slots
  /\ saved \in [Slots -> Payloads \cup {Null}]
  /\ backedUp \in BOOLEAN
  /\ raising \in BOOLEAN

TypeOK == TableTypeOK /\ RunTypeOK /\ MaskTypeOK

Init ==
  /\ TableInit /\ RunInit
  /\ made = {} /\ saved = NoBackup
  /\ cur = AnySlot
  /\ backedUp = FALSE /\ raising = FALSE

-----------------------------------------------------------------------------
CreateObject(s) ==
  /\ pc = "create" /\ s \in todo
  /\ CreateStat(s)
  /\ made' = made \cup {s} /\ todo' = todo \ {s}
  /\ UNCHANGED <<pc, remaining, q, li, base, reads, file, pinned, faults,
                 cur, saved, backedUp, raising>>

\* Creation runs before the try: nothing removes what was already created.
CreateObjectRaises ==
  /\ Goto("create", "failed") /\ todo # {} /\ Raise
  /\ \E S \in SUBSET todo : DropStats(S)
  /\ made' = {}
  /\ UNCHANGED <<remaining, q, li, todo, base, reads, file, pinned,
                 cur, saved, backedUp, raising>>

\* Each object at its own parameter, over the columns as the pin leaves them.
BatchTargets == [s \in Stats |-> IF s \in made THEN s.param ELSE target[s]]
BatchColumns == IF made = {} THEN colTarget ELSE PinnedColumns

\* build_stat_params_batch.  With no object there is no table to pin.
BuildBatch ==
  /\ Goto("create", "mask") /\ todo = {} /\ NoRaise
  /\ IF made = {} THEN UNCHANGED tableVars
     ELSE \E hollow \in HollowSets :
             Analyze(BatchColumns, BatchTargets, hollow)
  /\ pinned' = (pinned \/ made # {})
  /\ todo' = made
  /\ saved' = NoBackup /\ backedUp' = FALSE
  /\ UNCHANGED <<remaining, q, li, base, reads, file, made, cur, raising>>

BuildBatchRaises ==
  /\ Goto("create", "cleanup") /\ todo = {} /\ made # {} /\ Raise
  /\ \/ UNCHANGED <<tableVars, pinned>>
     \/ SetTargets(BatchColumns, BatchTargets) /\ pinned' = TRUE
  /\ raising' = TRUE
  /\ UNCHANGED <<remaining, q, li, todo, base, reads, file,
                 made, cur, saved, backedUp>>

\* _ensure_backup copies the payloads that are not NULL, once per backup.
Backup == [s \in Slots |-> IF s \in made THEN payload[s] ELSE Null]
EnsureBackup ==
  /\ saved' = (IF backedUp THEN saved ELSE Backup)
  /\ backedUp' = TRUE

\* Mutant: the masking UPDATE matches no row.
NullPayloads_NoRow(S) == UNCHANGED tableVars

NullPayloads(S) ==
  /\ payload' = [x \in Stats |-> IF x \in S THEN Null ELSE payload[x]]
  /\ UNCHANGED <<installed, target, colTarget, colStats>>

MaskAllBut(s) ==
  /\ Goto("mask", "read") /\ s \in todo /\ NoRaise
  /\ EnsureBackup
  /\ NullPayloads(made \ {s})
  /\ cur' = s /\ todo' = todo \ {s}
  /\ UNCHANGED <<remaining, q, li, base, reads, file, pinned, made, raising>>

\* The call stands outside the inner try: no restore, straight to the cleanup.
MaskAllButRaises ==
  /\ Goto("mask", "cleanup") /\ todo # {} /\ Raise
  /\ \E S \in SUBSET made : NullPayloads(S)
  /\ raising' = TRUE
  /\ UNCHANGED <<remaining, q, li, todo, base, reads, file, pinned,
                 made, cur, saved, backedUp>>

ReadObject ==
  /\ Goto("read", "restore") /\ NoRaise
  /\ reads' = [reads EXCEPT ![cur] = Seen]
  /\ UNCHANGED <<remaining, q, li, todo, base, file, pinned, tableVars, maskVars>>

ReadObjectRaises ==
  /\ Goto("read", "restore") /\ Raise
  /\ raising' = TRUE
  /\ UNCHANGED <<remaining, q, li, todo, base, reads, file, pinned, tableVars,
                 made, cur, saved, backedUp>>

\* Mutant: the restoring UPDATE matches no row.
PutBack_NoRow(S) == UNCHANGED tableVars

PutBack(S) ==
  /\ payload' = [x \in Stats |-> IF x \in S /\ saved[x] # Null
                                 THEN saved[x] ELSE payload[x]]
  /\ UNCHANGED <<installed, target, colTarget, colStats>>

\* The inner finally; a pending exception then goes on to the outer one.
Restore ==
  /\ pc = "restore" /\ pc' = (IF raising THEN "cleanup" ELSE "mask") /\ NoRaise
  /\ IF backedUp THEN PutBack(made) ELSE UNCHANGED tableVars
  /\ backedUp' = FALSE
  /\ UNCHANGED <<remaining, q, li, todo, base, reads, file, pinned,
                 made, cur, saved, raising>>

RestoreRaises ==
  /\ Goto("restore", "cleanup") /\ Raise
  /\ \E S \in SUBSET made : PutBack(S)
  /\ raising' = TRUE
  /\ UNCHANGED <<remaining, q, li, todo, base, reads, file, pinned,
                 made, cur, saved, backedUp>>

ReadsDone ==
  /\ Goto("mask", "cleanup") /\ todo = {}
  /\ UNCHANGED <<remaining, q, li, todo, base, reads, file, pinned, faults,
                 tableVars, maskVars>>

\* Mutant: the outer finally forgets the drops.
Cleanup_NoDrop(stuck) ==
  /\ pc = "cleanup" /\ stuck = {} /\ NoRaise
  /\ UNCHANGED tableVars
  /\ made' = {} /\ saved' = NoBackup /\ backedUp' = FALSE /\ raising' = FALSE
  /\ cur' = AnySlot
  /\ IF raising THEN pc' = "failed" /\ UNCHANGED li ELSE NextLevel
  /\ UNCHANGED <<remaining, q, todo, base, reads, file, pinned>>

\* The outer finally closes the backup and drops every object; each drop
\* swallows its own exception, so an object may stay behind.
Cleanup(stuck) ==
  /\ pc = "cleanup"
  /\ IF stuck = {} THEN NoRaise ELSE Raise
  /\ DropStats(made \ stuck)
  /\ made' = {} /\ saved' = NoBackup /\ backedUp' = FALSE /\ raising' = FALSE
  /\ cur' = AnySlot
  /\ IF raising THEN pc' = "failed" /\ UNCHANGED li ELSE NextLevel
  /\ UNCHANGED <<remaining, q, todo, base, reads, file, pinned>>

\* Temporary tables and local variables die with the process.
ProcessDies ==
  /\ Crash
  /\ made' = {} /\ saved' = NoBackup /\ backedUp' = FALSE /\ raising' = FALSE
  /\ cur' = AnySlot

AllMeasured == \A x \in Queries : file[x] # NoFile
Finished == pc \in Parked /\ AllMeasured /\ UNCHANGED vars

Protocol ==
  \/ \E s \in Slots : CreateObject(s) \/ MaskAllBut(s)
  \/ CreateObjectRaises \/ BuildBatch \/ BuildBatchRaises \/ MaskAllButRaises
  \/ ReadObject \/ ReadObjectRaises \/ Restore \/ RestoreRaises \/ ReadsDone
  \/ \E stuck \in SUBSET made : Cleanup(stuck)

Next ==
  \/ Workload /\ UNCHANGED maskVars
  \/ Protocol
  \/ ProcessDies
  \/ Finished

Spec == Init /\ [][Next]_vars

\* The process keeps executing, and an interrupted run is started again.
FairSpec == Spec /\ WF_vars(Workload /\ UNCHANGED maskVars) /\ WF_vars(Protocol)

-----------------------------------------------------------------------------
(* Properties. *)

\* While one object is read every other one is masked: no reading of a slot
\* ever shows the payload of another statistic, whatever failed before.
ReadSeesOnlyItsObject ==
  \A s \in Slots : reads[s] # NoReading =>
     \A e \in reads[s].live : e.stat = s

\* The masks are undone between two reads: a slot whose payload ANALYZE did
\* build is read with that payload, at its own parameter and at the depth of
\* its level, never as a NULL left by the reading of a sibling.
ReadSeesItsPayload ==
  \A s \in Slots : reads[s] # NoReading /\ s.cand \notin MayBeEmpty =>
     \E e \in reads[s].live :
        e.payload = [param |-> s.param, rows |-> RowsAt(TargetForLevel(s.level))]

\* Same-S pairing: the single-column statistics behind a candidate's reading
\* have the target they had behind the baseline of the same level.
SameStatePairing ==
  \A s \in Slots : reads[s] # NoReading =>
     reads[s].single.target = base[s.level].single.target

\* Every block is written whole, once, and as the abstract measurement says.
Abstract == INSTANCE Measurement WITH file <- file
ImplementsMeasurement == Abstract!Spec

\* Whatever fails and however often the run is interrupted (boundedly), every
\* query is measured in the end.
EventuallyMeasured == <>AllMeasured

\* Not the first baseline of a run, which alone is scanned before the leftovers
\* of earlier runs are dropped.
Swept(l) == l # LevelSeq[1] \/ \E x \in Queries \ {q} : file[x] # NoFile

\* "No extended stat present" when a level is entered: as long as nothing has
\* failed, leftovers deepen the scan of a run's first baseline and no other, and
\* the S_rows written beside a baseline are the rows it was read at.
BaselineAtLevelDepth ==
  faults = 0 => \A l \in Levels : base[l] # NoReading /\ Swept(l) =>
     /\ base[l].single.rows = RowsAt(TargetForLevel(l))
     /\ base[l].single.rows = SampleRowsAtLevel(l)
=============================================================================
