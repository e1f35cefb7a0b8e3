----------------------------- MODULE PgIsolate ------------------------------
(***************************************************************************)
(* PostgresBackend.isolate as a context manager around the caller's block: *)
(* drop what is not kept, create what is to be kept and missing, and on    *)
(* the way out undo both and rebuild what was dropped.                     *)
(***************************************************************************)
EXTENDS PgSession

CONSTANTS
  KeepChoices,  \* the sets a caller asks to keep
  NoKeep        \* no block is open

\* list_stats gives every statistic level 0, which the ladder has.
ASSUME PgIsolateAssumption ==
  /\ KeepChoices \subseteq SUBSET Stats /\ NoKeep \notin KeepChoices
  /\ 0 \in Levels

VARIABLES
  keepSet,      \* the statistics to keep
  presentOrig   \* what list_stats returned on entry

isolateVars == <<keepSet, presentOrig>>

IsolateInit == keepSet = {} /\ presentOrig = {}

IsolateForgotten == keepSet' = {} /\ presentOrig' = {}

newNames == keepSet \ presentOrig
dropped == presentOrig \ keepSet

Isolate ==
  /\ "isolate" \in Jobs
  /\ Start("isolate", "isoDrop")
  /\ keepSet' \in KeepChoices
  /\ presentOrig' = installed
  /\ todo' = installed \ keepSet'
  /\ UNCHANGED <<tableVars, level, born>>

DropUnkept ==
  /\ At("isoDrop") /\ UNCHANGED isolateVars
  /\ \E s \in todo : Drop(s)

AllDropped ==
  /\ At("isoDrop") /\ todo = {}
  /\ pc' = "isoCreate" /\ todo' = newNames
  /\ UNCHANGED <<tableVars, level, born, pinned, isolateVars>>

CreateKept ==
  /\ At("isoCreate") /\ UNCHANGED isolateVars
  /\ \E s \in todo : Create(s)

Yield ==
  /\ At("isoCreate") /\ todo = {}
  /\ pc' = "isoBody"
  /\ UNCHANGED <<tableVars, level, born, pinned, todo, isolateVars>>

\* The block ends, by itself or by an exception: the finally begins.
LeaveBody ==
  /\ At("isoBody")
  /\ pc' = "isoUndo" /\ todo' = newNames
  /\ UNCHANGED <<tableVars, level, born, pinned, isolateVars>>

DropNew ==
  /\ At("isoUndo") /\ UNCHANGED isolateVars
  /\ \E s \in todo : Drop(s)

AllUndone ==
  /\ At("isoUndo") /\ todo = {}
  /\ pc' = "isoRecreate" /\ todo' = dropped
  /\ UNCHANGED <<tableVars, level, born, pinned, isolateVars>>

\* Mutant: forgets what it had dropped.
Recreate_Nothing ==
  /\ At("isoRecreate") /\ UNCHANGED isolateVars
  /\ \E s \in todo : Drop(s)

Recreate ==
  /\ At("isoRecreate") /\ UNCHANGED isolateVars
  /\ \E s \in todo : Create(s)

\* build_stats(dropped, the highest of their levels): list_stats gave every one
\* of them level 0.
Rebuild ==
  /\ End("isoRecreate") /\ todo = {}
  /\ IF dropped = {} THEN UNCHANGED <<tableVars, born>>
     ELSE AnalyzeWith(PinnedColumns, Retarget(dropped, Ladder[0]))
  /\ IsolateForgotten

IsolateNext ==
  Isolate \/ DropUnkept \/ AllDropped \/ CreateKept \/ Yield
    \/ LeaveBody \/ DropNew \/ AllUndone \/ Recreate \/ Rebuild

-----------------------------------------------------------------------------
(* The refinement mapping: half-finished steps on the way in do not show,  *)
(* nor do those on the way out.                                            *)

Entering == pc \in {"isoDrop", "isoCreate"}
Leaving == pc \in {"isoUndo", "isoRecreate"}
Open == pc = "isoBody" \/ Leaving

Contract == INSTANCE Isolation WITH
  Stats <- Stats, NoKeep <- NoKeep,
  on <- IF Entering THEN presentOrig ELSE IF Leaving THEN keepSet ELSE installed,
  keep <- IF Open THEN keepSet ELSE NoKeep,
  before <- IF Open THEN presentOrig ELSE {},
  mishaps <- faults
=============================================================================
