--------------------------- MODULE OracleIsolate ----------------------------
(***************************************************************************)
(* OracleBackend.isolate as a context manager, and its two users: any      *)
(* caller's block, and the co-installation study oracle_k2_coinstall that  *)
(* reads a query under the sets {A}, {A, B} and {B}.                       *)
(***************************************************************************)
EXTENDS OracleTable

CONSTANTS
  KeepChoices,   \* the sets a caller asks to keep
  K2Keeps,       \* the sets of the study, in its order
  NoKeep,        \* no block is open
  NoReading      \* nothing recorded

ASSUME OracleIsolateAssumption ==
  /\ KeepChoices \subseteq SUBSET Groups
  /\ K2Keeps \in Seq(SUBSET Groups)
  /\ NoKeep \notin KeepChoices
  /\ \A i \in DOMAIN K2Keeps : K2Keeps[i] # NoKeep

VARIABLES
  keepSet,   \* the groups to keep
  orig,      \* the groups that were live on entry
  raising,   \* an exception is propagating through the finally
  base,      \* the reading without any group
  reads      \* [set of groups meant to be read -> reading], at this level

isolateVars == <<keepSet, orig, raising>>
readVars == <<base, reads>>

IsolateInit == keepSet = {} /\ orig = {} /\ raising = FALSE
IsolateForgotten == keepSet' = {} /\ orig' = {} /\ raising' = FALSE
ReadInit == base = NoReading /\ reads = << >>
ReadForgotten == base' = NoReading /\ reads' = << >>

\* The readings, and the one made now for the groups K.
Recorded(K) == [L \in DOMAIN reads \cup {K} |-> IF L = K THEN Seen ELSE reads[L]]

\* Mutant: relies on the caller's own cleaning of the table.
Enter_DropsNothing(keep) ==
  /\ pc' = "isoDrop" /\ todo' = {}
  /\ keepSet' = keep /\ orig' = Present
  /\ UNCHANGED <<dictVars, raising>>

Enter(keep) ==
  /\ pc' = "isoDrop" /\ todo' = Present \ keep
  /\ keepSet' = keep /\ orig' = Present
  /\ UNCHANGED <<dictVars, raising>>

Caller ==
  /\ Start("caller")
  /\ \E keep \in KeepChoices : Enter(keep)
  /\ level' \in Levels
  /\ UNCHANGED readVars

DropUnkept == DropNext("isoDrop") /\ UNCHANGED <<isolateVars, readVars>>

AllDropped ==
  /\ At("isoDrop") /\ todo = {} /\ Goto("isoAdd")
  /\ todo' = keepSet \ orig
  /\ NoDrop /\ UNCHANGED <<dictVars, isolateVars, readVars>>

\* build_stats([k], k.sampling_level), group by group.
AddKept ==
  /\ At("isoAdd") /\ UNCHANGED <<pc, level>>
  /\ \E g \in todo : Gather(Depth(level), {g}) /\ todo' = todo \ {g}
  /\ NoDrop /\ UNCHANGED <<isolateVars, readVars>>

Yield ==
  /\ At("isoAdd") /\ todo = {} /\ Goto("isoBody")
  /\ NoDrop /\ UNCHANGED <<dictVars, todo, isolateVars, readVars>>

\* The block runs, and the study reads its query there; or it raises.
Body ==
  /\ At("isoBody") /\ Goto("isoUndo")
  /\ todo' = keepSet \ orig
  /\ \/ raising' = TRUE /\ UNCHANGED reads
     \/ /\ reads' = IF job = "k2" THEN Recorded(keepSet) ELSE reads
        /\ UNCHANGED raising
  /\ NoDrop /\ UNCHANGED <<dictVars, keepSet, orig, base>>

DropAdded == DropNext("isoUndo") /\ UNCHANGED <<isolateVars, readVars>>

AllUndone ==
  /\ At("isoUndo") /\ todo = {} /\ Goto("isoRestore")
  /\ todo' = orig \ keepSet
  /\ NoDrop /\ UNCHANGED <<dictVars, isolateVars, readVars>>

\* Mutant: a group the drops were to remove is taken to be still present.
RestoreDropped_Trusts ==
  /\ At("isoRestore") /\ UNCHANGED <<pc, level>>
  /\ \E g \in todo : todo' = todo \ {g}
  /\ NoDrop /\ UNCHANGED <<dictVars, isolateVars, readVars>>

\* build_stats([st], level 0), unless the group is there.
RestoreDropped ==
  /\ At("isoRestore") /\ UNCHANGED <<pc, level>>
  /\ \E g \in todo :
        /\ todo' = todo \ {g}
        /\ IF g \in Present THEN UNCHANGED dictVars ELSE Gather(Depth(0), {g})
  /\ NoDrop /\ UNCHANGED <<isolateVars, readVars>>

\* The caller's command ends with its block, the study's with an exception.
LeaveAndEnd ==
  /\ todo = {} /\ (job = "caller" \/ raising)
  /\ End("isoRestore")
  /\ IsolateForgotten /\ ReadForgotten
  /\ UNCHANGED dictVars

Leave ==
  /\ At("isoRestore") /\ todo = {} /\ job = "k2" /\ ~raising /\ Goto("kNext")
  /\ IsolateForgotten
  /\ NoDrop /\ UNCHANGED <<dictVars, todo, readVars>>

IsolateNext ==
  Caller \/ DropUnkept \/ AllDropped \/ AddKept \/ Yield \/ Body
    \/ DropAdded \/ AllUndone \/ RestoreDropped \/ LeaveAndEnd \/ Leave

-----------------------------------------------------------------------------
(* The co-installation study. *)

K2 ==
  /\ Start("k2") /\ Goto("kFirst")
  /\ todo' = Present
  /\ UNCHANGED <<dictVars, isolateVars, readVars>>

K2Drop ==
  /\ \E here \in {"kFirst", "kClean", "kFinal"} : DropNext(here)
  /\ UNCHANGED <<isolateVars, readVars>>

K2Clean ==
  /\ At("kFirst") /\ todo = {} /\ Goto("kEnter")
  /\ NoDrop /\ UNCHANGED <<dictVars, todo, isolateVars, readVars>>

K2Enter ==
  /\ At("kEnter") /\ Goto("kClean")
  /\ EnterSamplingState(level)
  /\ todo' = Present
  /\ NoDrop /\ UNCHANGED <<isolateVars, readVars>>

K2Baseline ==
  /\ At("kClean") /\ todo = {} /\ Goto("kNext")
  /\ base' = Seen
  /\ NoDrop /\ UNCHANGED <<dictVars, todo, isolateVars, reads>>

K2Isolate ==
  /\ At("kNext") /\ UNCHANGED level
  /\ \E i \in DOMAIN K2Keeps : i = Cardinality(DOMAIN reads) + 1 /\ Enter(K2Keeps[i])
  /\ NoDrop /\ UNCHANGED readVars

K2Read == At("kNext") /\ Cardinality(DOMAIN reads) = Len(K2Keeps)

K2NextLevel ==
  /\ K2Read /\ pc' = "kEnter"
  /\ \E i \in 2 .. Len(LevelSeq) : LevelSeq[i - 1] = level /\ level' = LevelSeq[i]
  /\ ReadForgotten
  /\ NoDrop /\ UNCHANGED <<dictVars, todo, isolateVars>>

K2LastLevel ==
  /\ K2Read /\ level = LevelSeq[Len(LevelSeq)] /\ Goto("kFinal")
  /\ todo' = Present
  /\ NoDrop /\ UNCHANGED <<dictVars, isolateVars, readVars>>

K2End ==
  /\ todo = {} /\ End("kFinal") /\ ReadForgotten
  /\ UNCHANGED <<dictVars, isolateVars>>

K2Next ==
  K2 \/ K2Drop \/ K2Clean \/ K2Enter \/ K2Baseline \/ K2Isolate
    \/ K2NextLevel \/ K2LastLevel \/ K2End

-----------------------------------------------------------------------------
(* The refinement mapping, as for PostgreSQL.  A command that has lost a drop *)
(* is not in a block any more that could promise anything.                   *)

Entering == pc \in {"isoDrop", "isoAdd"}
Leaving == pc \in {"isoUndo", "isoRestore"}
Open == intact /\ (pc = "isoBody" \/ Leaving)

Contract == INSTANCE Isolation WITH
  Stats <- Groups, NoKeep <- NoKeep,
  on <- IF Entering THEN orig ELSE IF Leaving THEN keepSet ELSE Present,
  keep <- IF Open THEN keepSet ELSE NoKeep,
  before <- IF Open THEN orig ELSE {},
  mishaps <- faults + lost
=============================================================================
