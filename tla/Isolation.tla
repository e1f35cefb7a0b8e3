----------------------------- MODULE Isolation ------------------------------
(***************************************************************************)
(* What Backend.isolate promises whoever writes                            *)
(* "with backend.isolate(keep, table)": inside the block exactly the       *)
(* statistics to keep are on the table, and when the block is left the     *)
(* table carries the statistics it carried before.  A block on whose way   *)
(* in or out a call raises, or that dies, promises nothing any more; the   *)
(* next one does.                                                          *)
(***************************************************************************)
EXTENDS Naturals

CONSTANTS
  Stats,   \* what can be on the table
  NoKeep   \* no block is open

VARIABLES
  on,      \* the statistics on the table
  keep,    \* what the open block keeps
  before,  \* what was on the table when the block was entered
  mishaps  \* calls that raised and commands that died so far

vars == <<on, keep, before, mishaps>>

Init == on \in SUBSET Stats /\ keep = NoKeep /\ before = {} /\ mishaps = 0

Enter ==
  /\ keep = NoKeep
  /\ keep' # NoKeep /\ keep' \subseteq Stats
  /\ on' = keep' /\ before' = on
  /\ UNCHANGED mishaps

Leave ==
  /\ keep # NoKeep
  /\ on' = before
  /\ keep' = NoKeep /\ before' = {}
  /\ UNCHANGED mishaps

\* Outside of a block the table is anybody's.
Elsewhere == keep = NoKeep /\ UNCHANGED <<keep, before, mishaps>>

Abandon == mishaps' # mishaps /\ keep' = NoKeep /\ before' = {}

Next == Enter \/ Leave \/ Elsewhere \/ Abandon

Spec == Init /\ [][Next]_vars
=============================================================================
