----------------------------- MODULE OracleJobs -----------------------------
(***************************************************************************)
(* All commands against one Oracle table, in any order, any of them cut    *)
(* short, and drops whose error nobody sees.                               *)
(***************************************************************************)
EXTENDS OracleCommands

vars == <<tableVars, isolateVars, readVars, commandVars>>

TypeOK ==
  /\ TableTypeOK
  /\ keepSet \subseteq Groups /\ orig \subseteq Groups /\ chosen \subseteq Groups
  /\ raising \in BOOLEAN
  /\ DOMAIN reads \subseteq SUBSET Groups

Init == TableInit /\ IsolateInit /\ ReadInit /\ CommandInit

Blocks == (IsolateNext \/ K2Next) /\ UNCHANGED commandVars
CutShort ==
  /\ Interrupted
  /\ IsolateForgotten /\ ReadForgotten /\ CommandForgotten
  /\ UNCHANGED maint
AllRun == job = NoJob /\ runs = MaxRuns /\ UNCHANGED vars

Next == Blocks \/ MeasureNext \/ FitNext \/ DeployNext \/ CutShort \/ AllRun

Spec == Init /\ [][Next]_vars

-----------------------------------------------------------------------------
(* Properties. *)

\* isolate keeps its contract, also when its block raises and whatever earlier
\* commands left, unless it is itself cut short or loses a drop.
ImplementsIsolation == Contract!Spec

\* One lost drop does not spoil the co-installation study: whatever it left,
\* every reading is made with exactly the groups it is recorded for.
ReadsExactlyKeep ==
  job = "k2" => \A K \in DOMAIN reads : Names(reads[K]) = K

\* A command that lost no drop measures every candidate alone, gathered at its
\* own parameter, whatever the commands before it have left on the table.
MeasuredAlone ==
  job \in {"measure", "worker"} /\ intact =>
    /\ base # NoReading => base.groups = {}
    /\ \A K \in DOMAIN reads :
         \E g \in K : reads[K].groups = { [name |-> g, as |-> [size |-> Param, rows |-> Depth(level)]] }

\* Same-S pairing: a candidate and its baseline are read over as many rows,
\* once the dictionary knows the size of the table.
SameDepthPairing ==
  known /\ base # NoReading =>
    \A K \in DOMAIN reads : reads[K].single = base.single

\* The arms of a fit that lost no drop differ by exactly the probes and read
\* the same rows, also when an earlier fit was killed with its probes in place.
MarginalIsOfTheProbes ==
  maint # NoReading /\ maint.intact =>
    \A l \in Levels :
      LET arm == maint.at[l] IN
        /\ arm.withk.maintains \ arm.bare.maintains = Probes
        /\ arm.withk.rows = arm.bare.rows

\* With at most one lost drop a deployment is EXPLAINed with exactly the chosen
\* groups, every one at its own parameter and all of it at the level's depth.
DeployedAsSelected ==
  job = "deploy" =>
    \A K \in DOMAIN reads :
      reads[K] = [single |-> Depth(level),
                  groups |-> { [name |-> g, as |-> [size |-> Param, rows |-> Depth(level)]] :
                                 g \in chosen }]
=============================================================================
