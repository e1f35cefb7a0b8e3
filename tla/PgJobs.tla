------------------------------- MODULE PgJobs -------------------------------
(***************************************************************************)
(* The three kinds of command composed over one table: a block under       *)
(* isolate, a maintenance fit and a deployment follow each other, and any  *)
(* of them may be cut short.                                               *)
(***************************************************************************)
EXTENDS PgIsolate, MaintFitPg, DeployPg

vars == <<tableVars, sessionVars, isolateVars, fitVars, deployVars>>

TypeOK ==
  /\ TableTypeOK /\ SessionTypeOK
  /\ keepSet \subseteq Stats /\ presentOrig \subseteq Stats
  /\ ToSet(plan) \subseteq Slots

Init == SessionInit /\ IsolateInit /\ FitInit /\ DeployInit

Isolating == IsolateNext /\ UNCHANGED <<fitVars, deployVars>>
Fitting == FitNext /\ UNCHANGED <<isolateVars, deployVars>>
Deploying == DeployNext /\ UNCHANGED <<isolateVars, fitVars>>
CutShort ==
  /\ Interrupted
  /\ IsolateForgotten /\ FitForgotten /\ DeployForgotten
  /\ UNCHANGED maint
AllRun == job = NoJob /\ runs = MaxRuns /\ UNCHANGED vars

Next == Isolating \/ Fitting \/ Deploying \/ CutShort \/ AllRun

Spec == Init /\ [][Next]_vars

-----------------------------------------------------------------------------
(* Properties. *)

\* Backend.isolate keeps its contract between any two commands, whatever the
\* ones before have left on the table, unless it is itself cut short.
ImplementsIsolation == Contract!Spec

\* What the fit writes as the marginal cost is that of its own probes: the two
\* arms of a level differ by exactly these, and read the same number of rows.
MarginalIsOfTheProbesAt(l) ==
  LET arm == maint.at[l] IN
    arm.withk # NoReading =>
      /\ arm.withk.maintains \ arm.bare.maintains = ProbesAt[l]
      /\ arm.withk.rows = arm.bare.rows

\* It is so whenever the fit began on a table without probes of an earlier one,
\* also after other commands were cut short.
MarginalIsOfTheProbes ==
  maint # NoReading /\ ~maint.scruff =>
    \A l \in Levels : MarginalIsOfTheProbesAt(l)

\* The bare arm is timed with no extended statistic present.
BareArmIsBare ==
  maint # NoReading => \A l \in Levels : maint.at[l].bare.maintains = {}

\* Whatever was left on the mirror, each query of a deployment is served by the
\* first applicable statistic of the plan that ANALYZE gave data, or by none.
PlannedServer(p, q) ==
  FirstOf(p, { s \in Slots : /\ s.cand \in CandsOf[q]
                             /\ \E e \in explained.saw.live : e.stat = s })
DeployedAsOrdered ==
  explained # NoSuch =>
    \A q \in Queries : explained.server[q] = PlannedServer(plan, q)

\* A deployment that enters the sampling state and leaves the columns alone is
\* read in the state its statistics were measured in: columns at the level's
\* target, every statistic at its own parameter over the level's rows.
DeployedInLevelState ==
  explained # NoSuch /\ script = "order" =>
    /\ explained.saw.single = [target |-> TargetForLevel(level),
                               rows |-> RowsAt(TargetForLevel(level))]
    /\ \A e \in explained.saw.live :
          e.payload = [param |-> e.stat.param,
                       rows |-> RowsAt(TargetForLevel(level))]
=============================================================================
