------------------------------ MODULE DeployPg ------------------------------
(***************************************************************************)
(* The scripts that create a chosen set of statistics on a mirror          *)
(* database and EXPLAIN the workload there: e2e_deploy_census builds them  *)
(* with the backend's batch, deploy_phase2_order creates them in the       *)
(* solved order with its own ALTER and ANALYZE, e2e_stceb_single does the  *)
(* latter without entering the sampling state.                             *)
(***************************************************************************)
EXTENDS PgSession

CONSTANTS
  Scripts,    \* subset of {"census", "order", "stceb"}
  NoSuch      \* no statistic, no plan

VARIABLES
  script,     \* the script that is running
  plan,       \* the statistics to deploy, in CREATE order
  explained   \* what EXPLAIN showed of the deployment

deployVars == <<script, plan, explained>>

DeployInit == script = NoSuch /\ plan = << >> /\ explained = NoSuch

DeployForgotten ==
  script' = NoSuch /\ plan' = << >> /\ explained' = NoSuch

\* The optimiser takes at most one parameter of a column set.
Choosable(l) == { s \in Slots : s.level = l /\ s.param <= TargetForLevel(l) }
Plans(l) == UNION { SetToSeqs(S) : S \in
              { D \in SUBSET Choosable(l) : \A s, t \in D : s.cand = t.cand => s = t } }

Deploy ==
  /\ "deploy" \in Jobs
  /\ \E x \in Scripts :
        /\ Start("deploy", IF x = "stceb" THEN "depList" ELSE "depEnter")
        /\ script' = x
  /\ \E l \in Levels : level' = l /\ plan' \in Plans(l)
  /\ UNCHANGED <<tableVars, born, todo, explained>>

EnterDeployLevel ==
  /\ At("depEnter") /\ pc' = "depList"
  /\ EnterSamplingState(level)
  /\ UNCHANGED <<level, todo, pinned, deployVars>>

ListLeftovers ==
  /\ At("depList") /\ pc' = "depDrop"
  /\ todo' = installed
  /\ UNCHANGED <<tableVars, level, born, pinned, deployVars>>

DropLeftover ==
  /\ At("depDrop") /\ UNCHANGED deployVars
  /\ \E s \in todo : Drop(s)

Chosen == ToSet(plan)

FirstOf(seq, S) ==
  LET i == SelectInSeq(seq, LAMBDA s : s \in S) IN IF i = 0 THEN NoSuch ELSE seq[i]

LeftoversDropped ==
  /\ At("depDrop") /\ todo = {}
  /\ pc' = "depCreate" /\ todo' = Chosen
  /\ UNCHANGED <<tableVars, level, born, pinned, deployVars>>

\* Mutant: the loop runs over the statistics in any order.
CreateChosen_AnyOrder ==
  /\ At("depCreate") /\ UNCHANGED deployVars
  /\ \E s \in todo : Create(s)

\* The first of the plan that is not created yet.
CreateChosen ==
  /\ At("depCreate") /\ todo # {} /\ UNCHANGED deployVars
  /\ Create(FirstOf(plan, todo))

\* Each statistic at its own parameter; only the batch pins the columns.
OwnTargets == [s \in Stats |-> IF s \in Chosen THEN s.param ELSE target[s]]
Batched == script = "census" /\ plan # << >>
DeployColumns == IF Batched THEN PinnedColumns ELSE colTarget

\* Mutant: the scripts ANALYZE before the parameters are set.
BuildChosen_NoTarget ==
  /\ At("depCreate") /\ todo = {} /\ pc' = "depExplain"
  /\ IF script = "census" /\ plan = << >> THEN UNCHANGED <<tableVars, born>>
     ELSE AnalyzeWith(DeployColumns, target)
  /\ pinned' = (pinned \/ Batched)
  /\ UNCHANGED <<level, todo, deployVars>>

\* One ANALYZE builds them all.  An empty batch has no table to ANALYZE.
BuildChosen ==
  /\ At("depCreate") /\ todo = {} /\ pc' = "depExplain"
  /\ IF script = "census" /\ plan = << >> THEN UNCHANGED <<tableVars, born>>
     ELSE AnalyzeWith(DeployColumns, OwnTargets)
  /\ pinned' = (pinned \/ Batched)
  /\ UNCHANGED <<level, todo, deployVars>>

\* The planner takes the first applicable statistic by OID that has data.
Server(q) ==
  FirstOf(born, { s \in Stats : payload[s] # Null /\ (s \in Slots => s.cand \in CandsOf[q]) })

Explain ==
  /\ At("depExplain") /\ pc' = "depReport"
  /\ explained' = [saw |-> Seen, server |-> [q \in Queries |-> Server(q)]]
  /\ UNCHANGED <<tableVars, level, todo, born, pinned, script, plan>>

\* The comparison with the prediction is written, and nothing is dropped.
Report ==
  /\ End("depReport")
  /\ DeployForgotten
  /\ UNCHANGED <<tableVars, born>>

DeployNext ==
  Deploy \/ EnterDeployLevel \/ ListLeftovers \/ DropLeftover \/ LeftoversDropped
    \/ CreateChosen \/ BuildChosen \/ Explain
    \/ Report
=============================================================================
