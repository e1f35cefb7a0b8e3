------------------------------ MODULE SolveIlp ------------------------------
(***************************************************************************)
(* solve_ilp: a call is rejected or solved, and what the solver answers is *)
(* decoded.  The solver may return any optimal solution of the program.    *)
(***************************************************************************)
EXTENDS IlpProgram

CONSTANT Calls   \* arguments solve_ilp is called with

ASSUME SolveIlpAssumption == \A a \in Calls : IsCall(a)

VARIABLES
  call,     \* the arguments of the call
  stage,    \* "called", "raised", "solved" or "returned"
  sol,      \* the solver's y (created), x (query -> selected), w (indicators)
  result    \* the ILPResult

ilpVars == <<call, stage, sol, result>>

-----------------------------------------------------------------------------
IlpInit ==
  /\ call \in Calls
  /\ stage = "called" /\ sol = None /\ result = None

\* ValueError for a bad profile or a sparse call without cap 1, TypeError for a
\* profile without a budget.
RefuseCall ==
  /\ stage = "called" /\ Malformed(call)
  /\ stage' = "raised"
  /\ UNCHANGED <<call, sol, result>>

Solve ==
  /\ stage = "called" /\ ~ Malformed(call)
  /\ stage' = "solved"
  /\ \E f \in Optimal(call) :
     \E w \in (IF UseProfile(call) THEN IndicatorSets(call, f.y) ELSE {{}}) :
        sol' = [y |-> f.y, x |-> f.x, w |-> w]
  /\ UNCHANGED <<call, result>>

Decoded ==
  [selected |-> sol.y,
   bytes    |-> Bytes(call, sol.y),
   maint    |-> VarCost(call, sol.y)
                  + (IF UseProfile(call) THEN FixedCharge(call, sol.w) ELSE 0),
   qerr     |-> [q \in Workload(call) |-> DecodedError(call, sol.x, q)],
   chosen   |-> sol.x]

Decode ==
  /\ stage = "solved"
  /\ stage' = "returned"
  /\ result' = Decoded
  /\ UNCHANGED <<call, sol>>

IlpEnded == stage \in {"raised", "returned"} /\ UNCHANGED ilpVars

IlpNext == RefuseCall \/ Solve \/ Decode \/ IlpEnded
IlpSpec == IlpInit /\ [][IlpNext]_ilpVars

-----------------------------------------------------------------------------
(* Properties. *)

\* The result's numbers are what they stand for; no surrogate falls below one.
IlpTypeOK ==
  /\ call \in Calls
  /\ stage \in {"called", "raised", "solved", "returned"}
  /\ stage = "returned" =>
       /\ result.selected \subseteq PhysStats(call)
       /\ result.bytes \in 0 .. call.bytes /\ result.maint \in Nat
       /\ result.qerr \in [Workload(call) -> Nat]

\* The program with its selection variables and indicators finds exactly the
\* best deployment, and what is decoded is what it was credited for.
OptimalDeployment ==
  stage = "returned" =>
    SumFunction([q \in Workload(call) |->
                   call.weight[q] * (call.base[q] - result.qerr[q])])
      = Max({ Worth(call, D) : D \in { E \in SUBSET PhysStats(call) : Deployable(call, E) } })

\* With cap 1 the reported error of a query that counts is the error of the
\* best statistic that was created for anyone, or its baseline.
ServedByBestCreated ==
  stage = "returned" /\ call.class = "sparse" =>
    \A q \in Workload(call) : call.weight[q] > 0 =>
       result.qerr[q] =
         Min({call.base[q]} \cup
             { call.err[q][s] : s \in result.selected \cap Options(call, q) })

\* Whatever indicators the solver left on without need: the budget holds for
\* what is deployed, and the report never falls short of it.
ReportCoversMaintenance ==
  stage = "returned" /\ UseProfile(call) =>
    /\ Maintenance(call, result.selected) <= call.maint
    /\ Maintenance(call, result.selected) <= result.maint
=============================================================================
