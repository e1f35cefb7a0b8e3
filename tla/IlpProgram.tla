----------------------------- MODULE IlpProgram -----------------------------
(***************************************************************************)
(* build_problem and the integer program of solve_ilp, as operators of the *)
(* arguments of a call: which statistics may be created under a storage    *)
(* and a maintenance budget, and what a selection is credited for.         *)
(* SolveIlp is the call that solves it, SgridSearch the commands that make *)
(* such calls.  q-errors are integers: plain ones for the exact arithmetic *)
(* mean (cap 1), logarithms for the geometric surrogate.                   *)
(***************************************************************************)
EXTENDS Integers, Sequences, FiniteSets, FiniteSetsExt

CONSTANT None   \* an optional argument left out

ASSUME NoneAssumption == None \notin Nat

\* The measured physical statistics and the queries of a call.
Candidates(in) == DOMAIN in.table
Workload(in) == DOMAIN in.base

\* build_problem leaves out the readings no better than the baseline, and the
\* statistics that only have such readings.
Options(in, q) == { s \in DOMAIN in.err[q] : in.err[q][s] < in.base[q] }
Helpful(in) == UNION { Options(in, q) : q \in Workload(in) }

\* phys_stats.  A caller may ask about some of the queries only and still pass
\* the statistics of all of them.
PhysStats(in) == in.phys

\* What solve_ilp is called with: the statistics with their table, columns,
\* level, bytes and variable cost, the queries with their baselines, weights and
\* readings, and the budgets, caps and modes.
IsCall(in) ==
  /\ IsFiniteSet(Candidates(in)) /\ IsFiniteSet(Workload(in))
  /\ PhysStats(in) \subseteq Candidates(in) /\ Helpful(in) \subseteq PhysStats(in)
  /\ in.level \in [Candidates(in) -> Nat]
  /\ in.class \in {"sparse", "multiplicative"} /\ in.disjoint \in BOOLEAN
  /\ in.cap \in Nat \cup {None} /\ in.maint \in Nat \cup {None} /\ in.bytes \in Nat
  /\ in.cost \in [Candidates(in) -> Nat] /\ in.var \in [Candidates(in) -> Nat]
  /\ in.base \in [Workload(in) -> Nat] /\ in.weight \in [Workload(in) -> Nat]
  /\ \A q \in Workload(in) :
       /\ DOMAIN in.err[q] \subseteq Candidates(in)
       /\ \A s \in DOMAIN in.err[q] : in.err[q][s] \in Nat
       \* a plain q-error is at least one
       /\ in.class = "sparse" =>
            in.base[q] > 0 /\ \A s \in DOMAIN in.err[q] : in.err[q][s] > 0
  /\ \A t \in DOMAIN in.ladder : in.ladder[t] \in Seq(Nat)

-----------------------------------------------------------------------------
(* What a selection is credited for, and which statistics exclude each other. *)

Improvement(in, q) == [s \in DOMAIN in.err[q] |-> in.base[q] - in.err[q][s]]
Gain(in, q, S) == SumFunctionOnSet(Improvement(in, q), S)
Credit(in, x) == SumFunction([q \in Workload(in) |-> in.weight[q] * Gain(in, q, x[q])])

Overlap(in, s, t) == s # t /\ in.columns[s] \cap in.columns[t] # {}
SameCombo(in, s, t) ==
  s # t /\ in.table[s] = in.table[t] /\ in.columns[s] = in.columns[t]

-----------------------------------------------------------------------------
(* The maintenance profile: a fixed charge per table at the highest level  *)
(* created on it, raised step by step by indicators <<table, level>>.      *)

UseProfile(in) == DOMAIN in.ladder # {}
Priced(in) == { in.table[s] : s \in PhysStats(in) } \cap DOMAIN in.ladder
TopLevel(in, t) == Max({ in.level[s] : s \in { p \in PhysStats(in) : in.table[p] = t } })
Indicators(in) == UNION { {t} \X (0 .. TopLevel(in, t)) : t \in Priced(in) }

Monotone(tiers) == \A i, j \in DOMAIN tiers : i <= j => tiers[i] <= tiers[j]
Covered(in, t) == \A s \in PhysStats(in) : in.table[s] = t => in.level[s] < Len(in.ladder[t])

\* Mutant: every reached level is charged in full.
Increment_Full(in, t, l) == in.ladder[t][l + 1]

\* What raising the table to level l adds to its charge.
Increment(in, t, l) ==
  IF l = 0 THEN in.ladder[t][1] ELSE in.ladder[t][l + 1] - in.ladder[t][l]

\* Mutant: a statistic switches on the indicator of its own level only.
Triggered_OwnLevel(in, s) ==
  IF in.table[s] \in Priced(in) THEN {<<in.table[s], in.level[s]>>} ELSE {}

\* The indicators a created statistic switches on.
Triggered(in, s) ==
  IF in.table[s] \in Priced(in) THEN {in.table[s]} \X (0 .. in.level[s]) ELSE {}

VarCost(in, y) == SumFunctionOnSet(in.var, y)
Charge(in, w) == SumFunction([i \in w |-> Increment(in, i[1], i[2])])

IndicatorSets(in, y) ==
  { w \in SUBSET Indicators(in) :
      /\ \A s \in y : Triggered(in, s) \subseteq w
      /\ Charge(in, w) + VarCost(in, y) <= in.maint }
AdditiveBudget(in, y) ==
  in.maint # None /\ in.maint > 0 => VarCost(in, y) <= in.maint

-----------------------------------------------------------------------------
(* The other rows. *)

Bytes(in, y) == SumFunctionOnSet(in.cost, y)

Creatable(in, y) ==
  /\ Bytes(in, y) <= in.bytes
  /\ \A s, t \in y : ~ SameCombo(in, s, t)
  /\ in.disjoint => \A s, t \in y : ~ Overlap(in, s, t)
  /\ IF UseProfile(in) THEN IndicatorSets(in, y) # {} ELSE AdditiveBudget(in, y)

\* Mutant: one cap for the whole workload.
WithinCap_Total(in, x) ==
  in.cap # None =>
    MapThenSumSet(LAMBDA q : Cardinality(x[q]), Workload(in)) <= in.cap

WithinCap(in, x) == in.cap # None => \A q \in Workload(in) : Cardinality(x[q]) <= in.cap

OverlapFree(in, S) == \A s, t \in S : ~ Overlap(in, s, t)

\* The surrogate of a query stays at or above one.
AboveFloor(in, q, S) == Gain(in, q, S) <= in.base[q]

Selectable(in, x) ==
  /\ WithinCap(in, x)
  /\ in.class = "multiplicative" =>
       \A q \in Workload(in) : OverlapFree(in, x[q]) /\ AboveFloor(in, q, x[q])

\* x_is <= y_s
Selections(in, y) ==
  { x \in [Workload(in) -> SUBSET (y \cap Helpful(in))] :
      \A q \in Workload(in) : x[q] \subseteq Options(in, q) }

Feasible(in) ==
  UNION { { [y |-> y, x |-> x] : x \in { z \in Selections(in, y) : Selectable(in, z) } } :
            y \in { z \in SUBSET PhysStats(in) : Creatable(in, z) } }
Optimal(in) ==
  LET best == Max({ Credit(in, f.x) : f \in Feasible(in) })
  IN  { f \in Feasible(in) : Credit(in, f.x) = best }

\* The calls the code rejects.
Malformed(in) ==
  \/ UseProfile(in) /\ \E t \in DOMAIN in.ladder :
                      ~ Monotone(in.ladder[t]) \/ ~ Covered(in, t)
  \/ in.class = "sparse" /\ in.cap # 1
  \/ UseProfile(in) /\ in.maint = None

-----------------------------------------------------------------------------
(* The answer. *)

\* What total_maint reads off the indicators w: the level a table has reached,
\* and the charges of the tables they switch on.
Reached(w, t) == Max({ i[2] : i \in { j \in w : j[1] = t } } \cup {0})
FixedCharge(in, w) ==
  SumFunction([ t \in { u \in Priced(in) : <<u, 0>> \in w } |->
                  in.ladder[t][Reached(w, t) + 1] ])

\* The q-error reported for a query to which x selects statistics.
DecodedError(in, x, q) ==
  LET e == in.base[q] - Gain(in, q, x[q])
  IN  IF in.class = "sparse" THEN Max({e, 1}) ELSE e

-----------------------------------------------------------------------------
(* The reference: deploy D, and let every query help itself to the best it   *)
(* may use of it.                                                            *)

\* "The total deployed maintenance of a selected set": the table's charge at
\* the highest level created on it, plus what each statistic adds.
HighestOn(in, D, t) == Max({ in.level[s] : s \in { d \in D : in.table[d] = t } })
Maintenance(in, D) ==
  VarCost(in, D) + SumFunction(
    [ t \in { in.table[s] : s \in D } \cap DOMAIN in.ladder |->
        in.ladder[t][HighestOn(in, D, t) + 1] ])

Deployable(in, D) ==
  /\ Bytes(in, D) <= in.bytes
  /\ \A s, t \in D : ~ SameCombo(in, s, t) /\ (in.disjoint => ~ Overlap(in, s, t))
  /\ in.maint # None => Maintenance(in, D) <= in.maint
Usable(in, q, S) ==
  /\ in.cap # None => Cardinality(S) <= in.cap
  /\ in.class = "multiplicative" =>
       /\ \A s, t \in S : ~ Overlap(in, s, t)
       /\ Gain(in, q, S) <= in.base[q]
BestUse(in, q, D) ==
  Max({ Gain(in, q, S) : S \in { U \in SUBSET (D \cap Options(in, q)) : Usable(in, q, U) } })
Worth(in, D) == SumFunction([q \in Workload(in) |-> in.weight[q] * BestUse(in, q, D)])
=============================================================================
