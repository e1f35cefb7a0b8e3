------------------------------ MODULE PgOffers ------------------------------
(***************************************************************************)
(* What the two CREATE-order solvers start from: for every query the chosen *)
(* statistics that apply to it, the q-errors measured with them, and the    *)
(* best of those.  Both solvers share these definitions and Kahn's sort.    *)
(***************************************************************************)
EXTENDS Kahn

CONSTANTS
  Queries,      \* queries with at least one applicable chosen statistic
  Errors,       \* isolated q-errors
  Unmeasured    \* applicable, but without a q-error of its own

ASSUME PgOffersAssumption ==
  /\ Errors \subseteq Nat
  /\ Unmeasured \notin Nat

VARIABLES
  offers,   \* query -> its applicable statistics and their q-errors
  phase     \* what the solver is doing, "done" at the end

Offers == UNION { [A -> Errors \cup {Unmeasured}] : A \in (SUBSET Stats) \ {{}} }

Applicable(q) == DOMAIN offers[q]
Measured(q) == { i \in Applicable(q) : offers[q][i] # Unmeasured }

\* The lowest q-error wins, the earlier index on a tie.
Better(q, i, j) == \/ offers[q][i] < offers[q][j]
                   \/ offers[q][i] = offers[q][j] /\ i <= j
Best(q) == CHOOSE i \in Measured(q) : \A j \in Measured(q) : Better(q, i, j)
=============================================================================
