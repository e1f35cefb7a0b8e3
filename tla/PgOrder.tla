------------------------------ MODULE PgOrder -------------------------------
(***************************************************************************)
(* solve_pg_order: PostgreSQL serves a query by its applicable statistic   *)
(* with the lowest OID, so the chosen statistics are CREATEd in an order   *)
(* that puts each query's best one before its other applicable ones.       *)
(***************************************************************************)
EXTENDS PgOffers

VARIABLES
  sorted,    \* how many statistics the topological sort placed
  acyclic    \* what the result says of the preference graph

vars == <<kahnVars, offers, phase, sorted, acyclic>>

\* Mutant: only the measured competitors have to wait.
PreferenceEdges_Measured ==
  UNION { { [from |-> Best(q), to |-> c] : c \in Measured(q) \ {Best(q)} } :
            q \in { x \in Queries : Measured(x) # {} } }

\* Every other applicable statistic of the query has to wait for its best.
PreferenceEdges ==
  UNION { { [from |-> Best(q), to |-> c] : c \in Applicable(q) \ {Best(q)} } :
            q \in { x \in Queries : Measured(x) # {} } }

TypeOK ==
  /\ KahnTypeOK
  /\ offers \in [Queries -> Offers]
  /\ phase \in {"sort", "rest", "done"}
  /\ sorted \in 0 .. NumStats
  /\ acyclic \in BOOLEAN

Init ==
  /\ offers \in [Queries -> Offers]
  /\ edges = PreferenceEdges
  /\ Sorting(edges, order, heap, indeg)
  /\ phase = "sort" /\ sorted = 0 /\ acyclic = TRUE

Sort ==
  /\ phase = "sort"
  /\ PopSource
  /\ sorted' = sorted + 1
  /\ UNCHANGED <<offers, phase, acyclic>>

\* Mutant: what the sort could not place is left out of the order.
Remaining_Dropped == {}

Remaining == Unplaced

SortEnds ==
  /\ phase = "sort" /\ heap = {}
  /\ phase' = "rest"
  /\ acyclic' = (Remaining = {})
  /\ UNCHANGED <<kahnVars, offers, sorted>>

\* What a cycle holds back is appended by index.
AppendRest ==
  /\ phase = "rest" /\ Remaining # {}
  /\ order' = Append(order, Least(Remaining))
  /\ UNCHANGED <<edges, heap, indeg, offers, phase, sorted, acyclic>>

Return ==
  /\ phase = "rest" /\ Remaining = {}
  /\ phase' = "done"
  /\ UNCHANGED <<kahnVars, offers, sorted, acyclic>>

Returned == phase = "done" /\ UNCHANGED vars

Next == Sort \/ SortEnds \/ AppendRest \/ Return \/ Returned
Spec == Init /\ [][Next]_vars

-----------------------------------------------------------------------------
(* Properties. *)

Served(q) == FirstOf(Applicable(q))

\* Every chosen statistic is created, and created once.
OrderComplete ==
  phase = "done" => /\ Len(order) = NumStats
                    /\ \A i \in Stats : \E p \in DOMAIN order : order[p] = i

\* The order keeps its promise query by query, also when the preferences of
\* others conflict: whoever's best statistic the topological sort could place
\* is served by it.
SortedBestServes ==
  phase = "done" =>
    \A q \in Queries :
       Measured(q) # {} /\ (\E p \in 1 .. sorted : order[p] = Best(q)) =>
         Served(q) = Best(q)

\* "A topological order (when acyclic) guarantees every query is served by its
\* best applicable colset."
AcyclicServesBest ==
  phase = "done" /\ acyclic =>
    \A q \in Queries : Measured(q) # {} => Served(q) = Best(q)

\* The flag tells the truth: the sort gets stuck exactly on a real conflict.
AcyclicExact == phase = "done" => (acyclic <=> ~ HasCycle(PreferenceEdges))
=============================================================================
