----------------------------- MODULE PgOrderFb ------------------------------
(***************************************************************************)
(* solve_pg_order_fb: the CREATE order by a greedy feedback-arc cut.  Kahn *)
(* sorts the preference graph; when it gets stuck, the cheapest edge among *)
(* the statistics it could not place is removed and the sort begins again. *)
(***************************************************************************)
EXTENDS PgOffers, FiniteSetsExt

ASSUME PgOrderFbAssumption == IsFiniteSet(Queries)

VARIABLE cut   \* removed_edges

fbVars == <<kahnVars, offers, phase, cut>>

\* The other statistics that could serve the query, by its own measurements.
Rivals(q) == Measured(q) \ {Best(q)}

\* What the query loses when its second best statistic serves it.
Loss(q) == Min({ offers[q][c] : c \in Rivals(q) }) - offers[q][Best(q)]

\* children[best].append(c), once for every query that asks for it.
Preferences(q) ==
  { [from |-> Best(q), to |-> c, of |-> q] : c \in Rivals(q) }
Choosy == { q \in Queries : Cardinality(Measured(q)) >= 2 }
RivalEdges == UNION { Preferences(q) : q \in Choosy }

\* Parallel edges of several queries share the smallest of their losses.
Weight(u, v) ==
  Min({ Loss(e.of) : e \in { d \in RivalEdges : d.from = u /\ d.to = v } })

FbTypeOK ==
  /\ KahnTypeOK
  /\ offers \in [Queries -> Offers]
  /\ phase \in {"sort", "done"}
  /\ cut \subseteq RivalEdges /\ edges = RivalEdges \ cut

FbInit ==
  /\ offers \in [Queries -> Offers]
  /\ edges = RivalEdges
  /\ Sorting(edges, order, heap, indeg)
  /\ phase = "sort" /\ cut = {}

FbSort ==
  /\ phase = "sort"
  /\ PopSource
  /\ UNCHANGED <<offers, phase, cut>>

\* Edges with both ends in what the sort could not place.
ResidueEdges == { e \in edges : e.from \in Unplaced /\ e.to \in Unplaced }
Cheapest ==
  LET least == Min({ Weight(e.from, e.to) : e \in ResidueEdges })
  IN  { e \in ResidueEdges : Weight(e.from, e.to) = least }

\* One copy of the edge goes, and everything is sorted again.  Ties fall to
\* whichever edge the iteration over a set of integers meets first.
CutEdge(e) ==
  /\ edges' = edges \ {e}
  /\ cut' = cut \cup {e}
  /\ Sorting(edges', order', heap', indeg')
  /\ UNCHANGED <<offers, phase>>

\* The code also returns if there is nothing to cut; a deadlock would show it.
CutCheapest ==
  /\ phase = "sort" /\ heap = {} /\ Unplaced # {} /\ ResidueEdges # {}
  /\ \E e \in Cheapest : CutEdge(e)

FbReturn ==
  /\ phase = "sort" /\ heap = {} /\ Unplaced = {}
  /\ phase' = "done"
  /\ UNCHANGED <<kahnVars, offers, cut>>

FbReturned == phase = "done" /\ UNCHANGED fbVars

FbNext == FbSort \/ CutCheapest \/ FbReturn \/ FbReturned
FbSpec == FbInit /\ [][FbNext]_fbVars

-----------------------------------------------------------------------------
(* Properties. *)

\* A query pays only for its own cut edges: a measured statistic that comes
\* before the query's best one does so because the query's preference for the
\* best over it, and that of every query that shares it, was cut.
OnlyCutPreferencesYield ==
  phase = "done" =>
    \A q \in Choosy : \A c \in Rivals(q) :
       Pos(c) < Pos(Best(q)) =>
         { e \in RivalEdges : e.from = Best(q) /\ e.to = c } \subseteq cut

\* "acyclic": nothing is cut from a graph that has no cycle, and something is
\* from one that has.
CutsIffCyclic == phase = "done" => (cut = {} <=> ~ HasCycle(RivalEdges))

\* The cutting comes to an end, and whatever was cut, the order it returns
\* creates every statistic once.
Terminates ==
  <>(/\ phase = "done"
     /\ Len(order) = NumStats
     /\ \A i \in Stats : \E p \in DOMAIN order : order[p] = i)
=============================================================================
