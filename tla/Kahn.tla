-------------------------------- MODULE Kahn --------------------------------
(***************************************************************************)
(* Kahn's topological sort as both CREATE-order solvers run it: the        *)
(* statistics with no unplaced predecessor wait in a heap, the one with    *)
(* the smallest index is placed next, and the in-degrees of its successors *)
(* drop by the number of edges that lead to them.                          *)
(***************************************************************************)
EXTENDS Integers, Sequences, FiniteSets

CONSTANT NumStats   \* n, the number of chosen statistics

ASSUME KahnAssumption == NumStats \in Nat

VARIABLES
  edges,   \* preference edges still in force: e.from before e.to
  order,   \* the statistics placed so far, in CREATE (OID) order
  heap,    \* statistics ready to be placed
  indeg    \* unplaced edges into each statistic

kahnVars == <<edges, order, heap, indeg>>

Stats == 0 .. NumStats - 1
Placed == { order[i] : i \in DOMAIN order }
Unplaced == Stats \ Placed

InDegree(E) == [v \in Stats |-> Cardinality({ e \in E : e.to = v })]
Least(S) == CHOOSE u \in S : \A v \in S : u <= v

KahnTypeOK ==
  /\ \A e \in edges : e.from \in Stats /\ e.to \in Stats
  /\ order \in Seq(Stats)
  /\ heap \subseteq Stats
  /\ indeg \in [Stats -> Nat]

\* Begin to sort the graph E.
Sorting(E, o, h, d) ==
  /\ o = << >>
  /\ d = InDegree(E)
  /\ h = { v \in Stats : d[v] = 0 }

\* Mutant: every successor's in-degree drops by one, parallel edges or not.
Lowered_ByOne(u) ==
  [v \in Stats |-> IF \E e \in edges : e.from = u /\ e.to = v
                   THEN indeg[v] - 1 ELSE indeg[v]]

\* The in-degrees once u is placed.
Lowered(u) ==
  [v \in Stats |-> indeg[v] - Cardinality({ e \in edges : e.from = u /\ e.to = v })]

\* Mutant: a successor is ready one edge too early.
Ready_Early(u) == { v \in Stats : Lowered(u)[v] <= 1 /\ indeg[v] > Lowered(u)[v] }

\* Mutant: the same, but a statistic is not placed twice.
Ready_EarlyOnce(u) == Ready_Early(u) \cap Unplaced

\* The successors of u that wait for nothing else.
Ready(u) == { v \in Stats : Lowered(u)[v] = 0 /\ indeg[v] # 0 }

PopSource ==
  /\ heap # {}
  /\ LET u == Least(heap) IN
       /\ order' = Append(order, u)
       /\ indeg' = Lowered(u)
       /\ heap' = (heap \ {u}) \cup Ready(u)
  /\ UNCHANGED edges

-----------------------------------------------------------------------------
(* What an order means. *)

Pos(i) == CHOOSE p \in DOMAIN order : order[p] = i

\* PostgreSQL uses the applicable statistic with the lowest OID.
FirstOf(S) == CHOOSE i \in S : \A j \in S : Pos(i) <= Pos(j)

\* A graph has a cycle iff some statistics all wait for one of themselves.
HasCycle(E) ==
  \E S \in SUBSET Stats :
     S # {} /\ \A v \in S : \E e \in E : e.to = v /\ e.from \in S
=============================================================================
