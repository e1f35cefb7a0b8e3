--------------------------- MODULE PgOrderProofs ----------------------------
(***************************************************************************)
(* Theorems about the two CREATE-order solvers, solve_pg_order and         *)
(* solve_pg_order_fb, for every set of chosen statistics and every         *)
(* preference profile: first what both rest on (finite sets, the best      *)
(* statistic of a query, Kahn's sort), then each solver's invariant.       *)
(***************************************************************************)
EXTENDS PgOrder, PgOrderFb, FiniteSetTheorems, WellFoundedInduction, TLAPS

-----------------------------------------------------------------------------
(* Naturals and finite sets. *)

LEMMA LeastNatural ==
  ASSUME NEW S, S \subseteq Nat, S # {}
  PROVE  Least(S) \in S /\ \A v \in S : Least(S) <= v
<1>1. PICK u \in S : \A v \in S : ~ (<<v, u>> \in OpToRel(<, Nat))
  BY WFMin, NatLessThanWellFounded
<1>2. ASSUME NEW v \in S PROVE u <= v
  <2>1. u \in Nat /\ v \in Nat
    OBVIOUS
  <2>2. ~ (v < u)
    BY <1>1, <2>1, Zenon DEF OpToRel
  <2> QED
    BY <2>1, <2>2
<1> QED
  BY <1>2 DEF Least

LEMMA StatsFinite == IsFiniteSet(Stats) /\ Cardinality(Stats) = NumStats /\ Stats \subseteq Nat
<1>1. IsFiniteSet(0 .. NumStats - 1)
      /\ Cardinality(0 .. NumStats - 1)
           = IF 0 > NumStats - 1 THEN 0 ELSE (NumStats - 1) - 0 + 1
  BY FS_Interval, KahnAssumption
<1> QED
  BY <1>1, KahnAssumption DEF Stats

LEMMA PairsFinite == IsFiniteSet([from : Stats, to : Stats])
<1> DEFINE Pairs == Stats \X Stats
           Edge == [from : Stats, to : Stats]
           f == [x \in Pairs |-> [from |-> x[1], to |-> x[2]]]
<1>1. IsFiniteSet(Pairs)
  BY StatsFinite, FS_Product
<1>2. f \in Surjection(Pairs, Edge)
  <2>1. f \in [Pairs -> Edge]
    OBVIOUS
  <2>2. ASSUME NEW e \in Edge PROVE \E x \in Pairs : f[x] = e
    <3>1. <<e.from, e.to>> \in Pairs /\ f[<<e.from, e.to>>] = e
      OBVIOUS
    <3> QED
      BY <3>1
  <2> QED
    BY <2>1, <2>2 DEF Surjection
<1> QED
  BY <1>1, <1>2, FS_Surjection

-----------------------------------------------------------------------------
(* The preference graph. *)

\* The best statistic of a query exists and is one it has been measured with.
LEMMA BestType ==
  ASSUME offers \in [Queries -> Offers], NEW q \in Queries, Measured(q) # {}
  PROVE  Best(q) \in Measured(q)
<1> DEFINE M == Measured(q)
<1>1. M \subseteq Stats /\ \A i \in M : offers[q][i] \in Nat
  <2>1. PICK A \in (SUBSET Stats) \ {{}} : offers[q] \in [A -> Errors \cup {Unmeasured}]
    BY DEF Offers
  <2> QED
    BY <2>1, PgOffersAssumption DEF Measured, Applicable
<1> DEFINE Es == { offers[q][i] : i \in M }
<1>2. Es \subseteq Nat /\ Es # {}
  BY <1>1
<1>3. PICK m \in Es : \A e \in Es : m <= e
  <2> HIDE DEF Es
  <2> QED
    BY <1>2, LeastNatural
<1> DEFINE I == { i \in M : offers[q][i] = m }
<1>4. I # {} /\ I \subseteq Nat
  BY <1>1, <1>3, StatsFinite
<1>5. PICK b \in I : \A i \in I : b <= i
  <2> HIDE DEF I
  <2> QED
    BY <1>4, LeastNatural
<1>6. \A j \in M : Better(q, b, j)
  BY <1>1, <1>2, <1>3, <1>5 DEF Better
<1>7. b \in M
  BY <1>5
<1> QED
  BY <1>6, <1>7 DEF Best

LEMMA PreferenceEdgesType ==
  ASSUME offers \in [Queries -> Offers]
  PROVE  PreferenceEdges \subseteq [from : Stats, to : Stats]
<1> SUFFICES ASSUME NEW q \in Queries, Measured(q) # {},
                    NEW c \in Applicable(q) \ {Best(q)}
             PROVE  [from |-> Best(q), to |-> c] \in [from : Stats, to : Stats]
  BY DEF PreferenceEdges
<1>1. Best(q) \in Applicable(q)
  BY BestType DEF Measured
<1>2. Applicable(q) \subseteq Stats
  BY DEF Offers, Applicable
<1> QED
  BY <1>1, <1>2

-----------------------------------------------------------------------------
(* Kahn's sort. *)

Waiting(v) == { e \in edges : e.to = v /\ e.from \notin Placed }

\* Positions 1 .. k of the order respect every edge.
Respected(k) ==
  \A e \in edges : \A p \in 1 .. k :
     order[p] = e.to => \E r \in 1 .. (p - 1) : order[r] = e.from
Distinct == \A p, r \in DOMAIN order : order[p] = order[r] => p = r

KahnInv ==
  /\ KahnTypeOK
  /\ IsFiniteSet(edges)
  /\ Distinct
  /\ \A v \in Stats : indeg[v] = Cardinality(Waiting(v))
  /\ heap = { v \in Unplaced : indeg[v] = 0 }
  /\ Respected(Len(order))

LEMMA SubsetOfEdges ==
  ASSUME IsFiniteSet(edges), NEW S, S \subseteq edges
  PROVE  IsFiniteSet(S) /\ Cardinality(S) \in Nat /\ (Cardinality(S) = 0 <=> S = {})
BY FS_Subset, FS_CardinalityType, FS_EmptySet

LEMMA SortingInv ==
  ASSUME \A e \in edges : e.from \in Stats /\ e.to \in Stats, IsFiniteSet(edges),
         Sorting(edges, order, heap, indeg)
  PROVE  KahnInv
<1>1. Placed = {} /\ DOMAIN order = {} /\ Len(order) = 0 /\ order \in Seq(Stats)
  BY DEF Sorting, Placed
<1>2. \A v \in Stats : Waiting(v) = { e \in edges : e.to = v }
  BY <1>1 DEF Waiting
<1>3. \A v \in Stats : indeg[v] = Cardinality(Waiting(v))
  BY <1>2 DEF Sorting, InDegree
<1>4. \A v \in Stats : Cardinality({ e \in edges : e.to = v }) \in Nat
  <2> SUFFICES ASSUME NEW v \in Stats
               PROVE  Cardinality({ e \in edges : e.to = v }) \in Nat
    OBVIOUS
  <2> DEFINE Into == { e \in edges : e.to = v }
  <2>1. Into \subseteq edges
    OBVIOUS
  <2> HIDE DEF Into
  <2>2. Cardinality(Into) \in Nat
    BY <2>1, SubsetOfEdges
  <2> QED
    BY <2>2 DEF Into
<1>5. indeg \in [Stats -> Nat]
  BY <1>4 DEF Sorting, InDegree
<1>6. heap = { v \in Unplaced : indeg[v] = 0 }
  BY <1>1 DEF Sorting, Unplaced
<1>7. KahnTypeOK
  BY <1>1, <1>5, <1>6 DEF KahnTypeOK, Unplaced
<1>8. Respected(Len(order)) /\ Distinct
  BY <1>1 DEF Respected, Distinct
<1> QED
  BY <1>3, <1>6, <1>7, <1>8 DEF KahnInv

LEMMA AppendPlaces ==
  ASSUME order \in Seq(Stats), NEW u \in Stats, order' = Append(order, u)
  PROVE  /\ order' \in Seq(Stats) /\ Len(order') = Len(order) + 1
         /\ Len(order) \in Nat /\ DOMAIN order = 1 .. Len(order)
         /\ DOMAIN order' = 1 .. Len(order) + 1
         /\ \A p \in 1 .. Len(order) : order'[p] = order[p]
         /\ order'[Len(order) + 1] = u
         /\ Placed' = Placed \cup {u}
<1>1. /\ order' \in Seq(Stats) /\ Len(order') = Len(order) + 1
      /\ Len(order) \in Nat /\ DOMAIN order = 1 .. Len(order)
      /\ DOMAIN order' = 1 .. Len(order) + 1
      /\ \A p \in 1 .. Len(order) : order'[p] = order[p]
      /\ order'[Len(order) + 1] = u
  OBVIOUS
<1>2. Placed' = { order'[i] : i \in 1 .. Len(order) + 1 }
  BY <1>1 DEF Placed
<1>3. Placed = { order[i] : i \in 1 .. Len(order) }
  BY <1>1 DEF Placed
<1>4. Placed' = Placed \cup {u}
  BY <1>1, <1>2, <1>3
<1> QED
  BY <1>1, <1>4

LEMMA AppendDistinct ==
  ASSUME order \in Seq(Stats), Distinct, NEW u \in Unplaced,
         order' = Append(order, u)
  PROVE  Distinct'
<1>1. u \in Stats /\ u \notin Placed
  BY DEF Unplaced
<1>2. \A p \in 1 .. Len(order) : order[p] # u
  BY <1>1 DEF Placed
<1> QED
  BY <1>1, <1>2, AppendPlaces DEF Distinct

LEMMA PopSourceInv ==
  ASSUME KahnInv, PopSource
  PROVE  /\ KahnInv'
         /\ Len(order') = Len(order) + 1
         /\ Placed' \subseteq Stats
<1> DEFINE u == Least(heap)
           Gone(v) == { e \in edges : e.from = u /\ e.to = v }
<1>1. u \in heap /\ u \in Unplaced /\ u \in Stats /\ indeg[u] = 0
  <2>1. heap \subseteq Nat /\ heap # {}
    BY StatsFinite DEF KahnInv, KahnTypeOK, PopSource
  <2> QED
    BY <2>1, LeastNatural DEF KahnInv, Unplaced
<1>2. /\ order' = Append(order, u) /\ edges' = edges
      /\ indeg' = Lowered(u) /\ heap' = (heap \ {u}) \cup Ready(u)
  BY DEF PopSource
<1> HIDE DEF u
<1>3. order \in Seq(Stats) /\ Distinct /\ indeg \in [Stats -> Nat]
  BY DEF KahnInv, KahnTypeOK
<1>4. /\ order' \in Seq(Stats) /\ Len(order') = Len(order) + 1
      /\ Len(order) \in Nat /\ DOMAIN order = 1 .. Len(order)
      /\ DOMAIN order' = 1 .. Len(order) + 1
      /\ \A p \in 1 .. Len(order) : order'[p] = order[p]
      /\ order'[Len(order) + 1] = u
      /\ Placed' = Placed \cup {u}
  BY <1>1, <1>2, <1>3, AppendPlaces
<1>5. Distinct'
  BY <1>1, <1>2, <1>3, AppendDistinct
<1>6. ASSUME NEW v \in Stats
      PROVE  /\ indeg'[v] = Cardinality(Waiting(v)')
             /\ indeg'[v] \in Nat /\ indeg'[v] <= indeg[v]
  <2>1. Waiting(v) \subseteq edges /\ Gone(v) \subseteq Waiting(v)
    BY <1>1 DEF Waiting, Unplaced
  <2>2. Waiting(v)' = Waiting(v) \ Gone(v)
    BY <1>2, <1>4 DEF Waiting
  <2>3. IsFiniteSet(Waiting(v)) /\ Cardinality(Waiting(v)) \in Nat
    BY <2>1, SubsetOfEdges DEF KahnInv
  <2>4. Waiting(v) \cap Gone(v) = Gone(v)
    BY <2>1
  <2>5. Cardinality(Waiting(v) \ Gone(v)) = Cardinality(Waiting(v)) - Cardinality(Gone(v))
        /\ IsFiniteSet(Waiting(v) \ Gone(v))
    <3> HIDE DEF Gone
    <3>1. Cardinality(Waiting(v) \ Gone(v))
            = Cardinality(Waiting(v)) - Cardinality(Waiting(v) \cap Gone(v))
          /\ IsFiniteSet(Waiting(v) \ Gone(v))
      BY <2>3, FS_Difference
    <3> QED
      BY <2>4, <3>1
  <2>6. Cardinality(Waiting(v) \ Gone(v)) \in Nat
    BY <2>5, FS_CardinalityType
  <2>7. Gone(v) \subseteq edges
    OBVIOUS
  <2>8. Cardinality(Gone(v)) \in Nat
    <3> HIDE DEF Gone
    <3> QED
      BY <2>7, SubsetOfEdges DEF KahnInv
  <2>9. indeg'[v] = indeg[v] - Cardinality(Gone(v))
    BY <1>2 DEF Lowered
  <2>10. indeg[v] = Cardinality(Waiting(v)) /\ indeg[v] \in Nat
    BY <1>3 DEF KahnInv
  <2> QED
    BY <2>2, <2>5, <2>6, <2>8, <2>9, <2>10
<1>7. \A v \in Placed : v \in Stats /\ indeg[v] = 0
  <2> SUFFICES ASSUME NEW v \in Placed PROVE v \in Stats /\ indeg[v] = 0
    OBVIOUS
  <2>1. PICK p \in 1 .. Len(order) : order[p] = v
    BY <1>4 DEF Placed
  <2>2. v \in Stats
    BY <1>3, <1>4, <2>1
  <2>3. \A e \in edges : e.to = v => e.from \in Placed
    <3> SUFFICES ASSUME NEW e \in edges, e.to = v PROVE e.from \in Placed
      OBVIOUS
    <3>1. PICK r \in 1 .. (p - 1) : order[r] = e.from
      BY <1>4, <2>1 DEF KahnInv, Respected
    <3>2. r \in DOMAIN order
      BY <1>4
    <3> QED
      BY <3>1, <3>2 DEF Placed
  <2>4. Waiting(v) = {}
    BY <2>3 DEF Waiting
  <2> QED
    BY <2>2, <2>4, FS_EmptySet DEF KahnInv
<1>8. heap' = { v \in Unplaced' : indeg'[v] = 0 }
  <2>1. Unplaced' = Unplaced \ {u}
    BY <1>4 DEF Unplaced
  <2>2. Ready(u) = { v \in Stats : indeg'[v] = 0 /\ indeg[v] # 0 }
    BY <1>2 DEF Ready
  <2>3. \A v \in heap \ {u} : v \in Unplaced \ {u} /\ indeg'[v] = 0
    BY <1>3, <1>6 DEF KahnInv, Unplaced
  <2>4. \A v \in Ready(u) : v \in Unplaced \ {u} /\ indeg'[v] = 0
    BY <1>1, <1>7, <2>2 DEF Unplaced
  <2>5. \A v \in Unplaced \ {u} : indeg'[v] = 0 => v \in (heap \ {u}) \cup Ready(u)
    BY <2>2 DEF KahnInv, Unplaced
  <2> QED
    BY <1>2, <2>1, <2>3, <2>4, <2>5
<1>9. Respected(Len(order))'
  <2> SUFFICES ASSUME NEW e \in edges, NEW p \in 1 .. Len(order) + 1,
                      order'[p] = e.to
               PROVE  \E r \in 1 .. (p - 1) : order'[r] = e.from
    BY <1>2, <1>4 DEF Respected
  <2>1. CASE p \in 1 .. Len(order)
    <3>1. PICK r \in 1 .. (p - 1) : order[r] = e.from
      BY <1>4, <2>1 DEF KahnInv, Respected
    <3>2. r \in 1 .. Len(order)
      BY <1>4, <2>1
    <3> QED
      BY <1>4, <3>1, <3>2
  <2>2. CASE p = Len(order) + 1
    <3>1. e.to = u
      BY <1>4, <2>2
    <3>2. Waiting(u) = {}
      <4>1. Waiting(u) \subseteq edges /\ Cardinality(Waiting(u)) = 0
        BY <1>1 DEF KahnInv, Waiting
      <4> QED
        BY <4>1, SubsetOfEdges DEF KahnInv
    <3>3. e.from \in Placed
      BY <3>1, <3>2 DEF Waiting
    <3>4. PICK r \in 1 .. Len(order) : order[r] = e.from
      BY <1>4, <3>3 DEF Placed
    <3> QED
      BY <1>4, <2>2, <3>4
  <2> QED
    BY <1>4, <2>1, <2>2
<1>10. KahnTypeOK'
  <2>1. indeg' \in [Stats -> Nat]
    BY <1>2, <1>6 DEF Lowered
  <2>2. heap' \subseteq Stats
    BY <1>8 DEF Unplaced
  <2> QED
    BY <1>2, <1>4, <2>1, <2>2 DEF KahnInv, KahnTypeOK
<1>11. IsFiniteSet(edges')
  BY <1>2 DEF KahnInv
<1>12. Placed' \subseteq Stats
  BY <1>1, <1>4, <1>7
<1>13. \A v \in Stats : indeg'[v] = Cardinality(Waiting(v)')
  BY <1>6
<1>14. KahnInv'
  BY <1>5, <1>8, <1>9, <1>10, <1>11, <1>13 DEF KahnInv
<1> QED
  BY <1>4, <1>12, <1>14

\* An order without repetition is never longer than the set of statistics,
\* and as long as it when nothing is left out.
LEMMA OrderLength ==
  ASSUME NEW o \in Seq(Stats),
         \A p, r \in DOMAIN o : o[p] = o[r] => p = r
  PROVE  /\ Len(o) <= NumStats
         /\ (\A i \in Stats : \E p \in DOMAIN o : o[p] = i) => Len(o) = NumStats
<1> DEFINE D == 1 .. Len(o)
<1>1. Len(o) \in Nat /\ DOMAIN o = D /\ o \in [D -> Stats]
  OBVIOUS
<1>2. IsFiniteSet(D) /\ Cardinality(D) = Len(o)
  <2>1. IsFiniteSet(1 .. Len(o))
        /\ Cardinality(1 .. Len(o)) = IF 1 > Len(o) THEN 0 ELSE Len(o) - 1 + 1
    BY <1>1, FS_Interval
  <2> QED
    BY <1>1, <2>1
<1>3. o \in Injection(D, Stats)
  BY <1>1 DEF Injection, IsInjective
<1>4. Cardinality(D) <= Cardinality(Stats)
      /\ (Cardinality(D) = Cardinality(Stats) <=> o \in Surjection(D, Stats))
  <2> HIDE DEF D
  <2> QED
    BY <1>3, StatsFinite, FS_Injection
<1>5. (\A i \in Stats : \E p \in DOMAIN o : o[p] = i) => o \in Surjection(D, Stats)
  BY <1>1 DEF Surjection
<1> QED
  BY <1>2, <1>4, <1>5, StatsFinite

\* A sort that is stuck has a cycle in front of it: everything unplaced waits
\* for something unplaced.
LEMMA StuckIsCycle ==
  ASSUME KahnInv, heap = {}, Unplaced # {}
  PROVE  HasCycle(edges)
<1>1. Unplaced \in SUBSET Stats
  BY DEF Unplaced
<1>2. ASSUME NEW v \in Unplaced
      PROVE  \E e \in edges : e.to = v /\ e.from \in Unplaced
  <2>1. v \in Stats /\ indeg[v] # 0
    BY DEF KahnInv, Unplaced
  <2>2. Waiting(v) # {}
    BY <2>1, FS_EmptySet DEF KahnInv
  <2> QED
    BY <2>2 DEF Waiting, Unplaced, KahnInv, KahnTypeOK
<1> QED
  BY <1>1, <1>2 DEF HasCycle

\* A complete topological order excludes a cycle: the member of the cycle that
\* was placed first has nobody to wait for.
LEMMA OrderedIsAcyclic ==
  ASSUME NEW k \in Nat, Respected(k), HasCycle(edges),
         \A i \in Stats : \E p \in 1 .. k : order[p] = i
  PROVE  FALSE
<1>1. PICK S \in SUBSET Stats :
         S # {} /\ \A v \in S : \E e \in edges : e.to = v /\ e.from \in S
  BY DEF HasCycle
<1> DEFINE Ps == { p \in 1 .. k : order[p] \in S }
<1>2. Ps \subseteq Nat /\ Ps # {}
  BY <1>1
<1>3. PICK p \in Ps : \A r \in Ps : p <= r
  <2> HIDE DEF Ps
  <2> QED
    BY <1>2, LeastNatural
<1>4. PICK e \in edges : e.to = order[p] /\ e.from \in S
  BY <1>1, <1>3
<1>5. PICK r \in 1 .. (p - 1) : order[r] = e.from
  BY <1>3, <1>4 DEF Respected
<1>6. r \in Ps /\ r < p
  BY <1>3, <1>4, <1>5
<1> QED
  BY <1>2, <1>3, <1>6

-----------------------------------------------------------------------------
(* solve_pg_order: the inductive invariant. *)

OrderInv ==
  /\ TypeOK
  /\ edges = PreferenceEdges
  /\ Distinct
  /\ sorted <= Len(order)
  /\ Respected(sorted)
  /\ phase = "sort" => KahnInv /\ sorted = Len(order)
  /\ phase # "sort" =>
       IF acyclic THEN \A i \in Stats : \E p \in 1 .. sorted : order[p] = i
                  ELSE HasCycle(edges)
  /\ phase = "done" => Placed = Stats

\* The preference graph is computed once, from inputs that never change.
LEMMA SameInputs ==
  ASSUME UNCHANGED offers
  PROVE  PreferenceEdges' = PreferenceEdges
BY DEF PreferenceEdges, Best, Better, Measured, Applicable

\* Steps that leave the order alone keep what is known about it.
LEMMA OrderFrame ==
  ASSUME OrderInv, UNCHANGED <<kahnVars, offers, sorted>>
  PROVE  /\ KahnTypeOK' /\ Distinct' /\ Respected(sorted)'
         /\ edges' = PreferenceEdges' /\ sorted' <= Len(order')
         /\ Placed' = Placed
         /\ HasCycle(edges)' <=> HasCycle(edges)
         /\ offers' \in [Queries -> Offers] /\ sorted' \in 0 .. NumStats
<1>1. /\ edges' = edges /\ order' = order /\ heap' = heap /\ indeg' = indeg
      /\ offers' = offers /\ sorted' = sorted
  BY DEF kahnVars
<1>2. PreferenceEdges' = PreferenceEdges
  BY <1>1, SameInputs
<1>3. HasCycle(edges)' <=> HasCycle(edges)
  BY <1>1 DEF HasCycle
<1>4. KahnTypeOK' /\ Distinct' /\ Respected(sorted)'
  BY <1>1 DEF OrderInv, TypeOK, KahnTypeOK, Distinct, Respected
<1>5. Placed' = Placed
  BY <1>1 DEF Placed
<1> QED
  BY <1>1, <1>2, <1>3, <1>4, <1>5 DEF OrderInv, TypeOK

LEMMA InitOrder == Init => OrderInv
<1> SUFFICES ASSUME Init PROVE OrderInv
  OBVIOUS
<1>1. PreferenceEdges \subseteq [from : Stats, to : Stats]
  BY PreferenceEdgesType DEF Init
<1>2. IsFiniteSet(edges) /\ \A e \in edges : e.from \in Stats /\ e.to \in Stats
  BY <1>1, PairsFinite, FS_Subset DEF Init
<1>3. KahnInv
  BY <1>2, SortingInv DEF Init
<1>4. Len(order) = 0
  BY DEF Init, Sorting
<1>5. TypeOK
  BY <1>3, KahnAssumption DEF Init, TypeOK, KahnInv
<1> QED
  BY <1>3, <1>4, <1>5 DEF Init, OrderInv, KahnInv

LEMMA SortOrder ==
  ASSUME OrderInv, Sort
  PROVE  OrderInv'
<1>1. KahnInv /\ sorted = Len(order) /\ PopSource
  BY DEF OrderInv, Sort
<1>2. KahnInv' /\ Len(order') = Len(order) + 1
  BY <1>1, PopSourceInv
<1>3. sorted' = Len(order')
  BY <1>1, <1>2 DEF Sort
<1>4. sorted' \in 0 .. NumStats
  <2>1. Len(order') <= NumStats
    <3> DEFINE o == order'
    <3>1. o \in Seq(Stats) /\ \A p, r \in DOMAIN o : o[p] = o[r] => p = r
      BY <1>2 DEF KahnInv, KahnTypeOK, Distinct
    <3> HIDE DEF o
    <3>2. Len(o) <= NumStats
      BY <3>1, OrderLength
    <3> QED
      BY <3>2 DEF o
  <2>2. Len(order') \in Nat
    BY <1>2 DEF KahnInv, KahnTypeOK
  <2> QED
    BY <1>3, <2>1, <2>2, KahnAssumption
<1>5. TypeOK'
  BY <1>2, <1>4 DEF OrderInv, TypeOK, Sort, KahnInv
<1>6. PreferenceEdges' = PreferenceEdges
  BY SameInputs DEF Sort
<1> QED
  BY <1>2, <1>3, <1>5, <1>6
  DEF OrderInv, Sort, PopSource, KahnInv

LEMMA SortEndsOrder ==
  ASSUME OrderInv, SortEnds
  PROVE  OrderInv'
<1>1. KahnInv /\ sorted = Len(order) /\ heap = {}
  BY DEF OrderInv, SortEnds
<1>2. DOMAIN order = 1 .. sorted
  BY <1>1 DEF KahnInv, KahnTypeOK
<1>3. order' = order /\ sorted' = sorted /\ phase' = "rest"
      /\ acyclic' = (Unplaced = {})
  BY DEF SortEnds, kahnVars, Remaining
<1>4. Unplaced = {} => \A i \in Stats : \E p \in 1 .. sorted : order[p] = i
  BY <1>2 DEF Unplaced, Placed
<1>5. Unplaced # {} => HasCycle(edges)'
  BY <1>1, StuckIsCycle, OrderFrame DEF SortEnds
<1>6. /\ KahnTypeOK' /\ Distinct' /\ Respected(sorted)'
      /\ edges' = PreferenceEdges' /\ sorted' <= Len(order')
      /\ offers' \in [Queries -> Offers] /\ sorted' \in 0 .. NumStats
  BY OrderFrame DEF SortEnds
<1>7. acyclic' \in BOOLEAN
  BY <1>3
<1>8. TypeOK'
  BY <1>3, <1>6, <1>7 DEF TypeOK
<1>9. IF acyclic' THEN \A i \in Stats : \E p \in 1 .. sorted' : order'[p] = i
                  ELSE HasCycle(edges)'
  BY <1>3, <1>4, <1>5
<1> QED
  BY <1>3, <1>6, <1>8, <1>9 DEF OrderInv

LEMMA AppendRestOrder ==
  ASSUME OrderInv, AppendRest
  PROVE  OrderInv'
<1> DEFINE u == Least(Remaining)
<1>1. u \in Unplaced /\ u \in Stats
  <2>1. Unplaced \subseteq Nat /\ Unplaced # {}
    BY StatsFinite DEF Unplaced, AppendRest, Remaining
  <2> QED
    BY <2>1, LeastNatural DEF Remaining, Unplaced
<1>2. order' = Append(order, u)
  BY DEF AppendRest
<1> HIDE DEF u
<1>3. order \in Seq(Stats) /\ Distinct /\ sorted \in Nat /\ sorted <= Len(order)
  BY DEF OrderInv, TypeOK, KahnTypeOK
<1>4. Distinct'
  BY <1>1, <1>2, <1>3, AppendDistinct
<1>5. /\ order' \in Seq(Stats) /\ Len(order') = Len(order) + 1
      /\ Len(order) \in Nat
      /\ \A p \in 1 .. Len(order) : order'[p] = order[p]
  BY <1>1, <1>2, <1>3, AppendPlaces
<1>6. \A p \in 1 .. sorted : p \in 1 .. Len(order) /\ order'[p] = order[p]
  BY <1>3, <1>5
<1>7. Respected(sorted)'
  <2> SUFFICES ASSUME NEW e \in edges, NEW p \in 1 .. sorted, order'[p] = e.to
               PROVE  \E r \in 1 .. (p - 1) : order'[r] = e.from
    BY DEF Respected, AppendRest
  <2>1. PICK r \in 1 .. (p - 1) : order[r] = e.from
    BY <1>6 DEF OrderInv, Respected
  <2>2. r \in 1 .. sorted
    BY <1>3
  <2> QED
    BY <1>6, <2>1, <2>2
<1>8. TypeOK'
  BY <1>5 DEF OrderInv, TypeOK, KahnTypeOK, AppendRest
<1>9. (acyclic => \A i \in Stats : \E p \in 1 .. sorted : order[p] = i)'
  BY <1>6 DEF OrderInv, AppendRest
<1>10. (~ acyclic => HasCycle(edges))'
  BY DEF OrderInv, AppendRest, HasCycle
<1>11. edges' = PreferenceEdges'
  BY DEF OrderInv, AppendRest, PreferenceEdges, Best, Better, Measured, Applicable
<1>12. sorted' <= Len(order')
  BY <1>3, <1>5 DEF AppendRest
<1> QED
  BY <1>4, <1>7, <1>8, <1>9, <1>10, <1>11, <1>12 DEF OrderInv, AppendRest

LEMMA ReturnOrder ==
  ASSUME OrderInv, Return
  PROVE  OrderInv'
<1>1. /\ order' = order /\ sorted' = sorted /\ acyclic' = acyclic
      /\ phase = "rest" /\ phase' = "done" /\ Unplaced = {}
  BY DEF Return, kahnVars, Remaining
<1>2. /\ KahnTypeOK' /\ Distinct' /\ Respected(sorted)'
      /\ edges' = PreferenceEdges' /\ sorted' <= Len(order')
      /\ Placed' = Placed /\ (HasCycle(edges)' <=> HasCycle(edges))
      /\ offers' \in [Queries -> Offers] /\ sorted' \in 0 .. NumStats
  BY OrderFrame DEF Return
<1>3. Placed = Stats
  BY <1>1 DEF OrderInv, TypeOK, KahnTypeOK, Placed, Unplaced
<1>4. TypeOK'
  BY <1>1, <1>2 DEF OrderInv, TypeOK
<1>5. IF acyclic' THEN \A i \in Stats : \E p \in 1 .. sorted' : order'[p] = i
                  ELSE HasCycle(edges)'
  BY <1>1, <1>2 DEF OrderInv
<1> QED
  BY <1>1, <1>2, <1>3, <1>4, <1>5 DEF OrderInv

LEMMA StutterOrder ==
  ASSUME OrderInv, UNCHANGED vars
  PROVE  OrderInv'
<1>1. /\ edges' = edges /\ order' = order /\ heap' = heap /\ indeg' = indeg
      /\ offers' = offers /\ sorted' = sorted /\ phase' = phase
      /\ acyclic' = acyclic
  BY DEF vars, kahnVars
<1>2. /\ KahnTypeOK' /\ Distinct' /\ Respected(sorted)'
      /\ edges' = PreferenceEdges' /\ sorted' <= Len(order')
      /\ Placed' = Placed /\ (HasCycle(edges)' <=> HasCycle(edges))
      /\ offers' \in [Queries -> Offers] /\ sorted' \in 0 .. NumStats
  BY OrderFrame DEF vars
<1>3. KahnInv => KahnInv'
  BY <1>1, <1>2 DEF KahnInv, Waiting, Unplaced, Respected
<1>4. TypeOK'
  BY <1>1, <1>2 DEF OrderInv, TypeOK
<1>5. phase' = "sort" => KahnInv' /\ sorted' = Len(order')
  BY <1>1, <1>3 DEF OrderInv
<1>6. phase' # "sort" =>
        IF acyclic' THEN \A i \in Stats : \E p \in 1 .. sorted' : order'[p] = i
                    ELSE HasCycle(edges)'
  BY <1>1, <1>2 DEF OrderInv
<1>7. phase' = "done" => Placed' = Stats
  BY <1>1, <1>2 DEF OrderInv
<1> QED
  BY <1>2, <1>4, <1>5, <1>6, <1>7 DEF OrderInv

LEMMA OrderInductive == OrderInv /\ [Next]_vars => OrderInv'
BY SortOrder, SortEndsOrder, AppendRestOrder, ReturnOrder, StutterOrder
DEF Next, Returned

-----------------------------------------------------------------------------
(* solve_pg_order: what the order promises. *)

\* Every chosen statistic is created exactly once, cycle or no cycle.
THEOREM CreatesAll == Spec => []OrderComplete
<1>1. OrderInv => OrderComplete
  <2> SUFFICES ASSUME OrderInv, phase = "done" PROVE OrderComplete
    BY DEF OrderComplete
  <2>1. \A i \in Stats : \E p \in DOMAIN order : order[p] = i
    BY DEF OrderInv, Placed
  <2>2. Len(order) = NumStats
    BY <2>1, OrderLength DEF OrderInv, TypeOK, KahnTypeOK, Distinct
  <2> QED
    BY <2>1, <2>2 DEF OrderComplete
<1> QED
  BY <1>1, InitOrder, OrderInductive, PTL DEF Spec

\* The statistic of S at the head of the order is the one PostgreSQL uses.
LEMMA FirstIsServed ==
  ASSUME order \in Seq(Stats), Distinct, Placed = Stats,
         NEW S \in SUBSET Stats, NEW b \in S, NEW k \in DOMAIN order, order[k] = b,
         \A c \in S : \A p \in DOMAIN order : order[p] = c => k <= p
  PROVE  FirstOf(S) = b
<1>1. \A i \in Stats : Pos(i) \in DOMAIN order /\ order[Pos(i)] = i
  BY DEF Placed, Pos
<1>2. Pos(b) = k
  BY <1>1 DEF Distinct
<1>3. \A j \in S : Pos(b) <= Pos(j)
  BY <1>1, <1>2
<1>4. ASSUME NEW i \in S, \A j \in S : Pos(i) <= Pos(j) PROVE i = b
  <2>1. Pos(i) <= k /\ k <= Pos(i)
    BY <1>1, <1>2, <1>3, <1>4
  <2>2. DOMAIN order \subseteq Nat
    OBVIOUS
  <2>3. Pos(i) = k
    BY <1>1, <2>1, <2>2
  <2> QED
    BY <1>1, <2>3
<1> QED
  BY <1>3, <1>4 DEF FirstOf

LEMMA BestIsServed ==
  ASSUME OrderInv, phase = "done", NEW q \in Queries, Measured(q) # {},
         NEW k \in 1 .. sorted, order[k] = Best(q)
  PROVE  Served(q) = Best(q)
<1>1. Best(q) \in Applicable(q) /\ Applicable(q) \subseteq Stats
  BY BestType DEF OrderInv, TypeOK, Measured, Applicable, Offers
<1>2. /\ order \in Seq(Stats) /\ Distinct /\ Placed = Stats
      /\ sorted \in Nat /\ Len(order) \in Nat /\ DOMAIN order = 1 .. Len(order)
      /\ k \in DOMAIN order /\ sorted <= Len(order)
  BY DEF OrderInv, TypeOK, KahnTypeOK
<1>3. ASSUME NEW c \in Applicable(q), NEW p \in DOMAIN order, order[p] = c
      PROVE  k <= p
  <2>1. CASE c = Best(q)
    BY <1>2, <1>3, <2>1 DEF Distinct
  <2>2. CASE c # Best(q) /\ p \in 1 .. sorted
    <3>1. [from |-> Best(q), to |-> c] \in edges
      BY <2>2 DEF OrderInv, PreferenceEdges
    <3>2. PICK r \in 1 .. (p - 1) : order[r] = Best(q)
      BY <1>3, <2>2, <3>1 DEF OrderInv, Respected
    <3>3. r \in DOMAIN order
      BY <1>2
    <3>4. r = k
      BY <1>2, <3>2, <3>3 DEF Distinct
    <3> QED
      BY <1>2, <3>4
  <2>3. CASE p \notin 1 .. sorted
    BY <1>2, <2>3
  <2> QED
    BY <2>1, <2>2, <2>3
<1> QED
  BY <1>1, <1>2, <1>3, FirstIsServed DEF Served

\* Whatever the others prefer: a query whose best statistic the topological
\* sort could place is served by it.
THEOREM SortedServes == Spec => []SortedBestServes
<1>1. OrderInv => SortedBestServes
  BY BestIsServed DEF SortedBestServes
<1> QED
  BY <1>1, InitOrder, OrderInductive, PTL DEF Spec

\* The promise of the module's docstring: without a cycle every query is
\* served by its best applicable statistic.
THEOREM AcyclicServes == Spec => []AcyclicServesBest
<1>1. OrderInv => AcyclicServesBest
  <2> SUFFICES ASSUME OrderInv, phase = "done", acyclic,
                      NEW q \in Queries, Measured(q) # {}
               PROVE  Served(q) = Best(q)
    BY DEF AcyclicServesBest
  <2>1. Best(q) \in Stats
    BY BestType DEF OrderInv, TypeOK, Measured, Applicable, Offers
  <2>2. PICK k \in 1 .. sorted : order[k] = Best(q)
    BY <2>1 DEF OrderInv
  <2> QED
    BY <2>2, BestIsServed
<1> QED
  BY <1>1, InitOrder, OrderInductive, PTL DEF Spec

\* The acyclic flag is exact: it is TRUE just when the preferences of the
\* queries have no cycle.
THEOREM FlagExact == Spec => []AcyclicExact
<1>1. OrderInv => AcyclicExact
  BY OrderedIsAcyclic DEF OrderInv, AcyclicExact, TypeOK
<1> QED
  BY <1>1, InitOrder, OrderInductive, PTL DEF Spec
-----------------------------------------------------------------------------
(* solve_pg_order_fb: the inductive invariant.  Every sort between two cuts *)
(* is Kahn's on what the cuts left over, and nothing is cut before a sort   *)
(* was stuck, which only a cycle can do.                                    *)

FbInv ==
  /\ FbTypeOK
  /\ KahnInv
  /\ cut # {} => HasCycle(RivalEdges)
  /\ phase = "done" => Unplaced = {}

\* The graph has an edge per query and rival: finitely many.
LEMMA RivalEdgesType ==
  ASSUME offers \in [Queries -> Offers]
  PROVE  /\ RivalEdges \subseteq [from : Stats, to : Stats, of : Queries]
         /\ IsFiniteSet(RivalEdges)
<1> DEFINE Triples == Stats \X (Stats \X Queries)
           Edge == [from : Stats, to : Stats, of : Queries]
           f == [x \in Triples |-> [from |-> x[1], to |-> x[2][1], of |-> x[2][2]]]
<1>1. IsFiniteSet(Triples)
  BY StatsFinite, PgOrderFbAssumption, FS_Product
<1>2. f \in Surjection(Triples, Edge)
  <2>1. f \in [Triples -> Edge]
    OBVIOUS
  <2>2. ASSUME NEW e \in Edge PROVE \E x \in Triples : f[x] = e
    <3>1. /\ <<e.from, <<e.to, e.of>>>> \in Triples
          /\ f[<<e.from, <<e.to, e.of>>>>] = e
      OBVIOUS
    <3> QED
      BY <3>1
  <2> QED
    BY <2>1, <2>2 DEF Surjection
<1>3. IsFiniteSet(Edge)
  <2> HIDE DEF Triples, Edge, f
  <2> QED
    BY <1>1, <1>2, FS_Surjection
<1>4. ASSUME NEW q \in Choosy, NEW c \in Rivals(q)
      PROVE  [from |-> Best(q), to |-> c, of |-> q] \in Edge
  <2>1. q \in Queries /\ Measured(q) # {}
    BY FS_EmptySet DEF Choosy
  <2>2. Best(q) \in Measured(q)
    BY <2>1, BestType
  <2>3. Measured(q) \subseteq Stats
    BY <2>1 DEF Measured, Applicable, Offers
  <2> QED
    BY <2>1, <2>2, <2>3 DEF Rivals
<1>5. RivalEdges \subseteq Edge
  BY <1>4 DEF RivalEdges, Preferences
<1> QED
  BY <1>3, <1>5, FS_Subset

\* A cycle does not go away when edges are added.
LEMMA MoreEdges ==
  ASSUME NEW E, NEW F, E \subseteq F, HasCycle(E)
  PROVE  HasCycle(F)
BY DEF HasCycle

\* A sort begins on a finite graph over the statistics.
Begun ==
  /\ \A e \in edges : e.from \in Stats /\ e.to \in Stats
  /\ IsFiniteSet(edges)
  /\ Sorting(edges, order, heap, indeg)

LEMMA BegunInv == Begun => KahnInv
BY SortingInv DEF Begun

LEMMA SameRivals ==
  ASSUME UNCHANGED offers
  PROVE  RivalEdges' = RivalEdges
BY DEF RivalEdges, Preferences, Choosy, Rivals, Best, Better, Measured, Applicable

LEMMA FbInitInv == FbInit => FbInv
<1> SUFFICES ASSUME FbInit PROVE FbInv
  OBVIOUS
<1>1. /\ RivalEdges \subseteq [from : Stats, to : Stats, of : Queries]
      /\ IsFiniteSet(RivalEdges)
  BY RivalEdgesType DEF FbInit
<1>2. Begun
  BY <1>1 DEF Begun, FbInit
<1>3. KahnInv
  BY <1>2, BegunInv
<1> QED
  BY <1>3 DEF FbInit, FbInv, FbTypeOK, KahnInv

LEMMA FbSortInv ==
  ASSUME FbInv, FbSort
  PROVE  FbInv'
<1>1. KahnInv' /\ edges' = edges
  BY PopSourceInv DEF FbInv, FbSort, PopSource
<1>2. offers' = offers /\ phase' = phase /\ cut' = cut /\ phase = "sort"
  BY DEF FbSort
<1>3. RivalEdges' = RivalEdges
  BY <1>2, SameRivals
<1>4. HasCycle(RivalEdges)' <=> HasCycle(RivalEdges)
  BY <1>3 DEF HasCycle
<1>5. FbTypeOK'
  BY <1>1, <1>2, <1>3 DEF FbInv, FbTypeOK, KahnInv
<1> QED
  BY <1>1, <1>2, <1>4, <1>5 DEF FbInv

LEMMA CutCheapestInv ==
  ASSUME FbInv, CutCheapest
  PROVE  FbInv'
<1>1. PICK e \in Cheapest : CutEdge(e)
  BY DEF CutCheapest
<1>2. e \in edges
  BY DEF Cheapest, ResidueEdges
<1>3. /\ edges' = edges \ {e} /\ cut' = cut \cup {e}
      /\ Sorting(edges', order', heap', indeg')
      /\ offers' = offers /\ phase' = phase /\ phase = "sort"
  BY <1>1 DEF CutEdge, CutCheapest
<1>4. RivalEdges' = RivalEdges
  BY <1>3, SameRivals
<1>5. Begun'
  <2>1. IsFiniteSet(edges')
    BY <1>3, FS_Subset DEF FbInv, KahnInv
  <2>2. (\A d \in edges : d.from \in Stats /\ d.to \in Stats)'
    BY <1>3 DEF FbInv, KahnInv, KahnTypeOK, Stats
  <2> QED
    BY <1>3, <2>1, <2>2 DEF Begun, Sorting, InDegree, Stats
<1>6. KahnInv'
  BY <1>5, BegunInv, PTL
<1>7. HasCycle(RivalEdges)
  <2>1. HasCycle(edges)
    BY StuckIsCycle DEF FbInv, CutCheapest
  <2>2. edges \subseteq RivalEdges
    BY DEF FbInv, FbTypeOK
  <2> QED
    BY <2>1, <2>2, MoreEdges
<1>8. HasCycle(RivalEdges)'
  BY <1>4, <1>7 DEF HasCycle
<1>9. FbTypeOK'
  BY <1>2, <1>3, <1>4, <1>6 DEF FbInv, FbTypeOK, KahnInv
<1> QED
  BY <1>3, <1>6, <1>8, <1>9 DEF FbInv

\* Steps that leave graph, sort and inputs alone.
LEMMA FbFrame ==
  ASSUME FbInv, UNCHANGED <<kahnVars, offers, cut>>, phase' \in {"sort", "done"},
         phase' = "done" => Unplaced = {}
  PROVE  FbInv'
<1>1. /\ edges' = edges /\ order' = order /\ heap' = heap /\ indeg' = indeg
      /\ offers' = offers /\ cut' = cut
  BY DEF kahnVars
<1>2. RivalEdges' = RivalEdges
  BY <1>1, SameRivals
<1>3. HasCycle(RivalEdges)' <=> HasCycle(RivalEdges)
  BY <1>2 DEF HasCycle
<1>4. Unplaced' = Unplaced /\ Placed' = Placed
  BY <1>1 DEF Unplaced, Placed
<1>5. KahnTypeOK' /\ Distinct' /\ Respected(Len(order))'
  BY <1>1 DEF FbInv, KahnInv, KahnTypeOK, Distinct, Respected
<1>6. (\A v \in Stats : indeg[v] = Cardinality(Waiting(v)))'
  BY <1>1, <1>4 DEF FbInv, KahnInv, Waiting
<1>7. heap' = { v \in Unplaced' : indeg'[v] = 0 }
  BY <1>1, <1>4 DEF FbInv, KahnInv
<1>8. KahnInv'
  BY <1>1, <1>5, <1>6, <1>7 DEF FbInv, KahnInv
<1>9. FbTypeOK'
  BY <1>1, <1>2, <1>5 DEF FbInv, FbTypeOK
<1> QED
  BY <1>1, <1>3, <1>4, <1>8, <1>9 DEF FbInv

LEMMA FbInductive == FbInv /\ [FbNext]_fbVars => FbInv'
<1> SUFFICES ASSUME FbInv, [FbNext]_fbVars PROVE FbInv'
  OBVIOUS
<1>1. CASE FbSort
  BY <1>1, FbSortInv
<1>2. CASE CutCheapest
  BY <1>2, CutCheapestInv
<1>3. CASE FbReturn
  BY <1>3, FbFrame DEF FbReturn
<1>4. CASE UNCHANGED fbVars
  <2>1. UNCHANGED <<kahnVars, offers, cut>> /\ phase' = phase
    BY <1>4 DEF fbVars
  <2>2. phase' \in {"sort", "done"} /\ (phase' = "done" => Unplaced = {})
    BY <2>1 DEF FbInv, FbTypeOK
  <2> QED
    BY <2>1, <2>2, FbFrame
<1> QED
  BY <1>1, <1>2, <1>3, <1>4 DEF FbNext, FbReturned

-----------------------------------------------------------------------------
(* solve_pg_order_fb: what the order promises. *)

\* A returned order holds every statistic.
LEMMA FbComplete ==
  ASSUME FbInv, phase = "done"
  PROVE  \A i \in Stats : \E p \in DOMAIN order : order[p] = i
BY DEF FbInv, Unplaced, Placed

\* Whatever was cut, every chosen statistic is created exactly once.
THEOREM FbCreatesAll == FbSpec => []OrderComplete
<1>1. FbInv => OrderComplete
  <2> SUFFICES ASSUME FbInv, phase = "done" PROVE OrderComplete
    BY DEF OrderComplete
  <2>1. Len(order) = NumStats
    BY FbComplete, OrderLength DEF FbInv, KahnInv, KahnTypeOK, Distinct
  <2> QED
    BY <2>1, FbComplete DEF OrderComplete
<1> QED
  BY <1>1, FbInitInv, FbInductive, PTL DEF FbSpec

\* Only a cycle makes the solver cut, and it cuts every cycle: an order that
\* respects all preferences is a proof that they had none.
THEOREM FbCutsExact == FbSpec => []CutsIffCyclic
<1>1. FbInv => CutsIffCyclic
  <2> SUFFICES ASSUME FbInv, phase = "done"
               PROVE  cut = {} <=> ~ HasCycle(RivalEdges)
    BY DEF CutsIffCyclic
  <2>1. cut # {} => HasCycle(RivalEdges)
    BY DEF FbInv
  <2>2. ASSUME cut = {}, HasCycle(RivalEdges) PROVE FALSE
    <3>1. HasCycle(edges)
      BY <2>2 DEF FbInv, FbTypeOK
    <3>2. Len(order) \in Nat /\ DOMAIN order = 1 .. Len(order)
          /\ Respected(Len(order))
      BY DEF FbInv, KahnInv, KahnTypeOK
    <3> QED
      BY <3>1, <3>2, FbComplete, OrderedIsAcyclic
  <2> QED
    BY <2>1, <2>2
<1> QED
  BY <1>1, FbInitInv, FbInductive, PTL DEF FbSpec

\* A query's best statistic yields to a rival only when its preference, and
\* that of every query that shares it, was cut: an edge left in the graph is
\* an edge the order respects.
THEOREM FbOnlyCutYield == FbSpec => []OnlyCutPreferencesYield
<1>1. FbInv => OnlyCutPreferencesYield
  <2> SUFFICES ASSUME FbInv, phase = "done", NEW q \in Choosy, NEW c \in Rivals(q),
                      NEW e \in RivalEdges, e.from = Best(q), e.to = c, e \notin cut
               PROVE  ~ (Pos(c) < Pos(Best(q)))
    BY DEF OnlyCutPreferencesYield
  <2>1. e \in edges
    BY DEF FbInv, FbTypeOK
  <2>2. /\ Len(order) \in Nat /\ DOMAIN order = 1 .. Len(order)
        /\ Distinct /\ Respected(Len(order))
        /\ c \in Stats
    BY <2>1 DEF FbInv, KahnInv, KahnTypeOK
  <2>3. Pos(c) \in DOMAIN order /\ order[Pos(c)] = c
    BY <2>2, FbComplete DEF Pos
  <2>4. PICK r \in 1 .. (Pos(c) - 1) : order[r] = Best(q)
    BY <2>1, <2>2, <2>3 DEF Respected
  <2>5. r \in DOMAIN order
    BY <2>2, <2>3
  <2>6. Pos(Best(q)) \in DOMAIN order /\ order[Pos(Best(q))] = Best(q)
    BY <2>4, <2>5 DEF Pos
  <2>7. Pos(Best(q)) = r
    BY <2>2, <2>4, <2>5, <2>6 DEF Distinct
  <2> QED
    BY <2>2, <2>3, <2>4, <2>7
<1> QED
  BY <1>1, FbInitInv, FbInductive, PTL DEF FbSpec

\* The break for a stuck sort without an edge to cut is never taken: what the
\* sort could not place holds a cycle of edges.
THEOREM FbSomethingToCut ==
  FbSpec => [](phase = "sort" /\ heap = {} /\ Unplaced # {} => ResidueEdges # {})
<1> DEFINE CanCut == phase = "sort" /\ heap = {} /\ Unplaced # {} => ResidueEdges # {}
<1>1. FbInv => CanCut
  <2> SUFFICES ASSUME FbInv, heap = {}, NEW v \in Unplaced PROVE ResidueEdges # {}
    OBVIOUS
  <2>1. v \in Stats /\ indeg[v] # 0
    BY DEF FbInv, KahnInv, Unplaced
  <2>2. Waiting(v) # {}
    BY <2>1, FS_EmptySet DEF FbInv, KahnInv
  <2> QED
    BY <2>2 DEF Waiting, ResidueEdges, Unplaced, FbInv, KahnInv, KahnTypeOK
<1> HIDE DEF CanCut
<1>2. FbSpec => []CanCut
  BY <1>1, FbInitInv, FbInductive, PTL DEF FbSpec
<1> QED
  BY <1>2 DEF CanCut
=============================================================================
