--------------------------- MODULE IlpProofs --------------------------------
(***************************************************************************)
(* Theorems about solve_ilp and the commands that call it, for every set of *)
(* candidates, workload, corpus, budget and timing: the integer program     *)
(* selects the best deployment, and the commands keep the best level.       *)
(***************************************************************************)
EXTENDS SolveIlp, SgridSearch, FiniteSetTheorems, WellFoundedInduction, TLAPS

-----------------------------------------------------------------------------
(* Sums over finite sets.  The fold is a recursive function; what it yields *)
(* is proved by looking at a least set for which it would not.              *)

\* The member a fold takes first.
Pick(s) == CHOOSE x \in s : TRUE

\* It takes a member.
LEMMA PickIn == \A s : s # {} => Pick(s) \in s
BY DEF Pick

\* g adds up f along the order in which Pick takes the members of a set.
Adds(g, f, S) ==
  g = [s \in SUBSET S |-> IF s = {} THEN 0 ELSE f[Pick(s)] + g[s \ {Pick(s)}]]
Iter(f, S) == CHOOSE g : Adds(g, f, S)

\* The fold of the library is the recursion over all subsets, taken at the whole set.
LEMMA SumIsIter ==
  ASSUME NEW f, NEW S
  PROVE  SumFunctionOnSet(f, S) = Iter(f, S)[S]
BY DEF SumFunctionOnSet, FoldFunctionOnSet, MapThenFoldSet, Iter, Adds, Pick

\* The least counterexample of a property of the subsets of a finite set.
LEMMA LeastSubset ==
  ASSUME NEW S, IsFiniteSet(S), NEW B \in SUBSET (SUBSET S), B # {}
  PROVE  \E s \in B : \A t \in B : t \subseteq s => t = s
<1>1. IsWellFoundedOn(StrictSubsetOrdering(S), SUBSET S)
  BY FS_StrictSubsetOrderingWellFounded, FS_FiniteSubsetsOfFinite
<1>2. PICK s \in B : \A t \in B : ~ (<<t, s>> \in StrictSubsetOrdering(S))
  BY <1>1, WFMin
<1>3. ASSUME NEW t \in B, t \subseteq s PROVE t = s
  <2>1. <<t, s>> \in (SUBSET S) \X (SUBSET S)
    OBVIOUS
  <2> QED
    BY <1>2, <1>3, <2>1 DEF StrictSubsetOrdering
<1> QED
  BY <1>3

\* The recursion has at most one solution on what two of them have in common.
LEMMA IterUnique ==
  ASSUME NEW f, NEW S, NEW T, IsFiniteSet(S), NEW g, NEW h, Adds(g, f, S), Adds(h, f, T),
         NEW u \in SUBSET S, u \subseteq T
  PROVE  g[u] = h[u]
<1> DEFINE B == { s \in SUBSET S : s \subseteq T /\ g[s] # h[s] }
<1>1. B \in SUBSET (SUBSET S)
  OBVIOUS
<1>2. SUFFICES ASSUME B # {} PROVE FALSE
  OBVIOUS
<1>3. PICK s \in B : \A t \in B : t \subseteq s => t = s
  <2> HIDE DEF B
  <2> QED
    BY <1>1, <1>2, LeastSubset
<1>4. s \in SUBSET S /\ s \in SUBSET T /\ g[s] # h[s]
  OBVIOUS
<1> DEFINE p == Pick(s)
<1>5. s # {}
  BY <1>4, Zenon DEF Adds
<1>6. p \in s
  BY <1>5, PickIn
<1>7. g[s \ {p}] = h[s \ {p}]
  BY <1>3, <1>4, <1>6
<1>8. g[s] = f[p] + g[s \ {p}]
  BY <1>4, <1>5, Zenon DEF Adds
<1>9. h[s] = f[p] + h[s \ {p}]
  BY <1>4, <1>5, Zenon DEF Adds
<1> QED
  BY <1>4, <1>7, <1>8, <1>9

\* The sums of all subsets exist: a least set without them would have them.
LEMMA IterExists ==
  ASSUME NEW f, NEW S, IsFiniteSet(S)
  PROVE  Adds(Iter(f, S), f, S)
<1> DEFINE B == { s \in SUBSET S : ~ \E g : Adds(g, f, s) }
<1>1. B \in SUBSET (SUBSET S)
  OBVIOUS
<1>2. SUFFICES ASSUME B # {} PROVE FALSE
  BY DEF Iter
<1>3. PICK s \in B : \A t \in B : t \subseteq s => t = s
  <2> HIDE DEF B
  <2> QED
    BY <1>1, <1>2, LeastSubset
<1>4. s \in SUBSET S /\ ~ \E g : Adds(g, f, s)
  OBVIOUS
<1>5. ASSUME NEW u \in SUBSET s, u # s PROVE Adds(Iter(f, u), f, u)
  <2>1. u \notin B
    BY <1>3, <1>5
  <2>2. u \in SUBSET S
    OBVIOUS
  <2>3. \E g : Adds(g, f, u)
    BY <2>1, <2>2
  <2> QED
    BY <2>3 DEF Iter
<1> HIDE DEF B
<1> DEFINE Rest(t) == t \ {Pick(t)}
           h == [t \in SUBSET s |-> IF t = {} THEN 0
                                    ELSE f[Pick(t)] + Iter(f, Rest(t))[Rest(t)]]
<1>6. ASSUME NEW t \in SUBSET s, t # {} PROVE h[Rest(t)] = Iter(f, Rest(t))[Rest(t)]
  <2> DEFINE u == Rest(t)
  <2>1. u \in SUBSET s /\ u # s
    BY <1>6, PickIn
  <2>2. Adds(Iter(f, u), f, u)
    BY <1>5, <2>1
  <2>3. CASE u = {}
    <3>1. Iter(f, u)[u] = 0
      BY <2>2, <2>3, Zenon DEF Adds
    <3>2. h[u] = 0
      BY <2>1, <2>3
    <3> QED
      BY <3>1, <3>2
  <2>4. CASE u # {}
    <3>1. Iter(f, u)[u] = f[Pick(u)] + Iter(f, u)[Rest(u)]
      BY <2>2, <2>4, Zenon DEF Adds
    <3>2. h[u] = f[Pick(u)] + Iter(f, Rest(u))[Rest(u)]
      BY <2>1, <2>4
    <3>3. Rest(u) \in SUBSET s /\ Rest(u) # s /\ Rest(u) \in SUBSET u
      BY <2>1
    <3>4. Adds(Iter(f, Rest(u)), f, Rest(u))
      BY <1>5, <3>3
    <3>5. IsFiniteSet(u)
      BY <1>4, <2>1, FS_Subset
    <3>6. Iter(f, u)[Rest(u)] = Iter(f, Rest(u))[Rest(u)]
      <4> HIDE DEF u, Rest
      <4> QED
        BY <2>2, <3>3, <3>4, <3>5, IterUnique
    <3> QED
      BY <3>1, <3>2, <3>6
  <2> QED
    BY <2>3, <2>4
<1>7. Adds(h, f, s)
  <2>1. h = [t \in SUBSET s |-> IF t = {} THEN 0 ELSE f[Pick(t)] + h[Rest(t)]]
    <3> HIDE DEF Rest
    <3>1. \A t \in SUBSET s : h[t] = IF t = {} THEN 0 ELSE f[Pick(t)] + h[Rest(t)]
      BY <1>6
    <3>2. DOMAIN h = SUBSET s /\ h = [t \in SUBSET s |-> h[t]]
      BY Zenon
    <3> HIDE DEF h
    <3> QED
      BY <3>1, <3>2
  <2> HIDE DEF h
  <2> QED
    BY <2>1 DEF Adds
<1> QED
  BY <1>4, <1>7

\* Nothing adds up to zero.
LEMMA SumEmpty == \A f : SumFunctionOnSet(f, {}) = 0
<1> SUFFICES ASSUME NEW f PROVE Iter(f, {})[{}] = 0
  BY SumIsIter
<1>1. Adds(Iter(f, {}), f, {})
  BY IterExists, FS_EmptySet
<1> QED
  BY <1>1, Zenon DEF Adds

\* A sum unfolds at the member Pick takes.
LEMMA SumPick ==
  ASSUME NEW f, NEW S, IsFiniteSet(S), S # {}
  PROVE  SumFunctionOnSet(f, S) = f[Pick(S)] + SumFunctionOnSet(f, S \ {Pick(S)})
<1> DEFINE T == S \ {Pick(S)}
<1>1. IsFiniteSet(T) /\ T \subseteq S /\ T \in SUBSET S
  BY FS_Subset
<1>2. Adds(Iter(f, S), f, S) /\ Adds(Iter(f, T), f, T)
  <2> HIDE DEF T
  <2> QED
    BY <1>1, IterExists
<1>3. Iter(f, S)[S] = f[Pick(S)] + Iter(f, S)[T]
  BY <1>2, Zenon DEF Adds
<1>4. Iter(f, S)[T] = Iter(f, T)[T]
  <2> DEFINE g == Iter(f, S)
             h == Iter(f, T)
  <2>1. Adds(g, f, S) /\ Adds(h, f, T) /\ T \subseteq T
    BY <1>2
  <2> HIDE DEF T, g, h
  <2>2. g[T] = h[T]
    BY <1>1, <2>1, IterUnique
  <2> QED
    BY <2>2 DEF g, h
<1>5. SumFunctionOnSet(f, S) = Iter(f, S)[S] /\ SumFunctionOnSet(f, T) = Iter(f, T)[T]
  BY SumIsIter
<1> QED
  BY <1>3, <1>4, <1>5

\* A sum of whole numbers is whole.
LEMMA SumInt ==
  ASSUME NEW f, NEW S, IsFiniteSet(S), \A x \in S : f[x] \in Int
  PROVE  SumFunctionOnSet(f, S) \in Int
<1> DEFINE Sum(s) == SumFunctionOnSet(f, s)
           B == { s \in SUBSET S : Sum(s) \notin Int }
<1>1. SUFFICES ASSUME B # {} PROVE FALSE
  OBVIOUS
<1>2. PICK s \in B : \A t \in B : t \subseteq s => t = s
  <2>1. B \in SUBSET (SUBSET S)
    OBVIOUS
  <2> HIDE DEF B
  <2> QED
    BY <1>1, <2>1, LeastSubset
<1>3. s # {}
  <2>1. Sum({}) \in Int
    BY SumEmpty
  <2>2. Sum(s) \notin Int
    OBVIOUS
  <2> HIDE DEF Sum, B
  <2> QED
    BY <2>1, <2>2, Zenon
<1>4. Pick(s) \in s /\ IsFiniteSet(s)
  BY <1>3, PickIn, FS_Subset
<1>5. Sum(s) = f[Pick(s)] + Sum(s \ {Pick(s)})
  BY <1>3, <1>4, SumPick
<1>6. Sum(s \ {Pick(s)}) \in Int
  BY <1>2, <1>4
<1> QED
  BY <1>4, <1>5, <1>6

\* A sum of naturals is one.
LEMMA SumNat ==
  ASSUME NEW f, NEW S, IsFiniteSet(S), \A x \in S : f[x] \in Nat
  PROVE  SumFunctionOnSet(f, S) \in Nat
<1> DEFINE Sum(s) == SumFunctionOnSet(f, s)
           B == { s \in SUBSET S : Sum(s) \notin Nat }
<1>1. SUFFICES ASSUME B # {} PROVE FALSE
  OBVIOUS
<1>2. PICK s \in B : \A t \in B : t \subseteq s => t = s
  <2>1. B \in SUBSET (SUBSET S)
    OBVIOUS
  <2> HIDE DEF B
  <2> QED
    BY <1>1, <2>1, LeastSubset
<1>3. s # {}
  <2>1. Sum({}) \in Nat
    BY SumEmpty
  <2>2. Sum(s) \notin Nat
    OBVIOUS
  <2> HIDE DEF Sum, B
  <2> QED
    BY <2>1, <2>2, Zenon
<1>4. Pick(s) \in s /\ IsFiniteSet(s)
  BY <1>3, PickIn, FS_Subset
<1>5. Sum(s) = f[Pick(s)] + Sum(s \ {Pick(s)})
  BY <1>3, <1>4, SumPick
<1>6. Sum(s \ {Pick(s)}) \in Nat
  BY <1>2, <1>4
<1> QED
  BY <1>4, <1>5, <1>6

\* Sums compare as their terms do; one strict comparison makes them differ.
LEMMA SumCompare ==
  ASSUME NEW f, NEW g, NEW S, IsFiniteSet(S),
         \A x \in S : f[x] \in Int /\ g[x] \in Int /\ f[x] <= g[x]
  PROVE  /\ SumFunctionOnSet(f, S) <= SumFunctionOnSet(g, S)
         /\ (\E a \in S : f[a] < g[a]) => SumFunctionOnSet(f, S) < SumFunctionOnSet(g, S)
<1> DEFINE F(s) == SumFunctionOnSet(f, s)
           G(s) == SumFunctionOnSet(g, s)
           Good(s) == F(s) <= G(s) /\ ((\E a \in s : f[a] < g[a]) => F(s) < G(s))
           B == { s \in SUBSET S : ~ Good(s) }
<1>1. SUFFICES ASSUME B # {} PROVE FALSE
  OBVIOUS
<1>2. PICK s \in B : \A t \in B : t \subseteq s => t = s
  <2>1. B \in SUBSET (SUBSET S)
    OBVIOUS
  <2> HIDE DEF B
  <2> QED
    BY <1>1, <2>1, LeastSubset
<1>3. s \in SUBSET S /\ ~ Good(s)
  OBVIOUS
<1>4. CASE s = {}
  <2>1. F(s) = 0 /\ G(s) = 0
    BY <1>4, SumEmpty
  <2> QED
    BY <1>3, <1>4, <2>1
<1>5. CASE s # {}
  <2> DEFINE p == Pick(s)
             t == s \ {p}
  <2>1. p \in s /\ IsFiniteSet(s) /\ t \in SUBSET S /\ t # s /\ t \subseteq s
    BY <1>5, PickIn, FS_Subset
  <2>2. IsFiniteSet(t)
    BY <2>1, FS_Subset
  <2>3. F(s) = f[p] + F(t) /\ G(s) = g[p] + G(t)
    BY <1>5, <2>1, SumPick
  <2>4. Good(t)
    BY <1>2, <2>1
  <2>5. F(t) \in Int /\ G(t) \in Int /\ f[p] \in Int /\ g[p] \in Int /\ f[p] <= g[p]
    BY <1>3, <2>1, <2>2, SumInt
  <2>6. F(s) <= G(s)
    <3> HIDE DEF F, G, p, t
    <3> QED
      BY <2>3, <2>4, <2>5 DEF Good
  <2>7. ASSUME NEW a \in s, f[a] < g[a] PROVE F(s) < G(s)
    <3>1. CASE a = p
      <4> HIDE DEF F, G, p, t
      <4> QED
        BY <2>3, <2>4, <2>5, <2>7, <3>1
    <3>2. CASE a # p
      <4>1. F(t) < G(t)
        BY <2>4, <2>7, <3>2
      <4> HIDE DEF F, G, p, t
      <4> QED
        BY <2>3, <2>5, <4>1
    <3> QED
      BY <3>1, <3>2
  <2> QED
    BY <1>3, <2>6, <2>7
<1> QED
  BY <1>4, <1>5

\* Only the terms matter.
LEMMA SumSame ==
  ASSUME NEW f, NEW g, NEW S, IsFiniteSet(S), \A x \in S : f[x] = g[x]
  PROVE  SumFunctionOnSet(f, S) = SumFunctionOnSet(g, S)
<1> DEFINE F(s) == SumFunctionOnSet(f, s)
           G(s) == SumFunctionOnSet(g, s)
           B == { s \in SUBSET S : F(s) # G(s) }
<1>1. SUFFICES ASSUME B # {} PROVE FALSE
  OBVIOUS
<1>2. PICK s \in B : \A t \in B : t \subseteq s => t = s
  <2>1. B \in SUBSET (SUBSET S)
    OBVIOUS
  <2> HIDE DEF B
  <2> QED
    BY <1>1, <2>1, LeastSubset
<1>3. s # {}
  BY <1>2, SumEmpty
<1>4. Pick(s) \in s /\ IsFiniteSet(s)
  BY <1>3, PickIn, FS_Subset
<1>5. F(s) = f[Pick(s)] + F(s \ {Pick(s)}) /\ G(s) = g[Pick(s)] + G(s \ {Pick(s)})
  BY <1>3, <1>4, SumPick
<1>6. F(s \ {Pick(s)}) = G(s \ {Pick(s)})
  BY <1>2, <1>4
<1> QED
  BY <1>2, <1>4, <1>5, <1>6

\* Any member may be taken out first.
LEMMA SumRemove ==
  ASSUME NEW f, NEW S, IsFiniteSet(S), \A x \in S : f[x] \in Int, NEW a \in S
  PROVE  SumFunctionOnSet(f, S) = f[a] + SumFunctionOnSet(f, S \ {a})
<1> DEFINE F(s) == SumFunctionOnSet(f, s)
           B == { s \in SUBSET S : \E b \in s : F(s) # f[b] + F(s \ {b}) }
<1>1. SUFFICES ASSUME B # {} PROVE FALSE
  OBVIOUS
<1>2. PICK s \in B : \A t \in B : t \subseteq s => t = s
  <2>1. B \in SUBSET (SUBSET S)
    OBVIOUS
  <2> HIDE DEF B
  <2> QED
    BY <1>1, <2>1, LeastSubset
<1>3. PICK b \in s : F(s) # f[b] + F(s \ {b})
  OBVIOUS
<1> DEFINE p == Pick(s)
<1>4. p \in s /\ IsFiniteSet(s) /\ s \in SUBSET S
  BY <1>2, PickIn, FS_Subset
<1>5. F(s) = f[p] + F(s \ {p})
  BY <1>3, <1>4, SumPick
<1>6. b # p
  BY <1>3, <1>5
<1>7. F(s \ {p}) = f[b] + F((s \ {p}) \ {b})
  <2> DEFINE t == s \ {p}
  <2>1. t \in SUBSET S /\ t \subseteq s /\ t # s /\ b \in t
    BY <1>4, <1>6
  <2>2. t \notin B
    BY <1>2, <2>1
  <2> HIDE DEF t, F
  <2>3. F(t) = f[b] + F(t \ {b})
    BY <2>1, <2>2
  <2> QED
    BY <2>3 DEF t
<1>8. F(s \ {b}) = f[p] + F((s \ {b}) \ {p})
  <2> DEFINE t == s \ {b}
  <2>1. t \in SUBSET S /\ t \subseteq s /\ t # s /\ p \in t
    BY <1>4, <1>6
  <2>2. t \notin B
    BY <1>2, <2>1
  <2> HIDE DEF t, F
  <2>3. F(t) = f[p] + F(t \ {p})
    BY <2>1, <2>2
  <2> QED
    BY <2>3 DEF t
<1>9. (s \ {p}) \ {b} = (s \ {b}) \ {p}
  OBVIOUS
<1>10. F((s \ {b}) \ {p}) \in Int
  <2>1. IsFiniteSet((s \ {b}) \ {p})
    BY <1>4, FS_Subset
  <2> QED
    BY <1>4, <2>1, SumInt
<1>11. f[b] \in Int /\ f[p] \in Int
  BY <1>4
<1>12. F(s) # f[b] + F(s \ {b})
  BY <1>3
<1>13. F((s \ {p}) \ {b}) = F((s \ {b}) \ {p})
  BY <1>9
<1> HIDE DEF F, p
<1> QED
  BY <1>5, <1>7, <1>8, <1>10, <1>11, <1>12, <1>13

\* A smaller set has no larger sum.
LEMMA SumSubset ==
  ASSUME NEW f, NEW S, IsFiniteSet(S), \A x \in S : f[x] \in Nat, NEW T \in SUBSET S
  PROVE  SumFunctionOnSet(f, T) <= SumFunctionOnSet(f, S)
<1> DEFINE F(s) == SumFunctionOnSet(f, s)
           B == { s \in SUBSET S : T \subseteq s /\ ~ (F(T) <= F(s)) }
<1>1. SUFFICES ASSUME B # {} PROVE FALSE
  OBVIOUS
<1>2. PICK s \in B : \A t \in B : t \subseteq s => t = s
  <2>1. B \in SUBSET (SUBSET S)
    OBVIOUS
  <2> HIDE DEF B
  <2> QED
    BY <1>1, <2>1, LeastSubset
<1>3. s \in SUBSET S /\ T \subseteq s /\ ~ (F(T) <= F(s)) /\ IsFiniteSet(s)
  BY <1>2, FS_Subset
<1>4. F(T) \in Nat
  <2>1. IsFiniteSet(T)
    BY FS_Subset
  <2> QED
    BY <2>1, SumNat
<1>5. PICK a \in s : a \notin T
  BY <1>3, <1>4
<1>6. F(s) = f[a] + F(s \ {a})
  BY <1>3, SumRemove
<1>7. F(T) <= F(s \ {a})
  BY <1>2, <1>5
<1>8. F(s \ {a}) \in Nat /\ f[a] \in Nat
  <2>1. IsFiniteSet(s \ {a})
    BY <1>3, FS_Subset
  <2> QED
    BY <1>3, <2>1, SumNat
<1> HIDE DEF F
<1> QED
  BY <1>3, <1>4, <1>6, <1>7, <1>8

\* The sum over a union of disjoint sets.
LEMMA SumUnion ==
  ASSUME NEW f, NEW S, IsFiniteSet(S), \A x \in S : f[x] \in Int,
         NEW T \in SUBSET S, NEW U \in SUBSET S, T \cap U = {}
  PROVE  SumFunctionOnSet(f, T \cup U) = SumFunctionOnSet(f, T) + SumFunctionOnSet(f, U)
<1> DEFINE F(s) == SumFunctionOnSet(f, s)
           B == { s \in SUBSET S : s \cap T = {} /\ F(T \cup s) # F(T) + F(s) }
<1>0. \A s \in SUBSET S : IsFiniteSet(s) /\ F(s) \in Int
  <2> SUFFICES ASSUME NEW s \in SUBSET S PROVE IsFiniteSet(s) /\ F(s) \in Int
    OBVIOUS
  <2>1. IsFiniteSet(s)
    BY FS_Subset
  <2> QED
    BY <2>1, SumInt
<1>1. SUFFICES ASSUME B # {} PROVE FALSE
  OBVIOUS
<1>2. PICK s \in B : \A t \in B : t \subseteq s => t = s
  <2>1. B \in SUBSET (SUBSET S)
    OBVIOUS
  <2> HIDE DEF B
  <2> QED
    BY <1>1, <2>1, LeastSubset
<1>3. s \in SUBSET S /\ s \cap T = {} /\ F(T \cup s) # F(T) + F(s)
  OBVIOUS
<1>4. s # {}
  <2> SUFFICES ASSUME s = {} PROVE FALSE
    OBVIOUS
  <2>1. F(s) = 0 /\ T \cup s = T
    BY SumEmpty
  <2>2. F(T) \in Int /\ F(T \cup s) = F(T)
    BY <1>0, <2>1
  <2> HIDE DEF F, B
  <2> QED
    BY <1>3, <2>1, <2>2
<1>5. PICK a \in s : TRUE
  BY <1>4
<1> DEFINE t == s \ {a}
<1>6. t \in SUBSET S /\ t \cap T = {} /\ t # s /\ t \subseteq s
  BY <1>3
<1>7. F(T \cup t) = F(T) + F(t)
  <2>1. t \notin B
    BY <1>2, <1>6
  <2> HIDE DEF F, t
  <2> QED
    BY <1>6, <2>1
<1>8. F(s) = f[a] + F(t)
  BY <1>0, <1>3, SumRemove
<1>9. F(T \cup s) = f[a] + F(T \cup t)
  <2>1. (T \cup s) \ {a} = T \cup t /\ a \in T \cup s /\ T \cup s \in SUBSET S
    BY <1>3
  <2>2. IsFiniteSet(T \cup s) /\ \A x \in T \cup s : f[x] \in Int
    BY <1>0, <2>1
  <2>3. SumFunctionOnSet(f, T \cup s) = f[a] + SumFunctionOnSet(f, (T \cup s) \ {a})
    BY <2>1, <2>2, SumRemove
  <2> QED
    BY <2>1, <2>3
<1>10. F(T) \in Int /\ F(t) \in Int /\ f[a] \in Int
  BY <1>0, <1>3, <1>6
<1> HIDE DEF F, t, B
<1> QED
  BY <1>3, <1>7, <1>8, <1>9, <1>10

\* The sum over one member.
LEMMA SumOne ==
  ASSUME NEW f, NEW a, f[a] \in Int
  PROVE  SumFunctionOnSet(f, {a}) = f[a]
<1>1. IsFiniteSet({a}) /\ \A x \in {a} : f[x] \in Int
  BY FS_Singleton
<1>2. SumFunctionOnSet(f, {a}) = f[a] + SumFunctionOnSet(f, {a} \ {a})
  BY <1>1, SumRemove
<1>3. SumFunctionOnSet(f, {a} \ {a}) = 0
  <2>1. {a} \ {a} = {}
    OBVIOUS
  <2> QED
    BY <2>1, SumEmpty
<1> QED
  BY <1>2, <1>3

-----------------------------------------------------------------------------
(* Greatest and least members, images, function spaces. *)

\* A finite set of whole numbers has a greatest member, and Max is it.
LEMMA MaxIs ==
  ASSUME NEW S, \A x \in S : x \in Int, IsFiniteSet(S), S # {}
  PROVE  Max(S) \in S /\ \A x \in S : x <= Max(S)
<1> DEFINE Bounded(s) == \E m \in s : \A x \in s : m >= x
           B == { s \in SUBSET S : s # {} /\ ~ Bounded(s) }
<1>1. ASSUME B # {} PROVE FALSE
  <2>1. PICK s \in B : \A t \in B : t \subseteq s => t = s
    <3>1. B \in SUBSET (SUBSET S)
      OBVIOUS
    <3> HIDE DEF B
    <3> QED
      BY <1>1, <3>1, LeastSubset
  <2>2. s \in SUBSET S /\ s # {} /\ ~ Bounded(s)
    OBVIOUS
  <2>3. PICK p \in s : TRUE
    BY <2>2
  <2> DEFINE t == s \ {p}
  <2>4. \A x \in s : x \in Int
    BY <2>2
  <2>5. t # {}
    <3>1. ASSUME t = {} PROVE Bounded(s)
      <4>1. \A x \in s : x = p /\ p >= x
        BY <2>4, <3>1
      <4> QED
        BY <2>3, <4>1
    <3> QED
      BY <2>2, <3>1
  <2>6. Bounded(t)
    <3>1. t \in SUBSET S /\ t \subseteq s /\ t # s
      BY <2>2, <2>3
    <3> HIDE DEF Bounded, t
    <3> QED
      BY <2>1, <2>5, <3>1
  <2>7. PICK m \in t : \A x \in t : m >= x
    BY <2>6
  <2>8. m \in s /\ m \in Int /\ p \in Int
    BY <2>4
  <2>9. CASE m >= p
    <3>1. \A x \in s : m >= x
      BY <2>7, <2>9
    <3> QED
      BY <2>2, <2>8, <3>1
  <2>10. CASE ~ (m >= p)
    <3>1. \A x \in s : p >= x
      BY <2>4, <2>7, <2>8, <2>10
    <3> QED
      BY <2>2, <3>1
  <2> QED
    BY <2>9, <2>10
<1>2. Bounded(S)
  BY <1>1
<1>3. Max(S) \in S /\ \A x \in S : Max(S) >= x
  BY <1>2 DEF Max
<1> HIDE DEF B, Bounded
<1> QED
  BY <1>3

\* Whoever is a member and not exceeded is the greatest.
LEMMA MaxUnique ==
  ASSUME NEW S, \A x \in S : x \in Int, NEW m \in S, \A x \in S : x <= m
  PROVE  Max(S) = m
<1>1. Max(S) \in S /\ \A x \in S : Max(S) >= x
  <2>1. \E k \in S : \A x \in S : k >= x
    OBVIOUS
  <2> QED
    BY <2>1 DEF Max
<1>2. Max(S) \in Int /\ m \in Int /\ Max(S) >= m /\ Max(S) <= m
  BY <1>1
<1> QED
  BY <1>2

\* Whoever is a member and not undercut is the least.
LEMMA MinUnique ==
  ASSUME NEW S, \A x \in S : x \in Int, NEW m \in S, \A x \in S : m <= x
  PROVE  Min(S) = m
<1>1. Min(S) \in S /\ \A x \in S : Min(S) <= x
  <2>1. \E k \in S : \A x \in S : k <= x
    OBVIOUS
  <2> QED
    BY <2>1 DEF Min
<1>2. Min(S) \in Int /\ m \in Int /\ Min(S) >= m /\ Min(S) <= m
  BY <1>1
<1> QED
  BY <1>2

\* The values a function takes on a finite set are finitely many.
LEMMA ImageFinite ==
  ASSUME NEW S, IsFiniteSet(S), NEW f
  PROVE  IsFiniteSet({ f[x] : x \in S })
<1> DEFINE T == { f[x] : x \in S }
           g == [x \in S |-> f[x]]
<1>1. g \in Surjection(S, T)
  BY DEF Surjection
<1> HIDE DEF g, T
<1>2. IsFiniteSet(T)
  BY <1>1, FS_Surjection
<1> QED
  BY <1>2 DEF T

\* There are finitely many functions between finite sets.
LEMMA FunctionsFinite ==
  ASSUME NEW S, NEW T, IsFiniteSet(S), IsFiniteSet(T)
  PROVE  IsFiniteSet([S -> T])
<1> DEFINE graph == [f \in [S -> T] |-> { <<x, f[x]>> : x \in S }]
           G == SUBSET (S \X T)
<1>1. IsFiniteSet(G)
  BY FS_Product, FS_SUBSET
<1>2. graph \in [[S -> T] -> G]
  OBVIOUS
<1>3. ASSUME NEW f \in [S -> T], NEW g \in [S -> T], graph[f] = graph[g] PROVE f = g
  <2>1. ASSUME NEW x \in S PROVE f[x] = g[x]
    <3>1. <<x, f[x]>> \in graph[f]
      OBVIOUS
    <3>2. PICK z \in S : <<x, f[x]>> = <<z, g[z]>>
      BY <1>3, <3>1
    <3> QED
      BY <3>2
  <2> QED
    BY <2>1
<1>4. graph \in Injection([S -> T], G)
  <2> HIDE DEF graph
  <2> QED
    BY <1>2, <1>3 DEF Injection, IsInjective
<1> HIDE DEF graph, G
<1> QED
  BY <1>1, <1>4, FS_Injection

\* Every nonempty set of naturals has a least member.
LEMMA LeastNat ==
  ASSUME NEW B \in SUBSET Nat, B # {}
  PROVE  \E n \in B : \A m \in B : n <= m
<1>1. PICK n \in B : \A m \in B : ~ (<<m, n>> \in OpToRel(<, Nat))
  BY NatLessThanWellFounded, WFMin
<1>2. ASSUME NEW m \in B PROVE n <= m
  <2>1. m \in Nat /\ n \in Nat
    OBVIOUS
  <2>2. ~ (m < n)
    BY <1>1, <2>1 DEF OpToRel
  <2> QED
    BY <2>1, <2>2
<1> QED
  BY <1>2

\* A sum over disjoint rows is the sum of the rows' sums.
LEMMA SumRows ==
  ASSUME NEW K, IsFiniteSet(K), NEW U, IsFiniteSet(U), NEW f, \A x \in U : f[x] \in Int,
         NEW parts, \A k \in K : parts[k] \in SUBSET U,
         \A j, k \in K : j # k => parts[j] \cap parts[k] = {},
         NEW g, \A k \in K : g[k] = SumFunctionOnSet(f, parts[k])
  PROVE  SumFunctionOnSet(f, UNION { parts[k] : k \in K }) = SumFunctionOnSet(g, K)
<1> DEFINE F(s) == SumFunctionOnSet(f, s)
           G(s) == SumFunctionOnSet(g, s)
           All(s) == UNION { parts[k] : k \in s }
           B == { s \in SUBSET K : F(All(s)) # G(s) }
<1>1. \A s \in SUBSET U : F(s) \in Int
  <2> SUFFICES ASSUME NEW s \in SUBSET U PROVE F(s) \in Int
    OBVIOUS
  <2>1. IsFiniteSet(s)
    BY FS_Subset
  <2> QED
    BY <2>1, SumInt
<1>2. \A k \in K : g[k] \in Int
  BY <1>1
<1>3. ASSUME B # {} PROVE FALSE
  <2>1. PICK s \in B : \A t \in B : t \subseteq s => t = s
    <3>1. B \in SUBSET (SUBSET K)
      OBVIOUS
    <3> HIDE DEF B
    <3> QED
      BY <1>3, <3>1, LeastSubset
  <2>2. s \in SUBSET K /\ F(All(s)) # G(s)
    OBVIOUS
  <2>3. s # {}
    <3> SUFFICES ASSUME s = {} PROVE FALSE
      OBVIOUS
    <3>1. All(s) = {}
      OBVIOUS
    <3>2. F({}) = 0 /\ G({}) = 0
      BY SumEmpty
    <3> HIDE DEF F, G, All, B
    <3> QED
      BY <2>2, <3>1, <3>2
  <2>4. PICK a \in s : TRUE
    BY <2>3
  <2> DEFINE t == s \ {a}
  <2>5. t \in SUBSET K /\ t \subseteq s /\ t # s /\ a \in K
    BY <2>2
  <2>6. F(All(t)) = G(t)
    <3>1. t \notin B
      BY <2>1, <2>5
    <3> HIDE DEF F, G, All, t
    <3> QED
      BY <2>5, <3>1
  <2>7. All(s) = parts[a] \cup All(t)
    BY <2>4
  <2>8. All(t) \in SUBSET U /\ parts[a] \in SUBSET U /\ parts[a] \cap All(t) = {}
    BY <2>2, <2>5
  <2>9. F(parts[a] \cup All(t)) = F(parts[a]) + F(All(t))
    <3> HIDE DEF All, t
    <3> QED
      BY <2>8, SumUnion
  <2>10. G(s) = g[a] + G(t)
    <3>1. IsFiniteSet(s) /\ \A k \in s : g[k] \in Int
      BY <1>2, <2>2, FS_Subset
    <3> QED
      BY <3>1, SumRemove
  <2>11. g[a] = F(parts[a])
    BY <2>5
  <2> HIDE DEF F, G, All, t, B
  <2> QED
    BY <2>2, <2>6, <2>7, <2>9, <2>10, <2>11
<1>4. F(All(K)) = G(K)
  <2>1. B = {}
    BY <1>3
  <2> HIDE DEF F, G, All
  <2> QED
    BY <2>1
<1> QED
  BY <1>4

\* f charges, on row t, what each step adds to the price l.
Steps(f, t, l) ==
  \A j \in Nat : j < Len(l) =>
    f[<<t, j>>] = (IF j = 0 THEN l[1] ELSE l[j + 1] - l[j])

\* What is charged step by step adds up to the price of the last step.
LEMMA Telescope ==
  ASSUME NEW l \in Seq(Nat), NEW t, NEW f, Steps(f, t, l),
         NEW n \in Nat, n < Len(l), NEW R, R = {t} \X (0 .. n)
  PROVE  SumFunctionOnSet(f, R) = l[n + 1]
<1> DEFINE Row(m) == {t} \X (0 .. m)
           F(s) == SumFunctionOnSet(f, s)
           B == { m \in Nat : m < Len(l) /\ F(Row(m)) # l[m + 1] }
<1>1. ASSUME NEW j \in Nat, j < Len(l) PROVE f[<<t, j>>] \in Int
  <2>1. f[<<t, j>>] = (IF j = 0 THEN l[1] ELSE l[j + 1] - l[j])
    BY <1>1 DEF Steps
  <2>2. l[j + 1] \in Nat /\ (j # 0 => l[j] \in Nat) /\ (j = 0 => l[1] \in Nat)
    BY <1>1
  <2> QED
    BY <2>1, <2>2
<1>2. ASSUME B # {} PROVE FALSE
  <2>1. PICK m \in B : \A k \in B : m <= k
    <3>1. B \in SUBSET Nat
      OBVIOUS
    <3> HIDE DEF B
    <3> QED
      BY <1>2, <3>1, LeastNat
  <2>2. m \in Nat /\ m < Len(l) /\ F(Row(m)) # l[m + 1]
    OBVIOUS
  <2>3. CASE m = 0
    <3>1. Row(m) = {<<t, 0>>}
      BY <2>3
    <3>2. f[<<t, 0>>] = l[1] /\ f[<<t, 0>>] \in Int
      BY <1>1, <2>2, <2>3 DEF Steps
    <3>3. F({<<t, 0>>}) = l[1]
      BY <3>2, SumOne
    <3>4. F(Row(m)) = F({<<t, 0>>}) /\ l[m + 1] = l[1]
      <4>1. m + 1 = 1
        BY <2>3
      <4> HIDE DEF Row
      <4> QED
        BY <3>1, <4>1
    <3> HIDE DEF F, Row, B
    <3> QED
      BY <2>2, <3>3, <3>4
  <2>4. CASE m # 0
    <3>0. m \in Nat /\ m < Len(l) /\ Len(l) \in Nat
      BY <2>2
    <3>1. m - 1 \in Nat /\ m - 1 < Len(l) /\ m - 1 \notin B
      <4> HIDE DEF B
      <4> QED
        BY <2>1, <2>4, <3>0
    <3>2. F(Row(m - 1)) = l[m]
      <4> HIDE DEF F, Row
      <4> QED
        BY <3>1
    <3>3. Row(m) \ {<<t, m>>} = Row(m - 1) /\ <<t, m>> \in Row(m)
      BY <2>2, <2>4
    <3>4. IsFiniteSet(Row(m)) /\ \A x \in Row(m) : f[x] \in Int
      <4>0. 0 \in Int /\ m \in Int
        BY <3>0
      <4>1. IsFiniteSet(0 .. m) /\ IsFiniteSet({t})
        BY <4>0, FS_Interval, FS_Singleton, Zenon
      <4>2. IsFiniteSet(Row(m))
        BY <4>1, FS_Product
      <4> QED
        BY <1>1, <2>2, <4>2
    <3>5. F(Row(m)) = f[<<t, m>>] + F(Row(m) \ {<<t, m>>})
      <4> DEFINE S == Row(m)
             i == <<t, m>>
      <4>1. IsFiniteSet(S) /\ (\A x \in S : f[x] \in Int) /\ i \in S
        BY <3>3, <3>4
      <4> HIDE DEF S, Row, i
      <4>2. SumFunctionOnSet(f, S) = f[i] + SumFunctionOnSet(f, S \ {i})
        BY <4>1, SumRemove
      <4> QED
        BY <4>2 DEF S, i
    <3>6. f[<<t, m>>] = l[m + 1] - l[m] /\ l[m + 1] \in Nat /\ l[m] \in Nat
      BY <2>2, <2>4 DEF Steps
    <3>7. F(Row(m)) = (l[m + 1] - l[m]) + l[m]
      <4> HIDE DEF F, Row, B
      <4> QED
        BY <3>2, <3>3, <3>5, <3>6
    <3> HIDE DEF F, Row, B
    <3> QED
      BY <2>2, <3>6, <3>7
  <2> QED
    BY <2>3, <2>4
<1>3. n \notin B
  BY <1>2
<1>4. F(Row(n)) = l[n + 1]
  <2> HIDE DEF F, Row
  <2> QED
    BY <1>3
<1> QED
  BY <1>4

-----------------------------------------------------------------------------
(* One call: gains, credits and what a query can make of a deployment.     *)

\* What a call is made of.
LEMMA CallFacts ==
  ASSUME NEW in, IsCall(in)
  PROVE  /\ IsFiniteSet(Candidates(in)) /\ IsFiniteSet(Workload(in)) /\ None \notin Nat
         /\ PhysStats(in) \subseteq Candidates(in) /\ Helpful(in) \subseteq PhysStats(in)
         /\ in.level \in [Candidates(in) -> Nat]
         /\ in.class \in {"sparse", "multiplicative"} /\ in.disjoint \in BOOLEAN
         /\ in.cap \in Nat \cup {None} /\ in.maint \in Nat \cup {None} /\ in.bytes \in Nat
         /\ in.cost \in [Candidates(in) -> Nat] /\ in.var \in [Candidates(in) -> Nat]
         /\ in.base \in [Workload(in) -> Nat] /\ in.weight \in [Workload(in) -> Nat]
         /\ \A q \in Workload(in) :
              /\ DOMAIN in.err[q] \subseteq Candidates(in)
              /\ \A s \in DOMAIN in.err[q] : in.err[q][s] \in Nat
              /\ in.class = "sparse" =>
                   in.base[q] > 0 /\ \A s \in DOMAIN in.err[q] : in.err[q][s] > 0
         /\ \A t \in DOMAIN in.ladder : in.ladder[t] \in Seq(Nat)
BY NoneAssumption DEF IsCall

\* The statistics on offer are finitely many, and each option is one of them and
\* helps its query.
LEMMA OptionFacts ==
  ASSUME NEW in, IsCall(in)
  PROVE  /\ PhysStats(in) \in SUBSET Candidates(in) /\ IsFiniteSet(PhysStats(in))
         /\ \A q \in Workload(in) : Options(in, q) \in SUBSET PhysStats(in)
         /\ \A q \in Workload(in) : Options(in, q) \in SUBSET Helpful(in)
         /\ \A q \in Workload(in) : \A s \in Options(in, q) :
              /\ in.err[q][s] \in Nat /\ in.base[q] \in Nat /\ in.err[q][s] < in.base[q]
              /\ Improvement(in, q)[s] = in.base[q] - in.err[q][s]
              /\ Improvement(in, q)[s] \in Nat /\ Improvement(in, q)[s] > 0
<1>1. PhysStats(in) \in SUBSET Candidates(in)
  BY CallFacts
<1>2. IsFiniteSet(PhysStats(in))
  BY <1>1, CallFacts, FS_Subset
<1>3. /\ \A q \in Workload(in) : Options(in, q) \in SUBSET PhysStats(in)
      /\ \A q \in Workload(in) : Options(in, q) \in SUBSET Helpful(in)
  <2>1. \A q \in Workload(in) : Options(in, q) \in SUBSET Helpful(in)
    BY DEF Helpful
  <2>2. Helpful(in) \subseteq PhysStats(in)
    BY CallFacts
  <2> QED
    BY <2>1, <2>2
<1>4. ASSUME NEW q \in Workload(in), NEW s \in Options(in, q)
      PROVE  /\ in.err[q][s] \in Nat /\ in.base[q] \in Nat /\ in.err[q][s] < in.base[q]
             /\ Improvement(in, q)[s] = in.base[q] - in.err[q][s]
             /\ Improvement(in, q)[s] \in Nat /\ Improvement(in, q)[s] > 0
  <2>1. s \in DOMAIN in.err[q] /\ in.err[q][s] < in.base[q]
    BY DEF Options
  <2>2. in.err[q][s] \in Nat /\ in.base[q] \in Nat
    BY <2>1, CallFacts
  <2>3. Improvement(in, q)[s] = in.base[q] - in.err[q][s]
    BY <2>1 DEF Improvement
  <2> QED
    BY <2>1, <2>2, <2>3
<1> QED
  BY <1>1, <1>2, <1>3, <1>4

\* What statistics gain a query is a natural number: nothing for none, the
\* improvement for one.
LEMMA GainFacts ==
  ASSUME NEW in, IsCall(in), NEW q \in Workload(in), NEW S \in SUBSET Options(in, q)
  PROVE  /\ IsFiniteSet(S) /\ Gain(in, q, S) \in Nat /\ Gain(in, q, {}) = 0
         /\ \A s \in Options(in, q) : Gain(in, q, {s}) = in.base[q] - in.err[q][s]
<1>1. IsFiniteSet(S)
  BY OptionFacts, FS_Subset
<1>2. Gain(in, q, S) \in Nat
  <2>1. \A s \in S : Improvement(in, q)[s] \in Nat
    BY OptionFacts
  <2> QED
    BY <1>1, <2>1, SumNat DEF Gain
<1>3. Gain(in, q, {}) = 0
  BY SumEmpty DEF Gain
<1>4. ASSUME NEW s \in Options(in, q) PROVE Gain(in, q, {s}) = in.base[q] - in.err[q][s]
  <2>1. Improvement(in, q)[s] = in.base[q] - in.err[q][s] /\ Improvement(in, q)[s] \in Int
    BY OptionFacts
  <2> QED
    BY <2>1, SumOne DEF Gain
<1> QED
  BY <1>1, <1>2, <1>3, <1>4

\* A set of at most one member.
LEMMA AtMostOne ==
  ASSUME NEW S, IsFiniteSet(S), Cardinality(S) <= 1
  PROVE  S = {} \/ \E s \in S : S = {s}
<1>1. Cardinality(S) = 0 \/ Cardinality(S) = 1
  BY FS_CardinalityType
<1>2. CASE Cardinality(S) = 0
  BY <1>2, FS_EmptySet
<1>3. CASE Cardinality(S) = 1
  <2>1. \E x : S = {x}
    BY <1>3, FS_Singleton
  <2> QED
    BY <2>1
<1> QED
  BY <1>1, <1>2, <1>3

\* The sets of statistics of D a query may use.
Uses(in, q, D) == { U \in SUBSET (D \cap Options(in, q)) : Usable(in, q, U) }

\* Some usable set attains what the query can gain, and none gains more.
LEMMA BestUseFacts ==
  ASSUME NEW in, IsCall(in), NEW q \in Workload(in), NEW D
  PROVE  /\ BestUse(in, q, D) \in Nat
         /\ \E S \in Uses(in, q, D) : Gain(in, q, S) = BestUse(in, q, D)
         /\ \A S \in Uses(in, q, D) : Gain(in, q, S) \in Nat
              /\ Gain(in, q, S) <= BestUse(in, q, D)
         /\ {} \in Uses(in, q, D)
<1> DEFINE gains == { Gain(in, q, S) : S \in Uses(in, q, D) }
<1>1. BestUse(in, q, D) = Max(gains)
  BY DEF BestUse, Uses
<1>2. \A S \in Uses(in, q, D) : S \in SUBSET Options(in, q)
  BY DEF Uses
<1>3. \A S \in Uses(in, q, D) : Gain(in, q, S) \in Nat
  BY <1>2, GainFacts
<1>4. {} \in Uses(in, q, D)
  <2>1. Gain(in, q, {}) = 0 /\ Cardinality({}) = 0
    BY GainFacts, FS_EmptySet
  <2>2. in.base[q] \in Nat /\ in.cap \in Nat \cup {None}
    BY CallFacts
  <2>3. Usable(in, q, {})
    BY <2>1, <2>2 DEF Usable
  <2> QED
    BY <2>3 DEF Uses
<1>5. IsFiniteSet(Uses(in, q, D))
  <2>1. IsFiniteSet(SUBSET Options(in, q))
    BY OptionFacts, FS_Subset, FS_SUBSET
  <2>2. Uses(in, q, D) \in SUBSET (SUBSET Options(in, q))
    BY <1>2
  <2> QED
    BY <2>1, <2>2, FS_Subset
<1>6. IsFiniteSet(gains) /\ gains # {} /\ \A x \in gains : x \in Int
  <2> DEFINE f == [S \in Uses(in, q, D) |-> Gain(in, q, S)]
  <2>1. IsFiniteSet({ f[S] : S \in Uses(in, q, D) })
    <3> HIDE DEF f
    <3> QED
      BY <1>5, ImageFinite
  <2>2. { f[S] : S \in Uses(in, q, D) } = gains
    OBVIOUS
  <2> QED
    BY <1>3, <1>4, <2>1, <2>2
<1>7. Max(gains) \in gains /\ \A x \in gains : x <= Max(gains)
  <2> HIDE DEF gains
  <2> QED
    BY <1>6, MaxIs
<1>8. \E S \in Uses(in, q, D) : Gain(in, q, S) = BestUse(in, q, D)
  BY <1>1, <1>7
<1>9. \A S \in Uses(in, q, D) : Gain(in, q, S) <= BestUse(in, q, D)
  BY <1>1, <1>7
<1> QED
  BY <1>3, <1>4, <1>8, <1>9

\* Weighing keeps the order.
LEMMA Weighing ==
  ASSUME NEW w \in Nat, NEW a \in Nat, NEW b \in Nat, a <= b
  PROVE  /\ w * a \in Nat /\ w * b \in Nat /\ w * a <= w * b
         /\ w > 0 /\ a < b => w * a < w * b
<1>1. w * a \in Nat /\ w * b \in Nat /\ w * (b - a) \in Nat /\ b - a \in Nat
  OBVIOUS
<1>2. w * b = w * a + w * (b - a)
  BY SMT
<1>3. w > 0 /\ a < b => w * (b - a) > 0
  BY SMT
<1> QED
  BY <1>1, <1>2, <1>3

\* What a selection is credited for never exceeds the worth of what was created;
\* when it reaches it, every query that counts makes the best use of it.
LEMMA CreditAtMostWorth ==
  ASSUME NEW in, IsCall(in), NEW y, NEW x \in Selections(in, y), Selectable(in, x)
  PROVE  /\ Credit(in, x) \in Nat /\ Worth(in, y) \in Nat /\ Credit(in, x) <= Worth(in, y)
         /\ Credit(in, x) = Worth(in, y) =>
              \A q \in Workload(in) : in.weight[q] > 0 => Gain(in, q, x[q]) = BestUse(in, q, y)
<1> DEFINE f == [q \in Workload(in) |-> in.weight[q] * Gain(in, q, x[q])]
           g == [q \in Workload(in) |-> in.weight[q] * BestUse(in, q, y)]
<1>1. Credit(in, x) = SumFunctionOnSet(f, Workload(in))
        /\ Worth(in, y) = SumFunctionOnSet(g, Workload(in))
  BY DEF Credit, Worth, SumFunction
<1>2. \A q \in Workload(in) : x[q] \in Uses(in, q, y)
  <2> SUFFICES ASSUME NEW q \in Workload(in) PROVE x[q] \in Uses(in, q, y)
    OBVIOUS
  <2>1. x[q] \in SUBSET y /\ x[q] \subseteq Options(in, q)
    BY DEF Selections
  <2>2. Usable(in, q, x[q])
    BY DEF Selectable, WithinCap, OverlapFree, AboveFloor, Usable
  <2> QED
    BY <2>1, <2>2 DEF Uses
<1>3. ASSUME NEW q \in Workload(in)
      PROVE  /\ f[q] \in Nat /\ g[q] \in Nat /\ f[q] <= g[q]
             /\ in.weight[q] > 0 /\ Gain(in, q, x[q]) # BestUse(in, q, y) => f[q] < g[q]
  <2>1. in.weight[q] \in Nat
    BY CallFacts
  <2>2. Gain(in, q, x[q]) \in Nat /\ BestUse(in, q, y) \in Nat
          /\ Gain(in, q, x[q]) <= BestUse(in, q, y)
    BY <1>2, BestUseFacts
  <2>3. f[q] = in.weight[q] * Gain(in, q, x[q]) /\ g[q] = in.weight[q] * BestUse(in, q, y)
    OBVIOUS
  <2>4. Gain(in, q, x[q]) # BestUse(in, q, y) => Gain(in, q, x[q]) < BestUse(in, q, y)
    BY <2>2
  <2> HIDE DEF f, g
  <2> QED
    BY <2>1, <2>2, <2>3, <2>4, Weighing
<1>4. IsFiniteSet(Workload(in))
  BY CallFacts
<1> HIDE DEF f, g
<1>5. Credit(in, x) \in Nat /\ Worth(in, y) \in Nat
  BY <1>1, <1>3, <1>4, SumNat
<1>6. \A q \in Workload(in) : f[q] \in Int /\ g[q] \in Int /\ f[q] <= g[q]
  BY <1>3
<1>7. /\ Credit(in, x) <= Worth(in, y)
      /\ (\E q \in Workload(in) : f[q] < g[q]) => Credit(in, x) < Worth(in, y)
  BY <1>1, <1>4, <1>6, SumCompare
<1>8. Credit(in, x) = Worth(in, y) => \A q \in Workload(in) : ~ (f[q] < g[q])
  BY <1>5, <1>7
<1> QED
  BY <1>3, <1>5, <1>7, <1>8

\* Some selection is credited for all a created set is worth.
LEMMA WorthAttained ==
  ASSUME NEW in, IsCall(in), NEW y
  PROVE  \E x \in Selections(in, y) : Selectable(in, x) /\ Credit(in, x) = Worth(in, y)
<1> DEFINE x == [q \in Workload(in) |->
                   CHOOSE S \in Uses(in, q, y) : Gain(in, q, S) = BestUse(in, q, y)]
           f == [q \in Workload(in) |-> in.weight[q] * Gain(in, q, x[q])]
           g == [q \in Workload(in) |-> in.weight[q] * BestUse(in, q, y)]
<1>1. ASSUME NEW q \in Workload(in)
      PROVE  x[q] \in Uses(in, q, y) /\ Gain(in, q, x[q]) = BestUse(in, q, y)
  <2>1. \E S \in Uses(in, q, y) : Gain(in, q, S) = BestUse(in, q, y)
    BY BestUseFacts
  <2>2. x[q] = CHOOSE S \in Uses(in, q, y) : Gain(in, q, S) = BestUse(in, q, y)
    OBVIOUS
  <2> HIDE DEF x
  <2> QED
    BY <2>1, <2>2
<1>2. x = [q \in Workload(in) |-> x[q]] /\ DOMAIN x = Workload(in)
  OBVIOUS
<1> HIDE DEF x
<1>3. x \in Selections(in, y)
  <2>1. \A q \in Workload(in) : x[q] \in SUBSET (y \cap Helpful(in))
                                /\ x[q] \subseteq Options(in, q)
    BY <1>1, OptionFacts DEF Uses
  <2> QED
    BY <1>2, <2>1 DEF Selections
<1>4. Selectable(in, x)
  BY <1>1 DEF Uses, Selectable, WithinCap, OverlapFree, AboveFloor, Usable
<1>5. f = g
  BY <1>1
<1>6. Credit(in, x) = SumFunction(f) /\ Worth(in, y) = SumFunction(g)
  BY DEF Credit, Worth
<1> HIDE DEF f, g
<1> QED
  BY <1>3, <1>4, <1>5, <1>6

\* The credits a solution can have are finitely many naturals.
LEMMA CreditsFinite ==
  ASSUME NEW in, IsCall(in)
  PROVE  /\ IsFiniteSet({ Credit(in, f.x) : f \in Feasible(in) })
         /\ \A c \in { Credit(in, f.x) : f \in Feasible(in) } : c \in Int
<1> DEFINE X == [Workload(in) -> SUBSET Candidates(in)]
           credit == [x \in X |-> Credit(in, x)]
           C == { Credit(in, f.x) : f \in Feasible(in) }
<1>1. IsFiniteSet(X)
  <2>1. IsFiniteSet(SUBSET Candidates(in)) /\ IsFiniteSet(Workload(in))
    BY CallFacts, FS_SUBSET
  <2> QED
    BY <2>1, FunctionsFinite
<1>2. IsFiniteSet({ credit[x] : x \in X })
  <2> HIDE DEF X, credit
  <2> QED
    BY <1>1, ImageFinite
<1>3. ASSUME NEW f \in Feasible(in) PROVE f.x \in X /\ Credit(in, f.x) \in Int
  <2>1. PICK y \in SUBSET PhysStats(in) :
               \E x \in Selections(in, y) : Selectable(in, x) /\ f = [y |-> y, x |-> x]
    BY DEF Feasible
  <2>2. PICK x \in Selections(in, y) : Selectable(in, x) /\ f = [y |-> y, x |-> x]
    BY <2>1
  <2>3. x \in X
    BY <2>1, OptionFacts DEF Selections
  <2>4. Credit(in, x) \in Int
    BY <2>2, CreditAtMostWorth
  <2> QED
    BY <2>2, <2>3, <2>4
<1>4. C \in SUBSET { credit[x] : x \in X }
  <2>1. \A x \in X : credit[x] = Credit(in, x)
    OBVIOUS
  <2> HIDE DEF X, credit
  <2> QED
    BY <1>3, <2>1
<1>5. IsFiniteSet(C)
  <2> HIDE DEF C, X, credit
  <2> QED
    BY <1>2, <1>4, FS_Subset
<1> QED
  BY <1>3, <1>5

\* A solution without rival: it is feasible, its credit is all that what it creates
\* is worth, and no set that may be created is worth more.
LEMMA OptimalFacts ==
  ASSUME NEW in, IsCall(in), NEW f \in Optimal(in)
  PROVE  /\ f.y \in SUBSET PhysStats(in) /\ Creatable(in, f.y)
         /\ f.x \in Selections(in, f.y) /\ Selectable(in, f.x)
         /\ Credit(in, f.x) = Worth(in, f.y)
         /\ \A y \in SUBSET PhysStats(in) : Creatable(in, y) => Worth(in, y) <= Worth(in, f.y)
<1> DEFINE C == { Credit(in, z.x) : z \in Feasible(in) }
<1>1. f \in Feasible(in) /\ Credit(in, f.x) = Max(C)
  BY DEF Optimal
<1>2. /\ f.y \in SUBSET PhysStats(in) /\ Creatable(in, f.y)
      /\ f.x \in Selections(in, f.y) /\ Selectable(in, f.x)
  BY <1>1 DEF Feasible
<1>3. \A c \in C : c <= Max(C)
  <2>1. IsFiniteSet(C) /\ C # {} /\ \A c \in C : c \in Int
    BY <1>1, CreditsFinite
  <2> HIDE DEF C
  <2> QED
    BY <2>1, MaxIs
<1>4. ASSUME NEW y \in SUBSET PhysStats(in), Creatable(in, y)
      PROVE  Worth(in, y) <= Credit(in, f.x)
  <2>1. PICK x \in Selections(in, y) : Selectable(in, x) /\ Credit(in, x) = Worth(in, y)
    BY WorthAttained
  <2>2. [y |-> y, x |-> x] \in Feasible(in)
    BY <1>4, <2>1 DEF Feasible
  <2>3. Credit(in, x) \in C
    BY <2>2
  <2> HIDE DEF C
  <2> QED
    BY <1>1, <1>3, <2>1, <2>3
<1>5. Credit(in, f.x) = Worth(in, f.y)
  <2>1. Credit(in, f.x) \in Nat /\ Worth(in, f.y) \in Nat /\ Credit(in, f.x) <= Worth(in, f.y)
    BY <1>2, CreditAtMostWorth
  <2>2. Worth(in, f.y) <= Credit(in, f.x)
    BY <1>2, <1>4
  <2> QED
    BY <2>1, <2>2
<1> QED
  BY <1>2, <1>4, <1>5

-----------------------------------------------------------------------------
(* The maintenance profile: indicators against the price of a deployment.  *)

\* The tables of a deployment that have a fixed charge, and the indicators its
\* statistics switch on.
PricedIn(in, D) == { in.table[s] : s \in D } \cap DOMAIN in.ladder
SwitchedOn(in, D) == UNION { Triggered(in, s) : s \in D }

\* The highest level of a table's statistics is one of them.
LEMMA HighestFacts ==
  ASSUME NEW in, IsCall(in), NEW D \in SUBSET PhysStats(in), NEW t \in { in.table[s] : s \in D }
  PROVE  /\ HighestOn(in, D, t) \in Nat
         /\ \E s \in D : in.table[s] = t /\ in.level[s] = HighestOn(in, D, t)
         /\ \A s \in D : in.table[s] = t => in.level[s] \in Nat
              /\ in.level[s] <= HighestOn(in, D, t)
<1> DEFINE E == { d \in D : in.table[d] = t }
           L == { in.level[s] : s \in E }
<1>1. IsFiniteSet(E) /\ E # {}
  <2>1. IsFiniteSet(PhysStats(in)) /\ E \in SUBSET PhysStats(in)
    BY OptionFacts
  <2>2. E # {}
    OBVIOUS
  <2> HIDE DEF E
  <2> QED
    BY <2>1, <2>2, FS_Subset
<1>2. \A s \in E : in.level[s] \in Nat
  BY OptionFacts, CallFacts
<1>3. IsFiniteSet(L)
  <2> HIDE DEF E
  <2> QED
    BY <1>1, ImageFinite
<1>4. L # {} /\ \A x \in L : x \in Int
  <2> HIDE DEF E
  <2> QED
    BY <1>1, <1>2
<1>5. Max(L) \in L /\ \A x \in L : x <= Max(L)
  <2> HIDE DEF L
  <2> QED
    BY <1>3, <1>4, MaxIs
<1>6. HighestOn(in, D, t) = Max(L)
  BY DEF HighestOn
<1> QED
  BY <1>2, <1>5, <1>6

\* On an accepted profile every level of a priced table has its step, and the
\* highest one created is no higher than the highest that could be.
LEMMA LadderFacts ==
  ASSUME NEW in, IsCall(in), UseProfile(in), ~ Malformed(in),
         NEW D \in SUBSET PhysStats(in), NEW t \in PricedIn(in, D)
  PROVE  /\ t \in Priced(in) /\ in.ladder[t] \in Seq(Nat) /\ Monotone(in.ladder[t])
         /\ HighestOn(in, D, t) \in Nat /\ TopLevel(in, t) \in Nat
         /\ HighestOn(in, D, t) <= TopLevel(in, t) /\ TopLevel(in, t) < Len(in.ladder[t])
<1>1. t \in DOMAIN in.ladder /\ t \in { in.table[s] : s \in D }
  BY DEF PricedIn
<1>2. t \in { in.table[s] : s \in PhysStats(in) }
  BY <1>1
<1>3. t \in Priced(in)
  BY <1>1, <1>2 DEF Priced
<1>4. in.ladder[t] \in Seq(Nat) /\ Monotone(in.ladder[t]) /\ Covered(in, t)
  BY <1>1, CallFacts DEF Malformed
<1>5. TopLevel(in, t) = HighestOn(in, PhysStats(in), t)
  BY DEF TopLevel, HighestOn
<1>6. /\ TopLevel(in, t) \in Nat
      /\ \E s \in PhysStats(in) : in.table[s] = t /\ in.level[s] = TopLevel(in, t)
      /\ \A s \in PhysStats(in) : in.table[s] = t => in.level[s] \in Nat
           /\ in.level[s] <= TopLevel(in, t)
  BY <1>2, <1>5, HighestFacts
<1>7. /\ HighestOn(in, D, t) \in Nat
      /\ \E s \in D : in.table[s] = t /\ in.level[s] = HighestOn(in, D, t)
  BY <1>1, HighestFacts
<1>8. HighestOn(in, D, t) <= TopLevel(in, t)
  BY <1>6, <1>7
<1>9. TopLevel(in, t) < Len(in.ladder[t])
  BY <1>4, <1>6 DEF Covered
<1> QED
  BY <1>3, <1>4, <1>6, <1>7, <1>8, <1>9

\* No step of an accepted ladder lowers the price.
LEMMA StepNat ==
  ASSUME NEW l \in Seq(Nat), Monotone(l), NEW n \in Nat, n < Len(l)
  PROVE  (IF n = 0 THEN l[1] ELSE l[n + 1] - l[n]) \in Nat
<1>1. n + 1 \in DOMAIN l /\ l[n + 1] \in Nat
  OBVIOUS
<1>2. CASE n = 0
  <2>1. l[1] = l[n + 1]
    BY <1>2
  <2> QED
    BY <1>1, <1>2, <2>1
<1>3. CASE n # 0
  <2>1. n \in DOMAIN l /\ l[n] \in Nat /\ l[n] <= l[n + 1]
    BY <1>1, <1>3 DEF Monotone
  <2> QED
    BY <1>1, <1>3, <2>1
<1> QED
  BY <1>2, <1>3

\* There are finitely many indicators and none lowers the charge.
LEMMA IndicatorFacts ==
  ASSUME NEW in, IsCall(in), UseProfile(in), ~ Malformed(in)
  PROVE  /\ IsFiniteSet(Indicators(in))
         /\ \A i \in Indicators(in) : Increment(in, i[1], i[2]) \in Nat
<1>1. Priced(in) = PricedIn(in, PhysStats(in))
  BY DEF Priced, PricedIn
<1>2. IsFiniteSet(Priced(in))
  <2>1. IsFiniteSet({ in.table[s] : s \in PhysStats(in) })
    BY OptionFacts, ImageFinite
  <2> QED
    BY <2>1, FS_Subset DEF Priced
<1>3. \A t \in Priced(in) : /\ in.ladder[t] \in Seq(Nat) /\ Monotone(in.ladder[t])
                        /\ TopLevel(in, t) \in Nat /\ TopLevel(in, t) < Len(in.ladder[t])
  BY <1>1, LadderFacts
<1>4. IsFiniteSet(Indicators(in))
  <2> DEFINE parts == [t \in Priced(in) |-> {t} \X (0 .. TopLevel(in, t))]
             R == { parts[t] : t \in Priced(in) }
  <2>1. IsFiniteSet(R)
    <3> HIDE DEF parts
    <3> QED
      BY <1>2, ImageFinite
  <2>2. ASSUME NEW t \in Priced(in) PROVE IsFiniteSet({t} \X (0 .. TopLevel(in, t)))
    <3>1. 0 \in Int /\ TopLevel(in, t) \in Int
      BY <1>3
    <3>2. IsFiniteSet({t})
      BY FS_Singleton
    <3>3. IsFiniteSet(0 .. TopLevel(in, t))
      BY <3>1, FS_Interval
    <3> QED
      BY <3>2, <3>3, FS_Product
  <2>3. \A r \in R : IsFiniteSet(r)
    BY <2>2
  <2>4. Indicators(in) = UNION R
    BY DEF Indicators
  <2> HIDE DEF R
  <2> QED
    BY <2>1, <2>3, <2>4, FS_UNION
<1>5. ASSUME NEW i \in Indicators(in) PROVE Increment(in, i[1], i[2]) \in Nat
  <2>1. PICK t \in Priced(in) : i \in {t} \X (0 .. TopLevel(in, t))
    BY DEF Indicators
  <2>2. i[1] = t /\ i[2] \in 0 .. TopLevel(in, t)
    BY <2>1
  <2>3. /\ in.ladder[t] \in Seq(Nat) /\ Monotone(in.ladder[t])
        /\ TopLevel(in, t) \in Nat /\ TopLevel(in, t) < Len(in.ladder[t])
    BY <1>3
  <2>4. i[2] \in Nat /\ i[2] < Len(in.ladder[t])
    BY <2>2, <2>3
  <2> QED
    BY <2>2, <2>3, <2>4, StepNat DEF Increment
<1> QED
  BY <1>4, <1>5

\* The charge of indicators is a sum of one function; more indicators charge no less.
LEMMA ChargeFacts ==
  ASSUME NEW in, IsCall(in), UseProfile(in), ~ Malformed(in),
         NEW w \in SUBSET Indicators(in), NEW v \in SUBSET w
  PROVE  /\ Charge(in, w)
              = SumFunctionOnSet([i \in Indicators(in) |-> Increment(in, i[1], i[2])], w)
         /\ Charge(in, w) \in Nat /\ Charge(in, v) \in Nat /\ Charge(in, v) <= Charge(in, w)
<1> DEFINE inc == [i \in Indicators(in) |-> Increment(in, i[1], i[2])]
<1>1. ASSUME NEW u \in SUBSET Indicators(in)
      PROVE  /\ IsFiniteSet(u) /\ Charge(in, u) = SumFunctionOnSet(inc, u)
             /\ \A i \in u : inc[i] \in Nat
  <2> DEFINE f == [i \in u |-> Increment(in, i[1], i[2])]
  <2>1. IsFiniteSet(u)
    BY IndicatorFacts, FS_Subset
  <2>2. Charge(in, u) = SumFunctionOnSet(f, u)
    BY DEF Charge, SumFunction
  <2>3. \A i \in u : f[i] = inc[i] /\ inc[i] \in Nat
    BY IndicatorFacts
  <2> HIDE DEF f, inc
  <2>4. SumFunctionOnSet(f, u) = SumFunctionOnSet(inc, u)
    BY <2>1, <2>3, SumSame
  <2> QED
    BY <2>1, <2>2, <2>3, <2>4
<1> HIDE DEF inc
<1>2. v \in SUBSET Indicators(in)
  OBVIOUS
<1>3. Charge(in, w) = SumFunctionOnSet(inc, w) /\ Charge(in, v) = SumFunctionOnSet(inc, v)
  BY <1>1, <1>2
<1>4. Charge(in, w) \in Nat /\ Charge(in, v) \in Nat
  BY <1>1, <1>2, <1>3, SumNat
<1>5. SumFunctionOnSet(inc, v) <= SumFunctionOnSet(inc, w)
  BY <1>1, SumSubset
<1> QED
  BY <1>3, <1>4, <1>5 DEF inc

\* What a deployment switches on charges each of its tables at its highest level.
LEMMA SwitchedOnCharges ==
  ASSUME NEW in, IsCall(in), UseProfile(in), ~ Malformed(in), NEW D \in SUBSET PhysStats(in)
  PROVE  /\ SwitchedOn(in, D) \in SUBSET Indicators(in)
         /\ Maintenance(in, D) = VarCost(in, D) + Charge(in, SwitchedOn(in, D))
<1> DEFINE T == PricedIn(in, D)
           parts == [t \in T |-> {t} \X (0 .. HighestOn(in, D, t))]
           price == [t \in T |-> in.ladder[t][HighestOn(in, D, t) + 1]]
           inc == [i \in Indicators(in) |-> Increment(in, i[1], i[2])]
<1>1. ASSUME NEW t \in T
      PROVE  parts[t] \in SUBSET Indicators(in) /\ price[t] = SumFunctionOnSet(inc, parts[t])
  <2> DEFINE l == in.ladder[t]
             h == HighestOn(in, D, t)
  <2>1. /\ t \in Priced(in) /\ l \in Seq(Nat) /\ h \in Nat /\ TopLevel(in, t) \in Nat
        /\ h <= TopLevel(in, t) /\ TopLevel(in, t) < Len(l) /\ h < Len(l)
    BY LadderFacts
  <2>2. \A j \in 0 .. TopLevel(in, t) : <<t, j>> \in Indicators(in)
    BY <2>1 DEF Indicators
  <2>3. \A j \in 0 .. h : <<t, j>> \in Indicators(in)
    BY <2>1, <2>2
  <2>4. parts[t] \in SUBSET Indicators(in)
    BY <2>3
  <2> DEFINE f == [i \in {t} \X Nat |-> IF i[2] = 0 THEN l[1] ELSE l[i[2] + 1] - l[i[2]]]
  <2>5. Steps(f, t, l)
    BY DEF Steps
  <2>6. SumFunctionOnSet(f, {t} \X (0 .. h)) = l[h + 1]
    <3> DEFINE R == {t} \X (0 .. h)
    <3>1. l \in Seq(Nat) /\ h \in Nat /\ h < Len(l) /\ R = {t} \X (0 .. h)
      BY <2>1
    <3> HIDE DEF f, l, h, R
    <3>2. SumFunctionOnSet(f, R) = l[h + 1]
      BY <2>5, <3>1, Telescope
    <3> QED
      BY <3>2 DEF R
  <2>7. ASSUME NEW i \in parts[t] PROVE f[i] = inc[i]
    <3>1. i[1] = t /\ i[2] \in Nat /\ i = <<t, i[2]>> /\ i \in Indicators(in)
      BY <2>1, <2>4
    <3>2. inc[i] = Increment(in, t, i[2])
      BY <3>1
    <3>3. f[i] = IF i[2] = 0 THEN l[1] ELSE l[i[2] + 1] - l[i[2]]
      BY <3>1
    <3> HIDE DEF inc, f
    <3> QED
      BY <3>2, <3>3 DEF Increment
  <2>8. IsFiniteSet(parts[t])
    BY <2>4, IndicatorFacts, FS_Subset
  <2>9. SumFunctionOnSet(f, parts[t]) = SumFunctionOnSet(inc, parts[t])
    <3> DEFINE r == parts[t]
    <3>1. IsFiniteSet(r) /\ \A i \in r : f[i] = inc[i]
      BY <2>7, <2>8
    <3> HIDE DEF r, f, inc
    <3>2. SumFunctionOnSet(f, r) = SumFunctionOnSet(inc, r)
      BY <3>1, SumSame
    <3> QED
      BY <3>2 DEF r
  <2>10. parts[t] = {t} \X (0 .. h) /\ price[t] = l[h + 1]
    OBVIOUS
  <2> HIDE DEF parts, price, inc, f, l, h
  <2> QED
    BY <2>4, <2>6, <2>9, <2>10
<1>2. SwitchedOn(in, D) = UNION { parts[t] : t \in T }
  <2>1. ASSUME NEW i \in SwitchedOn(in, D) PROVE \E t \in T : i \in parts[t]
    <3>1. PICK s \in D : i \in Triggered(in, s)
      BY DEF SwitchedOn
    <3> DEFINE t == in.table[s]
    <3>2. t \in Priced(in) /\ i \in {t} \X (0 .. in.level[s])
      BY <3>1 DEF Triggered
    <3>3. t \in T /\ t \in { in.table[d] : d \in D }
      BY <3>2 DEF Priced, PricedIn
    <3>4. HighestOn(in, D, t) \in Nat /\ in.level[s] \in Nat
            /\ in.level[s] <= HighestOn(in, D, t)
      BY <3>3, HighestFacts
    <3>5. i \in {t} \X (0 .. HighestOn(in, D, t))
      BY <3>2, <3>4
    <3> QED
      BY <3>3, <3>5
  <2>2. ASSUME NEW t \in T, NEW i \in parts[t] PROVE i \in SwitchedOn(in, D)
    <3>1. t \in { in.table[d] : d \in D } /\ t \in Priced(in)
      BY LadderFacts DEF PricedIn
    <3>2. PICK s \in D : in.table[s] = t /\ in.level[s] = HighestOn(in, D, t)
      BY <3>1, HighestFacts
    <3>3. i \in Triggered(in, s)
      BY <3>1, <3>2 DEF Triggered
    <3> QED
      BY <3>3 DEF SwitchedOn
  <2> HIDE DEF parts, T
  <2> QED
    BY <2>1, <2>2
<1>3. \A j, k \in T : j # k => parts[j] \cap parts[k] = {}
  OBVIOUS
<1>4. IsFiniteSet(T)
  <2>1. IsFiniteSet(D)
    BY OptionFacts, FS_Subset
  <2>2. IsFiniteSet({ in.table[s] : s \in D })
    BY <2>1, ImageFinite
  <2> QED
    BY <2>2, FS_Subset DEF PricedIn
<1>5. IsFiniteSet(Indicators(in)) /\ \A i \in Indicators(in) : inc[i] \in Int
  BY IndicatorFacts
<1>6. SwitchedOn(in, D) \in SUBSET Indicators(in)
  <2> HIDE DEF parts, T
  <2> QED
    BY <1>1, <1>2
<1>7. Charge(in, SwitchedOn(in, D)) = SumFunctionOnSet(inc, SwitchedOn(in, D))
  BY <1>6, ChargeFacts
<1>8. SumFunctionOnSet(inc, UNION { parts[t] : t \in T }) = SumFunctionOnSet(price, T)
  <2> HIDE DEF parts, T, inc, price
  <2> QED
    BY <1>1, <1>3, <1>4, <1>5, SumRows
<1>9. Maintenance(in, D) = VarCost(in, D) + SumFunctionOnSet(price, T)
  BY DEF Maintenance, SumFunction, PricedIn
<1> HIDE DEF parts, T, inc, price
<1> QED
  BY <1>2, <1>6, <1>7, <1>8, <1>9

\* Bytes and variable costs are natural numbers.
LEMMA CostFacts ==
  ASSUME NEW in, IsCall(in), NEW D \in SUBSET PhysStats(in)
  PROVE  Bytes(in, D) \in Nat /\ VarCost(in, D) \in Nat
<1>1. IsFiniteSet(D) /\ D \in SUBSET Candidates(in)
  BY OptionFacts, FS_Subset
<1>2. (\A s \in D : in.cost[s] \in Nat) /\ (\A s \in D : in.var[s] \in Nat)
  BY <1>1, CallFacts
<1> QED
  BY <1>1, <1>2, SumNat DEF Bytes, VarCost

\* What any accepted choice of indicators leaves in the budget, the deployment needs
\* no more than.
LEMMA IndicatorsCoverMaintenance ==
  ASSUME NEW in, IsCall(in), UseProfile(in), ~ Malformed(in),
         NEW D \in SUBSET PhysStats(in), NEW w \in IndicatorSets(in, D)
  PROVE  Maintenance(in, D) <= in.maint
<1>1. /\ w \in SUBSET Indicators(in) /\ SwitchedOn(in, D) \in SUBSET w
      /\ Charge(in, w) + VarCost(in, D) <= in.maint
  BY DEF IndicatorSets, SwitchedOn
<1>2. /\ Charge(in, w) \in Nat /\ Charge(in, SwitchedOn(in, D)) \in Nat
      /\ Charge(in, SwitchedOn(in, D)) <= Charge(in, w)
  BY <1>1, ChargeFacts
<1>3. Maintenance(in, D) = VarCost(in, D) + Charge(in, SwitchedOn(in, D))
  BY SwitchedOnCharges
<1>4. VarCost(in, D) \in Nat /\ in.maint \in Nat
  BY CostFacts, CallFacts DEF Malformed
<1> QED
  BY <1>1, <1>2, <1>3, <1>4

\* The rows of the program admit exactly what may be deployed.  A budget of zero
\* without a profile is no budget to the code.
LEMMA CreatableIsDeployable ==
  ASSUME NEW in, IsCall(in), ~ Malformed(in), UseProfile(in) \/ in.maint # 0,
           NEW D \in SUBSET PhysStats(in)
  PROVE  Creatable(in, D) <=> Deployable(in, D)
<1>1. VarCost(in, D) \in Nat /\ in.maint \in Nat \cup {None}
  BY CostFacts, CallFacts
<1>2. CASE UseProfile(in)
  <2>1. in.maint # None /\ in.maint \in Nat
    BY <1>1, <1>2 DEF Malformed
  <2>2. ASSUME IndicatorSets(in, D) # {} PROVE Maintenance(in, D) <= in.maint
    BY <1>2, <2>2, IndicatorsCoverMaintenance
  <2>3. ASSUME Maintenance(in, D) <= in.maint PROVE IndicatorSets(in, D) # {}
    <3>1. /\ SwitchedOn(in, D) \in SUBSET Indicators(in)
          /\ Maintenance(in, D) = VarCost(in, D) + Charge(in, SwitchedOn(in, D))
      BY <1>2, SwitchedOnCharges
    <3>2. Charge(in, SwitchedOn(in, D)) \in Nat
      BY <1>2, <3>1, ChargeFacts
    <3>3. Charge(in, SwitchedOn(in, D)) + VarCost(in, D) <= in.maint
      BY <1>1, <2>1, <2>3, <3>1, <3>2
    <3>4. \A s \in D : Triggered(in, s) \subseteq SwitchedOn(in, D)
      BY DEF SwitchedOn
    <3>5. SwitchedOn(in, D) \in IndicatorSets(in, D)
      BY <3>1, <3>3, <3>4 DEF IndicatorSets
    <3> QED
      BY <3>5
  <2> QED
    BY <1>2, <2>1, <2>2, <2>3 DEF Creatable, Deployable
<1>3. CASE ~ UseProfile(in)
  <2>1. Maintenance(in, D) = VarCost(in, D)
    <3> DEFINE T == { in.table[s] : s \in D } \cap DOMAIN in.ladder
               price == [t \in T |-> in.ladder[t][HighestOn(in, D, t) + 1]]
    <3>1. T = {} /\ DOMAIN price = T
      BY <1>3 DEF UseProfile
    <3>2. Maintenance(in, D) = VarCost(in, D) + SumFunctionOnSet(price, DOMAIN price)
      BY DEF Maintenance, SumFunction
    <3> HIDE DEF T, price
    <3>3. SumFunctionOnSet(price, DOMAIN price) = 0
      BY <3>1, SumEmpty
    <3> QED
      BY <1>1, <3>2, <3>3
  <2>2. AdditiveBudget(in, D) <=> (in.maint # None => VarCost(in, D) <= in.maint)
    BY <1>1, <1>3 DEF AdditiveBudget
  <2> QED
    BY <1>3, <2>1, <2>2 DEF Creatable, Deployable
<1> QED
  BY <1>2, <1>3

\* What a table's indicators say was reached: a level it has, and none of them above.
LEMMA ReachedFacts ==
  ASSUME NEW in, IsCall(in), UseProfile(in), ~ Malformed(in), NEW w \in SUBSET Indicators(in),
         NEW t \in Priced(in)
  PROVE  /\ Reached(w, t) \in Nat /\ Reached(w, t) < Len(in.ladder[t])
         /\ \A i \in w : i[1] = t => i[2] \in Nat /\ i[2] <= Reached(w, t)
<1> DEFINE E == { j \in w : j[1] = t }
           level == [i \in E |-> i[2]]
           L == { i[2] : i \in E } \cup {0}
<1>1. TopLevel(in, t) \in Nat /\ TopLevel(in, t) < Len(in.ladder[t])
        /\ in.ladder[t] \in Seq(Nat)
  <2>1. t \in PricedIn(in, PhysStats(in))
    BY DEF Priced, PricedIn
  <2> QED
    BY <2>1, LadderFacts
<1>2. ASSUME NEW i \in E PROVE i[2] \in Nat /\ i[2] <= TopLevel(in, t)
  <2>1. PICK u \in Priced(in) : i \in {u} \X (0 .. TopLevel(in, u))
    BY DEF Indicators
  <2>2. u = t
    BY <2>1
  <2> QED
    BY <1>1, <2>1, <2>2
<1>3. IsFiniteSet(L)
  <2>1. IsFiniteSet(E)
    <3>1. E \in SUBSET Indicators(in)
      OBVIOUS
    <3> HIDE DEF E
    <3> QED
      BY <3>1, IndicatorFacts, FS_Subset
  <2>2. IsFiniteSet({ level[i] : i \in E })
    <3> HIDE DEF E, level
    <3> QED
      BY <2>1, ImageFinite
  <2>3. { level[i] : i \in E } = { i[2] : i \in E }
    OBVIOUS
  <2> HIDE DEF E, level
  <2>4. IsFiniteSet({ i[2] : i \in E })
    BY <2>2, <2>3
  <2> QED
    BY <2>4, FS_AddElement
<1>4. L # {} /\ \A x \in L : x \in Int /\ x >= 0 /\ x <= TopLevel(in, t)
  BY <1>1, <1>2
<1>5. Max(L) \in L /\ \A x \in L : x <= Max(L)
  <2> HIDE DEF L
  <2> QED
    BY <1>3, <1>4, MaxIs
<1>6. Reached(w, t) = Max(L)
  BY DEF Reached
<1>7. Reached(w, t) \in Nat /\ Reached(w, t) < Len(in.ladder[t])
  <2> HIDE DEF L
  <2> QED
    BY <1>1, <1>4, <1>5, <1>6
<1> QED
  BY <1>2, <1>5, <1>6, <1>7

\* The report never falls short of what the deployment needs.
LEMMA ReportCovers ==
  ASSUME NEW in, IsCall(in), UseProfile(in), ~ Malformed(in),
         NEW D \in SUBSET PhysStats(in), NEW w \in IndicatorSets(in, D)
  PROVE  /\ FixedCharge(in, w) \in Nat
         /\ Maintenance(in, D) <= VarCost(in, D) + FixedCharge(in, w)
<1> DEFINE P == { u \in Priced(in) : <<u, 0>> \in w }
           T == PricedIn(in, D)
           paid == [t \in P |-> in.ladder[t][Reached(w, t) + 1]]
           price == [t \in T |-> in.ladder[t][HighestOn(in, D, t) + 1]]
<1>1. w \in SUBSET Indicators(in) /\ \A s \in D : Triggered(in, s) \subseteq w
  BY DEF IndicatorSets
<1>2. FixedCharge(in, w) = SumFunctionOnSet(paid, P)
  BY DEF FixedCharge, SumFunction
<1>3. Maintenance(in, D) = VarCost(in, D) + SumFunctionOnSet(price, T)
  BY DEF Maintenance, SumFunction, PricedIn
<1>4. IsFiniteSet(P)
  <2>1. IsFiniteSet({ in.table[s] : s \in PhysStats(in) })
    BY OptionFacts, ImageFinite
  <2>2. P \in SUBSET { in.table[s] : s \in PhysStats(in) }
    BY DEF Priced
  <2> HIDE DEF P
  <2> QED
    BY <2>1, <2>2, FS_Subset
<1>5. ASSUME NEW t \in P PROVE paid[t] \in Nat
  <2>1. t \in PricedIn(in, PhysStats(in))
    BY DEF Priced, PricedIn
  <2>2. in.ladder[t] \in Seq(Nat)
    BY <2>1, LadderFacts
  <2>3. Reached(w, t) \in Nat /\ Reached(w, t) < Len(in.ladder[t])
    BY <1>1, ReachedFacts
  <2>4. in.ladder[t][Reached(w, t) + 1] \in Nat
    BY <2>2, <2>3
  <2> QED
    BY <2>4
<1>6. ASSUME NEW t \in T PROVE t \in P /\ price[t] \in Nat /\ price[t] <= paid[t]
  <2> DEFINE l == in.ladder[t]
             h == HighestOn(in, D, t)
             r == Reached(w, t)
  <2>1. /\ t \in Priced(in) /\ l \in Seq(Nat) /\ Monotone(l)
        /\ h \in Nat /\ TopLevel(in, t) \in Nat /\ h <= TopLevel(in, t)
             /\ TopLevel(in, t) < Len(l)
    BY LadderFacts
  <2>2. t \in { in.table[s] : s \in D }
    BY DEF PricedIn
  <2>3. PICK s \in D : in.table[s] = t /\ in.level[s] = h
    BY <2>2, HighestFacts
  <2>4. <<t, 0>> \in w /\ <<t, h>> \in w
    BY <1>1, <2>1, <2>3 DEF Triggered
  <2>5. r \in Nat /\ r < Len(l) /\ h <= r
    BY <1>1, <2>1, <2>4, ReachedFacts
  <2>6. h + 1 \in DOMAIN l /\ r + 1 \in DOMAIN l /\ h + 1 <= r + 1
    <3> HIDE DEF l, h, r
    <3> QED
      BY <2>1, <2>5
  <2>7. l[h + 1] \in Nat /\ l[h + 1] <= l[r + 1]
    <3> HIDE DEF l, h, r
    <3> QED
      BY <2>1, <2>6 DEF Monotone
  <2>8. t \in P
    BY <2>1, <2>4
  <2> QED
    BY <2>7, <2>8
<1> HIDE DEF P, T, paid, price
<1>7. T \in SUBSET P
  BY <1>6
<1>8. IsFiniteSet(T)
  BY <1>4, <1>7, FS_Subset
<1>9. SumFunctionOnSet(price, T) <= SumFunctionOnSet(paid, T)
  <2>1. \A t \in T : price[t] \in Int /\ paid[t] \in Int /\ price[t] <= paid[t]
    BY <1>5, <1>6
  <2> QED
    BY <1>8, <2>1, SumCompare
<1>10. SumFunctionOnSet(paid, T) <= SumFunctionOnSet(paid, P)
  BY <1>4, <1>5, <1>7, SumSubset
<1>11. /\ SumFunctionOnSet(price, T) \in Nat /\ SumFunctionOnSet(paid, T) \in Nat
       /\ SumFunctionOnSet(paid, P) \in Nat
  BY <1>4, <1>5, <1>6, <1>7, <1>8, SumNat
<1>12. VarCost(in, D) \in Nat
  BY CostFacts
<1>13. Maintenance(in, D) <= VarCost(in, D) + FixedCharge(in, w)
  BY <1>2, <1>3, <1>9, <1>10, <1>11, <1>12
<1> QED
  BY <1>2, <1>11, <1>13

-----------------------------------------------------------------------------
(* The decoded answer.                                                     *)

\* With cap 1 what a query can gain is nothing or one improvement.
LEMMA GainOfOne ==
  ASSUME NEW in, IsCall(in), in.cap = 1, NEW q \in Workload(in),
           NEW S \in SUBSET Options(in, q),
         Cardinality(S) <= in.cap
  PROVE  \/ S = {} /\ Gain(in, q, S) = 0
         \/ \E s \in S : Gain(in, q, S) = in.base[q] - in.err[q][s]
<1>1. IsFiniteSet(S) /\ Gain(in, q, {}) = 0
  BY GainFacts
<1>2. S = {} \/ \E s \in S : S = {s}
  BY <1>1, AtMostOne
<1>3. ASSUME NEW s \in S, S = {s} PROVE Gain(in, q, S) = in.base[q] - in.err[q][s]
  BY <1>3, GainFacts
<1> QED
  BY <1>1, <1>2, <1>3

\* The best a query makes of D with cap 1 is the error of the best statistic in it.
LEMMA BestUseOfOne ==
  ASSUME NEW in, IsCall(in), in.class = "sparse", in.cap = 1, NEW q \in Workload(in), NEW D
  PROVE  in.base[q] - BestUse(in, q, D)
           = Min({in.base[q]} \cup { in.err[q][s] : s \in D \cap Options(in, q) })
<1> DEFINE E == {in.base[q]} \cup { in.err[q][s] : s \in D \cap Options(in, q) }
           b == BestUse(in, q, D)
           m == in.base[q] - b
<1>1. in.base[q] \in Nat /\ b \in Nat /\ in.cap # None
  BY BestUseFacts, CallFacts
<1>2. \A s \in D \cap Options(in, q) : in.err[q][s] \in Nat
  BY OptionFacts
<1>3. ASSUME NEW s \in D \cap Options(in, q) PROVE m <= in.err[q][s]
  <2>1. Gain(in, q, {s}) = in.base[q] - in.err[q][s] /\ in.err[q][s] \in Nat
    <3>1. {} \in SUBSET Options(in, q)
      OBVIOUS
    <3> QED
      BY <1>2, <3>1, GainFacts
  <2>2. Cardinality({s}) = 1
    BY FS_Singleton
  <2>3. {s} \in Uses(in, q, D)
    BY <2>2 DEF Uses, Usable
  <2>4. Gain(in, q, {s}) <= b
    BY <2>3, BestUseFacts
  <2> HIDE DEF b
  <2> QED
    BY <1>1, <2>1, <2>4
<1>4. m \in E
  <2>1. PICK S \in Uses(in, q, D) : Gain(in, q, S) = b
    BY BestUseFacts
  <2>2. S \in SUBSET (D \cap Options(in, q)) /\ Usable(in, q, S)
    BY DEF Uses
  <2>3. Cardinality(S) <= in.cap
    BY <1>1, <2>2 DEF Usable
  <2>4. \/ S = {} /\ Gain(in, q, S) = 0
        \/ \E s \in S : Gain(in, q, S) = in.base[q] - in.err[q][s]
    BY <2>2, <2>3, GainOfOne
  <2>5. CASE Gain(in, q, S) = 0
    <3>1. m = in.base[q]
      BY <1>1, <2>1, <2>5
    <3> QED
      BY <3>1
  <2>6. ASSUME NEW s \in S, Gain(in, q, S) = in.base[q] - in.err[q][s] PROVE m \in E
    <3>1. s \in D \cap Options(in, q) /\ in.err[q][s] \in Nat
      BY <1>2, <2>2
    <3>2. m = in.err[q][s]
      BY <1>1, <2>1, <2>6, <3>1
    <3> QED
      BY <3>1, <3>2
  <2> QED
    BY <2>4, <2>5, <2>6
<1>5. (\A x \in E : x \in Int) /\ \A x \in E : m <= x
  <2>1. m <= in.base[q]
    BY <1>1
  <2> QED
    BY <1>1, <1>2, <1>3, <2>1
<1>6. Min(E) = m
  <2> HIDE DEF E, m
  <2> QED
    BY <1>4, <1>5, MinUnique
<1> QED
  BY <1>6

\* What is decoded for a query is a natural number, its baseline less its gain; a plain
\* q-error is at least one.
LEMMA DecodedErrorFacts ==
  ASSUME NEW in, IsCall(in), ~ Malformed(in), NEW y,
         NEW x \in Selections(in, y), Selectable(in, x), NEW q \in Workload(in)
  PROVE  /\ DecodedError(in, x, q) \in Nat
         /\ in.base[q] - DecodedError(in, x, q) = Gain(in, q, x[q])
         /\ DecodedError(in, x, q) = in.base[q] - Gain(in, q, x[q])
         /\ in.class = "sparse" => DecodedError(in, x, q) >= 1
<1> DEFINE S == x[q]
           e == in.base[q] - Gain(in, q, S)
<1>1. S \in SUBSET Options(in, q)
  BY DEF Selections
<1>2. Gain(in, q, S) \in Nat /\ in.base[q] \in Nat
  BY <1>1, GainFacts, CallFacts
<1>3. CASE in.class = "sparse"
  <2>1. in.cap = 1
    BY <1>3 DEF Malformed
  <2>2. in.cap # None
    BY <2>1, CallFacts
  <2>3. Cardinality(S) <= in.cap
    BY <2>2 DEF Selectable, WithinCap
  <2>4. Gain(in, q, S) = 0 \/ \E s \in S : Gain(in, q, S) = in.base[q] - in.err[q][s]
    <3> HIDE DEF S
    <3> QED
      BY <1>1, <2>1, <2>3, GainOfOne
  <2>5. in.base[q] > 0 /\ \A s \in S : in.err[q][s] \in Nat /\ in.err[q][s] > 0
    BY <1>1, <1>3, CallFacts DEF Options
  <2>6. e \in Nat /\ e >= 1
    <3> HIDE DEF S
    <3> QED
      BY <1>2, <2>4, <2>5
  <2>7. Max({e, 1}) = e
    <3> DEFINE M == {e, 1}
    <3>1. e \in M /\ (\A z \in M : z \in Int) /\ (\A z \in M : z <= e)
      BY <2>6
    <3> HIDE DEF M
    <3>2. Max(M) = e
      BY <3>1, MaxUnique
    <3> QED
      BY <3>2 DEF M
  <2>8. DecodedError(in, x, q) = e
    BY <1>3, <2>7 DEF DecodedError
  <2> QED
    BY <1>2, <2>6, <2>8
<1>4. CASE in.class # "sparse"
  <2>1. in.class = "multiplicative"
    BY <1>4, CallFacts
  <2>2. Gain(in, q, S) <= in.base[q]
    BY <2>1 DEF Selectable, AboveFloor
  <2>3. DecodedError(in, x, q) = e
    BY <1>4 DEF DecodedError
  <2> QED
    BY <1>2, <1>4, <2>2, <2>3
<1> QED
  BY <1>3, <1>4

-----------------------------------------------------------------------------
(* The call.                                                               *)

\* What the solver may answer.
Answers ==
  UNION { { [y |-> f.y, x |-> f.x, w |-> w] :
              w \in IF UseProfile(call) THEN IndicatorSets(call, f.y) ELSE {{}} } :
            f \in Optimal(call) }

\* The inductive invariant: the call is the one made; an answer is one the solver may
\* give to an accepted call; what is returned is what the answer decodes to.
IlpInv ==
  /\ call \in Calls
  /\ stage \in {"called", "raised", "solved", "returned"}
  /\ stage \in {"solved", "returned"} => ~ Malformed(call) /\ sol \in Answers
  /\ stage = "returned" => result = Decoded

\* An answer is an optimal solution with indicators that its budget admits.
LEMMA AnswerFacts ==
  ASSUME IsCall(call), sol \in Answers
  PROVE  /\ sol.y \in SUBSET PhysStats(call) /\ Creatable(call, sol.y)
         /\ sol.x \in Selections(call, sol.y) /\ Selectable(call, sol.x)
         /\ Credit(call, sol.x) = Worth(call, sol.y)
         /\ \A y \in SUBSET PhysStats(call) :
              Creatable(call, y) => Worth(call, y) <= Worth(call, sol.y)
         /\ UseProfile(call) => sol.w \in IndicatorSets(call, sol.y)
<1>1. PICK f \in Optimal(call) :
        \E w \in IF UseProfile(call) THEN IndicatorSets(call, f.y) ELSE {{}} :
                              sol = [y |-> f.y, x |-> f.x, w |-> w]
  BY DEF Answers
<1>2. sol.y = f.y /\ sol.x = f.x /\ (UseProfile(call) => sol.w \in IndicatorSets(call, f.y))
  BY <1>1
<1> QED
  BY <1>2, OptimalFacts

\* What a returned result holds, field by field.
LEMMA ReturnedFacts ==
  ASSUME IlpInv, stage = "returned"
  PROVE  /\ IsCall(call) /\ ~ Malformed(call) /\ sol \in Answers
         /\ result.selected = sol.y /\ result.bytes = Bytes(call, sol.y)
         /\ result.maint
              = VarCost(call, sol.y) + (IF UseProfile(call) THEN FixedCharge(call, sol.w) ELSE 0)
         /\ DOMAIN result.qerr = Workload(call)
              /\ result.qerr = [q \in Workload(call) |-> result.qerr[q]]
         /\ \A q \in Workload(call) :
              /\ result.qerr[q] \in Nat
              /\ result.qerr[q] = call.base[q] - Gain(call, q, sol.x[q])
              /\ call.base[q] - result.qerr[q] = Gain(call, q, sol.x[q])
<1>1. IsCall(call) /\ ~ Malformed(call) /\ sol \in Answers /\ result = Decoded
  BY SolveIlpAssumption DEF IlpInv
<1>2. /\ result.selected = sol.y /\ result.bytes = Bytes(call, sol.y)
      /\ result.maint
           = VarCost(call, sol.y) + (IF UseProfile(call) THEN FixedCharge(call, sol.w) ELSE 0)
      /\ result.qerr = [q \in Workload(call) |-> DecodedError(call, sol.x, q)]
  BY <1>1 DEF Decoded
<1>3. \A q \in Workload(call) : result.qerr[q] = DecodedError(call, sol.x, q)
  BY <1>2
<1>4. \A q \in Workload(call) :
        /\ DecodedError(call, sol.x, q) \in Nat
             /\ call.base[q] - DecodedError(call, sol.x, q) = Gain(call, q, sol.x[q])
        /\ DecodedError(call, sol.x, q) = call.base[q] - Gain(call, q, sol.x[q])
  BY <1>1, AnswerFacts, DecodedErrorFacts
<1>5. DOMAIN result.qerr = Workload(call)
        /\ result.qerr = [q \in Workload(call) |-> result.qerr[q]]
  BY <1>2
<1> QED
  BY <1>1, <1>2, <1>3, <1>4, <1>5

\* The numbers of the result are what they stand for.
LEMMA InvType == IlpInv => IlpTypeOK
<1> SUFFICES ASSUME IlpInv PROVE IlpTypeOK
  OBVIOUS
<1>1. ASSUME stage = "returned"
      PROVE  /\ result.selected \subseteq PhysStats(call)
             /\ result.bytes \in 0 .. call.bytes /\ result.maint \in Nat
             /\ result.qerr \in [Workload(call) -> Nat]
  <2>1. IsCall(call) /\ ~ Malformed(call) /\ sol \in Answers
    BY <1>1, ReturnedFacts
  <2>2. sol.y \in SUBSET PhysStats(call) /\ Creatable(call, sol.y)
        /\ (UseProfile(call) => sol.w \in IndicatorSets(call, sol.y))
    BY <2>1, AnswerFacts
  <2>3. Bytes(call, sol.y) \in Nat /\ VarCost(call, sol.y) \in Nat
          /\ Bytes(call, sol.y) <= call.bytes
        /\ call.bytes \in Nat
    BY <2>1, <2>2, CostFacts, CallFacts DEF Creatable
  <2>4. UseProfile(call) => FixedCharge(call, sol.w) \in Nat
    BY <2>1, <2>2, ReportCovers
  <2>5. result.selected = sol.y /\ result.bytes = Bytes(call, sol.y)
        /\ result.maint
             = VarCost(call, sol.y) + (IF UseProfile(call) THEN FixedCharge(call, sol.w) ELSE 0)
    BY <1>1, ReturnedFacts
  <2>6. result.qerr \in [Workload(call) -> Nat]
    <3>1. result.qerr = [q \in Workload(call) |-> result.qerr[q]]
          /\ \A q \in Workload(call) : result.qerr[q] \in Nat
      BY <1>1, ReturnedFacts
    <3> QED
      BY <3>1
  <2> QED
    BY <2>2, <2>3, <2>4, <2>5, <2>6
<1> QED
  BY <1>1 DEF IlpTypeOK, IlpInv

\* The report covers the maintenance of what it selects.
LEMMA InvReport == IlpInv => ReportCoversMaintenance
<1> SUFFICES ASSUME IlpInv, stage = "returned", UseProfile(call)
             PROVE  /\ Maintenance(call, result.selected) <= call.maint
                    /\ Maintenance(call, result.selected) <= result.maint
  BY DEF ReportCoversMaintenance
<1>1. IsCall(call) /\ ~ Malformed(call) /\ sol \in Answers
  BY ReturnedFacts
<1>2. sol.y \in SUBSET PhysStats(call) /\ sol.w \in IndicatorSets(call, sol.y)
  BY <1>1, AnswerFacts
<1>3. Maintenance(call, sol.y) <= call.maint
        /\ Maintenance(call, sol.y) <= VarCost(call, sol.y) + FixedCharge(call, sol.w)
  BY <1>1, <1>2, IndicatorsCoverMaintenance, ReportCovers
<1>4. result.selected = sol.y /\ result.maint = VarCost(call, sol.y) + FixedCharge(call, sol.w)
  BY ReturnedFacts
<1> QED
  BY <1>3, <1>4

\* A query that counts is served by the best that was created.
LEMMA InvServed == IlpInv => ServedByBestCreated
<1> SUFFICES ASSUME IlpInv, stage = "returned", call.class = "sparse",
                    NEW q \in Workload(call), call.weight[q] > 0
             PROVE  result.qerr[q] =
                      Min({call.base[q]} \cup
                          { call.err[q][s] : s \in result.selected \cap Options(call, q) })
  BY DEF ServedByBestCreated
<1>1. IsCall(call) /\ ~ Malformed(call) /\ sol \in Answers
  BY ReturnedFacts
<1>2. sol.x \in Selections(call, sol.y) /\ Selectable(call, sol.x)
        /\ Credit(call, sol.x) = Worth(call, sol.y)
  BY <1>1, AnswerFacts
<1>3. Gain(call, q, sol.x[q]) = BestUse(call, q, sol.y)
  BY <1>1, <1>2, CreditAtMostWorth
<1>4. call.cap = 1
  BY <1>1 DEF Malformed
<1>5. call.base[q] - BestUse(call, q, sol.y)
        = Min({call.base[q]} \cup { call.err[q][s] : s \in sol.y \cap Options(call, q) })
  BY <1>1, <1>4, BestUseOfOne
<1>6. result.qerr[q] = call.base[q] - Gain(call, q, sol.x[q]) /\ result.selected = sol.y
  BY ReturnedFacts
<1> QED
  BY <1>3, <1>5, <1>6

\* What is returned is credited for as much as the best deployment is worth.
LEMMA InvOptimal == IlpInv /\ (UseProfile(call) \/ call.maint # 0) => OptimalDeployment
<1> SUFFICES ASSUME IlpInv, stage = "returned", UseProfile(call) \/ call.maint # 0
             PROVE  SumFunction([q \in Workload(call) |->
                                   call.weight[q] * (call.base[q] - result.qerr[q])])
                      = Max({ Worth(call, D) :
                                D \in { E \in SUBSET PhysStats(call) : Deployable(call, E) } })
  BY DEF OptimalDeployment
<1> DEFINE V == { Worth(call, D) :
                    D \in { E \in SUBSET PhysStats(call) : Deployable(call, E) } }
           f == [q \in Workload(call) |-> call.weight[q] * (call.base[q] - result.qerr[q])]
           g == [q \in Workload(call) |-> call.weight[q] * Gain(call, q, sol.x[q])]
<1>1. IsCall(call) /\ ~ Malformed(call) /\ sol \in Answers
  BY ReturnedFacts
<1>2. /\ sol.y \in SUBSET PhysStats(call) /\ Creatable(call, sol.y)
      /\ Credit(call, sol.x) = Worth(call, sol.y)
      /\ \A y \in SUBSET PhysStats(call) :
           Creatable(call, y) => Worth(call, y) <= Worth(call, sol.y)
  BY <1>1, AnswerFacts
<1>3. \A D \in SUBSET PhysStats(call) : Creatable(call, D) <=> Deployable(call, D)
  BY <1>1, CreatableIsDeployable
<1>4. \A D \in SUBSET PhysStats(call) : Worth(call, D) \in Int
  <2> SUFFICES ASSUME NEW D \in SUBSET PhysStats(call) PROVE Worth(call, D) \in Int
    OBVIOUS
  <2>1. PICK x \in Selections(call, D) : Selectable(call, x) /\ Credit(call, x) = Worth(call, D)
    BY <1>1, WorthAttained
  <2> QED
    BY <1>1, <2>1, CreditAtMostWorth
<1>5. Worth(call, sol.y) \in V /\ (\A v \in V : v \in Int)
        /\ \A v \in V : v <= Worth(call, sol.y)
  BY <1>2, <1>3, <1>4
<1>6. Max(V) = Worth(call, sol.y)
  <2> HIDE DEF V
  <2> QED
    BY <1>5, MaxUnique
<1>7. f = g
  BY ReturnedFacts
<1>8. SumFunction(f) = Credit(call, sol.x)
  BY <1>7 DEF Credit
<1> HIDE DEF V, f, g
<1> QED
  BY <1>2, <1>6, <1>8 DEF V, f

-----------------------------------------------------------------------------
(* The theorems.                                                           *)

\* A call has nothing solved or returned yet.
LEMMA InitIlp == IlpInit => IlpInv
BY DEF IlpInit, IlpInv

\* Every step of the call preserves the invariant.
LEMMA NextIlp == IlpInv /\ [IlpNext]_ilpVars => IlpInv'
<1> SUFFICES ASSUME IlpInv, [IlpNext]_ilpVars PROVE IlpInv'
  OBVIOUS
<1>1. call' = call
  BY DEF IlpNext, RefuseCall, Solve, Decode, IlpEnded, ilpVars
<1>2. Malformed(call)' = Malformed(call) /\ Answers' = Answers
  BY <1>1 DEF Answers
<1>3. CASE RefuseCall
  BY <1>1, <1>3 DEF IlpInv, RefuseCall
<1>4. CASE Solve
  <2>1. sol' \in Answers
    BY <1>4 DEF Solve, Answers
  <2>2. ~ Malformed(call) /\ stage' = "solved"
    BY <1>4 DEF Solve
  <2> QED
    BY <1>1, <1>2, <2>1, <2>2 DEF IlpInv
<1>5. CASE Decode
  <2>1. sol' = sol /\ stage' = "returned" /\ result' = Decoded /\ stage = "solved"
    BY <1>5 DEF Decode
  <2>2. Decoded' = Decoded
    BY <1>1, <2>1 DEF Decoded
  <2> QED
    BY <1>1, <1>2, <2>1, <2>2 DEF IlpInv
<1>6. CASE UNCHANGED ilpVars
  <2>1. sol' = sol /\ stage' = stage /\ result' = result
    BY <1>6 DEF ilpVars
  <2>2. Decoded' = Decoded
    BY <1>1, <2>1 DEF Decoded
  <2> QED
    BY <1>1, <1>2, <2>1, <2>2 DEF IlpInv
<1> QED
  BY <1>3, <1>4, <1>5, <1>6 DEF IlpNext, IlpEnded

\* The invariant holds of every call.
LEMMA IlpInvAlways == IlpSpec => []IlpInv
BY InitIlp, NextIlp, PTL DEF IlpSpec

\* solve_ilp's numbers are what they stand for: what is selected was measured, the
\* bytes fit, and no decoded q-error is below zero.
THEOREM IlpTypes == IlpSpec => []IlpTypeOK
BY IlpInvAlways, InvType, PTL

\* solve_ilp's rows, credits and decoding together select the best deployment the
\* budgets admit, whenever a budget without a profile is not zero (which the code
\* reads as no budget).
THEOREM SelectsTheBest == IlpSpec => [](UseProfile(call) \/ call.maint # 0 => OptimalDeployment)
BY IlpInvAlways, InvOptimal, PTL

\* Under cap 1 every query that counts is reported with the error of the best
\* statistic created for anyone.
THEOREM ServedByTheBest == IlpSpec => []ServedByBestCreated
BY IlpInvAlways, InvServed, PTL

\* Whatever indicators the solver leaves on, total_maint covers what is deployed and
\* the budget holds.
THEOREM ReportCoversAlways == IlpSpec => []ReportCoversMaintenance
BY IlpInvAlways, InvReport, PTL

-----------------------------------------------------------------------------
(* More about sums and minima. *)

\* The sum of the pointwise sums.
LEMMA SumAdd ==
  ASSUME NEW f, NEW g, NEW h, NEW S, IsFiniteSet(S),
         \A x \in S : f[x] \in Int /\ g[x] \in Int /\ h[x] = f[x] + g[x]
  PROVE  SumFunctionOnSet(h, S) = SumFunctionOnSet(f, S) + SumFunctionOnSet(g, S)
<1> DEFINE F(s) == SumFunctionOnSet(f, s)
           G(s) == SumFunctionOnSet(g, s)
           H(s) == SumFunctionOnSet(h, s)
           B == { s \in SUBSET S : H(s) # F(s) + G(s) }
<1>1. SUFFICES ASSUME B # {} PROVE FALSE
  OBVIOUS
<1>2. PICK s \in B : \A t \in B : t \subseteq s => t = s
  <2>1. B \in SUBSET (SUBSET S)
    OBVIOUS
  <2> HIDE DEF B
  <2> QED
    BY <1>1, <2>1, LeastSubset
<1>3. s \in SUBSET S /\ H(s) # F(s) + G(s)
  OBVIOUS
<1>4. s # {}
  <2>1. F({}) = 0 /\ G({}) = 0 /\ H({}) = 0
    BY SumEmpty
  <2> HIDE DEF F, G, H
  <2> QED
    BY <1>3, <2>1
<1> DEFINE p == Pick(s)
           t == s \ {p}
<1>5. p \in s /\ IsFiniteSet(s) /\ t \in SUBSET S /\ t # s /\ t \subseteq s
  BY <1>3, <1>4, PickIn, FS_Subset
<1>6. F(s) = f[p] + F(t) /\ G(s) = g[p] + G(t) /\ H(s) = h[p] + H(t)
  BY <1>4, <1>5, SumPick
<1>7. IsFiniteSet(t) /\ \A x \in t : f[x] \in Int /\ g[x] \in Int /\ h[x] \in Int
  <2>1. IsFiniteSet(t)
    BY <1>5, FS_Subset
  <2> HIDE DEF t
  <2> QED
    BY <1>5, <2>1
<1>8. F(t) \in Int /\ G(t) \in Int /\ H(t) \in Int
  <2> HIDE DEF t
  <2> QED
    BY <1>7, SumInt
<1>9. H(t) = F(t) + G(t)
  <2>1. t \notin B
    BY <1>2, <1>5
  <2> HIDE DEF F, G, H, t
  <2> QED
    BY <1>5, <2>1
<1>10. f[p] \in Int /\ g[p] \in Int /\ h[p] = f[p] + g[p]
  BY <1>3, <1>5
<1> HIDE DEF F, G, H, t, p
<1> QED
  BY <1>3, <1>6, <1>8, <1>9, <1>10

\* A sum keeps its value when its terms are renamed one to one.
LEMMA SumRename ==
  ASSUME NEW S, IsFiniteSet(S), NEW m, \A x, y \in S : m[x] = m[y] => x = y,
         NEW f, \A x \in S : f[m[x]] \in Int,
         NEW g, \A x \in S : g[x] = f[m[x]]
  PROVE  SumFunctionOnSet(f, { m[x] : x \in S }) = SumFunctionOnSet(g, S)
<1> DEFINE U == { m[x] : x \in S }
           parts == [x \in S |-> {m[x]}]
<1>1. IsFiniteSet(U) /\ \A u \in U : f[u] \in Int
  BY ImageFinite
<1>2. \A x \in S : parts[x] \in SUBSET U
  OBVIOUS
<1>3. \A x, y \in S : x # y => parts[x] \cap parts[y] = {}
  OBVIOUS
<1>4. \A x \in S : g[x] = SumFunctionOnSet(f, parts[x])
  BY SumOne
<1>5. U = UNION { parts[x] : x \in S }
  OBVIOUS
<1>6. SumFunctionOnSet(f, UNION { parts[x] : x \in S }) = SumFunctionOnSet(g, S)
  <2> HIDE DEF U, parts
  <2> QED
    BY <1>1, <1>2, <1>3, <1>4, SumRows
<1> QED
  BY <1>5, <1>6

\* The minimum of a set of natural numbers is its least member.
LEMMA MinIs ==
  ASSUME NEW S, \A x \in S : x \in Nat, S # {}
  PROVE  Min(S) \in S /\ \A x \in S : Min(S) <= x
<1>1. PICK n \in S : \A m \in S : n <= m
  BY LeastNat
<1>2. Min(S) = n
  BY <1>1, MinUnique
<1> QED
  BY <1>1, <1>2

-----------------------------------------------------------------------------
(* The corpus and the readings of a level. *)

\* What the assumption says of the constants and of a command.
LEMMA JobFacts ==
  ASSUME job \in Jobs
  PROVE  /\ job.kind \in {"search", "storage", "maint"} /\ job.bench \in {"one", "many"}
         /\ job.grid \in Seq(Nat) /\ job.tiers \in Seq(Nat) /\ job.tiers # << >>
         /\ job.maint \in Nat \cup {None} /\ job.floor \in Nat \cup {None}
         /\ job.owner \in Tables /\ NoTable \notin Tables
         /\ \A q \in Queries :
              /\ job.corpus[q].owner \in Tables \cup {NoTable}
              /\ job.bench = "one" => job.corpus[q].owner = job.owner
         /\ job.file # None => IsMaintTable(job.file.fixed) /\ IsMaintTable(job.file.cvar)
BY SgridSearchAssumption DEF IsJob

\* A product of three finite sets is finite.
LEMMA ProductFinite ==
  ASSUME NEW A, NEW B, NEW C, IsFiniteSet(A), IsFiniteSet(B), IsFiniteSet(C)
  PROVE  IsFiniteSet(A \X B \X C)
<1> DEFINE P == A \X (B \X C)
           f == [z \in P |-> <<z[1], z[2][1], z[2][2]>>]
<1>1. IsFiniteSet(P)
  BY FS_Product
<1>2. IsFiniteSet({ f[z] : z \in P })
  <2> HIDE DEF f, P
  <2> QED
    BY <1>1, ImageFinite
<1>3. A \X B \X C = { f[z] : z \in P }
  <2>1. ASSUME NEW s \in A \X B \X C PROVE s \in { f[z] : z \in P }
    <3>1. <<s[1], <<s[2], s[3]>>>> \in P /\ f[<<s[1], <<s[2], s[3]>>>>] = s
      OBVIOUS
    <3> QED
      BY <3>1
  <2>2. ASSUME NEW z \in P PROVE f[z] \in A \X B \X C
    OBVIOUS
  <2> QED
    BY <2>1, <2>2
<1> QED
  BY <1>2, <1>3

\* Queries, tables and statistics are finite sets.
LEMMA SetFacts ==
  /\ IsFiniteSet(Queries) /\ Queries # {} /\ IsFiniteSet(Tables) /\ IsFiniteSet(Stats)
  /\ NoTable \notin Tables
<1>1. IsFiniteSet({ Qids[i] : i \in DOMAIN Qids })
  <2>1. Qids \in Seq(Queries)
    BY SgridSearchAssumption
  <2>2. IsFiniteSet(DOMAIN Qids)
    BY <2>1, FS_Interval
  <2> QED
    BY <2>2, ImageFinite
<1>2. IsFiniteSet({ TableOrder[i] : i \in DOMAIN TableOrder })
  <2>1. TableOrder \in Seq(Tables)
    BY SgridSearchAssumption
  <2>2. IsFiniteSet(DOMAIN TableOrder)
    BY <2>1, FS_Interval
  <2> QED
    BY <2>2, ImageFinite
<1>3. IsFiniteSet(Queries) /\ IsFiniteSet(Tables)
  BY <1>1, <1>2 DEF Queries, Tables
<1>4. Queries # {}
  <2>1. Qids \in Seq(Queries) /\ Qids # << >>
    BY SgridSearchAssumption
  <2>2. 1 \in DOMAIN Qids
    BY <2>1
  <2> QED
    BY <2>2 DEF Queries
<1>5. IsFiniteSet(Tables \cup {NoTable})
  BY <1>3, FS_AddElement
<1>6. IsFiniteSet(Stats)
  BY <1>5, ProductFinite, SgridSearchAssumption DEF Stats
<1> QED
  BY <1>3, <1>4, <1>6, SgridSearchAssumption

\* The queries of a problem are those with a measured level and a true
\* cardinality; each has its baseline and its readings.
LEMMA KeptFacts ==
  ASSUME job \in Jobs
  PROVE  /\ Kept = { q \in Queries : InProblem(q) }
         /\ Kept \in SUBSET Queries /\ IsFiniteSet(Kept)
         /\ \A q \in Kept :
              /\ Slot(q).base \in Nat /\ Slot(q).base > 0
              /\ Slot(q).lambda \in Nat \cup {None}
              /\ \A c \in Columns : \A p \in Params :
                   \/ Slot(q).err[c][p] = None
                   \/ Slot(q).err[c][p] \in Nat /\ Slot(q).err[c][p] > 0
<1>1. Kept = { q \in Queries : InProblem(q) }
  BY DEF Kept, KeptAt, Queries
<1>2. Kept \in SUBSET Queries /\ IsFiniteSet(Kept)
  BY <1>1, SetFacts, FS_Subset
<1>3. ASSUME NEW q \in Kept PROVE IsSlot(Slot(q))
  <2>1. q \in Queries /\ job.corpus[q].actual = "positive" /\ at \in DOMAIN job.corpus[q].slot
    BY <1>1 DEF InProblem
  <2>2. IsJob(job)
    BY SgridSearchAssumption
  <2> QED
    BY <2>1, <2>2 DEF IsJob, Slot
<1>4. ASSUME NEW q \in Kept
      PROVE  /\ Slot(q).base \in Nat /\ Slot(q).base > 0
             /\ Slot(q).lambda \in Nat \cup {None}
             /\ \A c \in Columns : \A p \in Params :
                   \/ Slot(q).err[c][p] = None
                   \/ Slot(q).err[c][p] \in Nat /\ Slot(q).err[c][p] > 0
  BY <1>3 DEF IsSlot
<1> QED
  BY <1>1, <1>2, <1>4

\* A query's options, each below its baseline and tagged as the query is.
LEMMA ReadingFacts ==
  ASSUME job \in Jobs, NEW q \in Kept
  PROVE  /\ Tag(q) \in Tables \cup {NoTable}
         /\ DOMAIN Readings(q) = { s \in {Tag(q)} \X Columns \X Params : Helps(q, s[2], s[3]) }
         /\ DOMAIN Readings(q) \in SUBSET Stats
         /\ \A s \in DOMAIN Readings(q) :
              /\ Readings(q)[s] = Slot(q).err[s[2]][s[3]]
              /\ Readings(q)[s] \in Nat /\ Readings(q)[s] > 0 /\ Readings(q)[s] < Slot(q).base
<1> DEFINE R == { s \in {Tag(q)} \X Columns \X Params : Helps(q, s[2], s[3]) }
<1>1. q \in Queries
  BY KeptFacts
<1>2. Tag(q) \in Tables \cup {NoTable}
  BY <1>1, JobFacts DEF Tag
<1>3. DOMAIN Readings(q) = R /\ \A s \in R : Readings(q)[s] = Slot(q).err[s[2]][s[3]]
  <2>1. R = { <<Tag(q), r[1], r[2]>> : r \in { z \in Columns \X Params :
          Helps(q, z[1], z[2]) } }
    <3>1. ASSUME NEW s \in R
          PROVE  \E r \in { z \in Columns \X Params : Helps(q, z[1], z[2]) } :
                   s = <<Tag(q), r[1], r[2]>>
      <4>1. <<s[2], s[3]>> \in { z \in Columns \X Params : Helps(q, z[1], z[2]) }
        OBVIOUS
      <4> QED
        BY <4>1
    <3>2. ASSUME NEW r \in { z \in Columns \X Params : Helps(q, z[1], z[2]) }
          PROVE  <<Tag(q), r[1], r[2]>> \in R
      OBVIOUS
    <3> QED
      BY <3>1, <3>2
  <2> HIDE DEF R
  <2> QED
    BY <2>1 DEF Readings
<1>4. ASSUME NEW s \in R
      PROVE  /\ s \in Stats
             /\ Readings(q)[s] \in Nat /\ Readings(q)[s] > 0 /\ Readings(q)[s] < Slot(q).base
  <2>1. s[2] \in Columns /\ s[3] \in Params /\ Helps(q, s[2], s[3]) /\ s \in Stats
    BY <1>2 DEF Stats
  <2>2. Slot(q).err[s[2]][s[3]] # None /\ Slot(q).err[s[2]][s[3]] < Slot(q).base
    BY <2>1 DEF Helps
  <2>3. Readings(q)[s] = Slot(q).err[s[2]][s[3]]
    BY <1>3
  <2> HIDE DEF R
  <2> QED
    BY <2>1, <2>2, <2>3, KeptFacts
<1> QED
  BY <1>2, <1>3, <1>4

\* The largest size of a statistic bounds its size on every table.
LEMMA LargestFacts ==
  ASSUME NEW s \in Stats
  PROVE  /\ Largest(s) \in Nat
         /\ \A t \in Tables \cup {NoTable} :
              SizeOf[t][s[2]][s[3]] \in Nat /\ SizeOf[t][s[2]][s[3]] <= Largest(s)
<1> DEFINE T == Tables \cup {NoTable}
           f == [t \in T |-> SizeOf[t][s[2]][s[3]]]
           Z == { f[t] : t \in T }
<1>1. \A t \in T : SizeOf[t][s[2]][s[3]] \in Nat
  <2>1. SizeOf \in [Tables \cup {NoTable} -> [Columns -> [Params -> Nat]]]
    BY SgridSearchAssumption
  <2>2. s[2] \in Columns /\ s[3] \in Params
    BY DEF Stats
  <2> QED
    BY <2>1, <2>2
<1>2. \A z \in Z : z \in Nat
  BY <1>1
<1>3. IsFiniteSet(Z) /\ Z # {}
  <2>1. IsFiniteSet(T) /\ T # {}
    BY SetFacts, FS_AddElement
  <2> HIDE DEF T, f
  <2> QED
    BY <2>1, ImageFinite
<1>4. Max(Z) \in Z /\ \A z \in Z : z <= Max(Z)
  <2> HIDE DEF Z
  <2> QED
    BY <1>2, <1>3, MaxIs
<1>5. Largest(s) = Max(Z)
  BY DEF Largest
<1>6. \A t \in T : SizeOf[t][s[2]][s[3]] \in Z
  OBVIOUS
<1> HIDE DEF Z
<1> QED
  BY <1>1, <1>2, <1>4, <1>5, <1>6

\* A statistic on offer has a first block that reads it, which gives it its size.
LEMMA OfferedFacts ==
  ASSUME job \in Jobs
  PROVE  /\ Offered \in SUBSET Stats /\ IsFiniteSet(Offered)
         /\ \A s \in Offered :
              /\ FirstReader(s) \in Kept /\ Cost(s) \in Nat /\ Largest(s) \in Nat
              /\ Cost(s) <= Largest(s)
<1>1. Offered \in SUBSET Stats
  BY ReadingFacts DEF Offered
<1>2. IsFiniteSet(Offered)
  BY <1>1, SetFacts, FS_Subset
<1>3. ASSUME NEW s \in Offered
      PROVE  /\ FirstReader(s) \in Kept /\ Cost(s) \in Nat /\ Largest(s) \in Nat
             /\ Cost(s) <= Largest(s)
  <2> DEFINE N == { i \in KeptAt : s \in DOMAIN Readings(Qids[i]) }
  <2>1. N # {}
    BY <1>3 DEF Offered, Kept
  <2>2. \A i \in N : i \in Nat
    BY SgridSearchAssumption DEF KeptAt
  <2>3. Min(N) \in N
    <3> HIDE DEF N
    <3> QED
      BY <2>1, <2>2, MinIs
  <2>4. FirstReader(s) \in Kept
    BY <2>3 DEF FirstReader, Kept
  <2>5. job.corpus[FirstReader(s)].owner \in Tables \cup {NoTable}
    BY <2>4, KeptFacts, JobFacts
  <2> QED
    BY <1>1, <2>4, <2>5, LargestFacts DEF Cost
<1> QED
  BY <1>1, <1>2, <1>3

\* The weights' list runs in step with the queries': the k-th weight is that of
\* the k-th query.
LEMMA PartnerIsSelf ==
  ASSUME NEW i \in KeptAt
  PROVE  Partner(i) = i
<1> DEFINE U(j) == { k \in KeptAt : k <= j }
<1>1. KeptAt \in SUBSET Nat /\ IsFiniteSet(KeptAt)
  <2>1. Qids \in Seq(Queries)
    BY SgridSearchAssumption
  <2>2. IsFiniteSet(DOMAIN Qids) /\ DOMAIN Qids \in SUBSET Nat
    BY <2>1, FS_Interval
  <2> QED
    BY <2>2, FS_Subset DEF KeptAt
<1>2. ASSUME NEW j \in KeptAt, NEW k \in KeptAt, j < k
      PROVE  Cardinality(U(j)) < Cardinality(U(k))
  <2>1. IsFiniteSet(U(k))
    BY <1>1, FS_Subset
  <2>2. U(j) \subseteq U(k) /\ U(j) # U(k)
    <3>1. k \in U(k) /\ k \notin U(j)
      BY <1>1, <1>2
    <3>2. \A m \in U(j) : m \in U(k)
      BY <1>1, <1>2
    <3> QED
      BY <3>1, <3>2
  <2>3. U(j) \in SUBSET U(k)
    BY <2>2
  <2> HIDE DEF U
  <2> QED
    BY <2>1, <2>2, <2>3, FS_Subset, FS_CardinalityType
<1>3. \A j \in KeptAt : Cardinality(U(j)) \in Nat
  <2>1. \A j \in KeptAt : IsFiniteSet(U(j))
    BY <1>1, FS_Subset
  <2> HIDE DEF U
  <2> QED
    BY <2>1, FS_CardinalityType
<1>4. ASSUME NEW j \in KeptAt, Cardinality(U(j)) = Cardinality(U(i)) PROVE j = i
  <2>1. j \in Nat /\ i \in Nat
    BY <1>1
  <2>2. ~ (j < i) /\ ~ (i < j)
    <3> HIDE DEF U
    <3> QED
      BY <1>2, <1>3, <1>4
  <2> QED
    BY <2>1, <2>2
<1>5. Partner(i) = CHOOSE j \in KeptAt : Cardinality(U(j)) = Cardinality(U(i))
  BY DEF Partner, WeightedAt, Upto
<1> HIDE DEF U
<1> QED
  BY <1>4, <1>5

\* A query weighs one, or in a search by its own number of expected rows.
LEMMA WeightFacts ==
  ASSUME job \in Jobs, NEW q \in Kept
  PROVE  /\ Weight(q) \in Nat
         /\ job.kind # "search" => Weight(q) = 1
         /\ job.kind = "search" => Weight(q) = OwnWeight(q)
<1>1. CASE job.kind # "search"
  BY <1>1 DEF Weight
<1>2. CASE job.kind = "search"
  <2> DEFINE i == CHOOSE k \in KeptAt : Qids[k] = q
  <2>1. i \in KeptAt /\ Qids[i] = q
    BY DEF Kept
  <2>2. Partner(i) = i
    <3> HIDE DEF i
    <3> QED
      BY <2>1, PartnerIsSelf
  <2>3. Weight(q) = Fidelity(Slot(q).lambda)
    BY <1>2, <2>1, <2>2 DEF Weight, Slot
  <2> HIDE DEF i
  <2> DEFINE lambda == Slot(q).lambda
             least == Min({lambda, job.floor})
  <2>4. lambda \in Nat \cup {None} /\ job.floor \in Nat \cup {None}
    BY JobFacts, KeptFacts
  <2>5. ASSUME lambda # None, job.floor # None
        PROVE  least \in {lambda, job.floor} /\ least <= lambda /\ least <= job.floor
    <3>1. \A x \in {lambda, job.floor} : x \in Nat
      BY <2>4, <2>5
    <3> HIDE DEF lambda
    <3> QED
      BY <3>1, MinIs
  <2>6. Fidelity(lambda) = IF job.floor \in {None, 0} THEN 1
                           ELSE IF lambda = None THEN job.floor ELSE least
    BY DEF Fidelity
  <2>7. OwnWeight(q) = IF job.floor \in {None, 0} THEN 1
                       ELSE IF lambda # None /\ lambda < job.floor THEN lambda ELSE job.floor
    BY DEF OwnWeight
  <2> HIDE DEF lambda, least
  <2>8. Fidelity(lambda) \in Nat /\ Fidelity(lambda) = OwnWeight(q)
    BY <2>4, <2>5, <2>6, <2>7
  <2> QED
    BY <1>2, <2>3, <2>8 DEF lambda
<1> QED
  BY <1>1, <1>2

\* A call for the queries on S: solve_ilp accepts it, and a reading is an option of
\* its query.
QueryCall(in, S) ==
  /\ IsCall(in) /\ ~ Malformed(in) /\ ~ UseProfile(in)
  /\ in.class = "sparse" /\ in.cap = 1 /\ ~ in.disjoint
  /\ Candidates(in) = Offered /\ Workload(in) = Asked(S) /\ Asked(S) \in SUBSET Kept
  /\ \A q \in Asked(S) :
       /\ in.base[q] = Slot(q).base /\ in.weight[q] = Weight(q)
       /\ in.err[q] = Readings(q) /\ Options(in, q) = DOMAIN Readings(q)
  /\ \A s \in Offered :
       in.table[s] = s[1] /\ in.columns[s] = {s[2]} /\ in.cost[s] = Cost(s)

\* The statistics of the queries on S, and a call for those queries that offers no
\* other ones.
OwnStats(S) == UNION { DOMAIN Readings(q) : q \in Asked(S) }
PointCall(in, S) == QueryCall(in, S) /\ PhysStats(in) = OwnStats(S)

\* A charge for every statistic on offer.
Charges(charge) == \A s \in Offered : charge[s[1]] \in Nat

\* Every call of the commands is one for its queries, whichever statistics of
\* other queries it offers as well.
LEMMA CallOk ==
  ASSUME job \in Jobs, NEW S, NEW bytes \in Nat, NEW maint \in Nat \cup {None},
         NEW charge, Charges(charge), NEW P \in SUBSET Offered, OwnStats(S) \subseteq P,
         NEW in, \/ in = Call(S, bytes, maint, charge) /\ P = Offered
                 \/ in = [Call(S, bytes, maint, charge) EXCEPT !.phys = P]
  PROVE  QueryCall(in, S) /\ PhysStats(in) = P /\ Helpful(in) = OwnStats(S)
<1>1. /\ in.class = "sparse" /\ in.cap = 1 /\ in.maint = maint /\ in.bytes = bytes
      /\ in.disjoint = FALSE /\ in.ladder = << >> /\ in.phys = P
      /\ in.table = [s \in Offered |-> s[1]]
      /\ in.columns = [s \in Offered |-> {s[2]}]
      /\ in.level = [s \in Offered |-> s[3]]
      /\ in.cost = [s \in Offered |-> Cost(s)]
      /\ in.var = [s \in Offered |-> charge[s[1]]]
      /\ in.base = [q \in Asked(S) |-> Slot(q).base]
      /\ in.err = [q \in Asked(S) |-> Readings(q)]
      /\ in.weight = [q \in Asked(S) |-> Weight(q)]
  <2>1. CASE in = Call(S, bytes, maint, charge) /\ P = Offered
    BY <2>1 DEF Call
  <2>2. CASE in = [Call(S, bytes, maint, charge) EXCEPT !.phys = P]
    BY <2>2 DEF Call
  <2> QED
    BY <2>1, <2>2
<1>2. Candidates(in) = Offered /\ Workload(in) = Asked(S) /\ Asked(S) \in SUBSET Kept
  BY <1>1 DEF Candidates, Workload, Asked
<1>3. IsFiniteSet(Offered) /\ IsFiniteSet(Asked(S))
  BY <1>2, OfferedFacts, KeptFacts, FS_Subset
<1>4. ASSUME NEW s \in Offered PROVE s[3] \in Nat /\ Cost(s) \in Nat /\ charge[s[1]] \in Nat
  <2>1. s[3] \in Params
    BY OfferedFacts DEF Stats
  <2> QED
    BY <2>1, OfferedFacts, SgridSearchAssumption DEF Charges
<1>5. in.level \in [Offered -> Nat] /\ in.cost \in [Offered -> Nat]
        /\ in.var \in [Offered -> Nat]
  BY <1>1, <1>4
<1>6. ASSUME NEW q \in Asked(S)
      PROVE  /\ Slot(q).base \in Nat /\ Slot(q).base > 0 /\ Weight(q) \in Nat
             /\ DOMAIN Readings(q) \in SUBSET Offered
             /\ \A s \in DOMAIN Readings(q) :
                  Readings(q)[s] \in Nat /\ Readings(q)[s] > 0 /\ Readings(q)[s] < Slot(q).base
  <2>1. q \in Kept
    BY <1>2
  <2> QED
    BY <2>1, KeptFacts, WeightFacts, ReadingFacts DEF Offered
<1>7. in.base \in [Asked(S) -> Nat] /\ in.weight \in [Asked(S) -> Nat]
  BY <1>1, <1>6
<1>8. \A t \in DOMAIN in.ladder : in.ladder[t] \in Seq(Nat)
  BY <1>1
<1>9. DOMAIN in.ladder = {}
  BY <1>1
<1>10. \A q \in Asked(S) :
         /\ in.base[q] = Slot(q).base /\ in.weight[q] = Weight(q) /\ in.err[q] = Readings(q)
  BY <1>1
<1>11. \A q \in Asked(S) : Options(in, q) = DOMAIN Readings(q)
  BY <1>6, <1>10 DEF Options
<1>12. Helpful(in) = OwnStats(S)
  BY <1>2, <1>11 DEF Helpful, OwnStats
<1>13. IsCall(in)
  <2>1. /\ in.class \in {"sparse", "multiplicative"} /\ in.cap \in Nat \cup {None}
        /\ in.maint \in Nat \cup {None} /\ in.bytes \in Nat
    BY <1>1
  <2>2. in.disjoint \in BOOLEAN
    BY <1>1
  <2>3. ASSUME NEW q \in Asked(S)
        PROVE  /\ DOMAIN in.err[q] \subseteq Offered
               /\ \A s \in DOMAIN in.err[q] : in.err[q][s] \in Nat
               /\ in.class = "sparse" =>
                    in.base[q] > 0 /\ \A s \in DOMAIN in.err[q] : in.err[q][s] > 0
    BY <1>6, <1>10
  <2>4. PhysStats(in) \subseteq Candidates(in) /\ Helpful(in) \subseteq PhysStats(in)
    BY <1>1, <1>2, <1>12 DEF PhysStats
  <2> QED
    BY <1>2, <1>3, <1>5, <1>7, <1>8, <2>1, <2>2, <2>3, <2>4 DEF IsCall
<1>14. ~ Malformed(in) /\ ~ UseProfile(in)
  BY <1>1, <1>9 DEF Malformed, UseProfile
<1>15. \A s \in Offered :
         in.table[s] = s[1] /\ in.columns[s] = {s[2]} /\ in.cost[s] = Cost(s)
  BY <1>1
<1> QED
  BY <1>1, <1>2, <1>10, <1>13, <1>14, <1>11, <1>12, <1>15 DEF QueryCall, PhysStats

\* A point for every query at once offers exactly their statistics: one table, or a
\* storage curve or a search, whose statistics carry no tag.
LEMMA UntaggedOk ==
  ASSUME job \in Jobs, ~ (job.kind = "maint" /\ job.bench = "many"), NEW bytes \in Nat,
         NEW maint \in Nat \cup {None}, NEW charge, Charges(charge)
  PROVE  PointCall(Call({NoTable}, bytes, maint, charge), {NoTable})
<1> DEFINE in == Call({NoTable}, bytes, maint, charge)
<1>1. OwnStats({NoTable}) = Offered
  <2>1. Asked({NoTable}) = Kept
    BY DEF Asked, Tag
  <2> QED
    BY <2>1 DEF OwnStats, Offered
<1>2. QueryCall(in, {NoTable}) /\ PhysStats(in) = Offered
  <2> HIDE DEF in
  <2> QED
    BY <1>1, CallOk DEF in
<1> QED
  BY <1>1, <1>2 DEF PointCall

\* What such a call offers are statistics of its queries.
LEMMA PhysFacts ==
  ASSUME job \in Jobs, NEW S, NEW in, PointCall(in, S)
  PROVE  /\ PhysStats(in) = OwnStats(S)
         /\ PhysStats(in) \in SUBSET Offered /\ IsFiniteSet(PhysStats(in))
         /\ \A s \in PhysStats(in) :
              s \in Stats /\ \E q \in Asked(S) : s \in DOMAIN Readings(q) /\ s[1] = Tag(q)
<1>1. PhysStats(in) = OwnStats(S)
  BY DEF PointCall
<1>2. PhysStats(in) \in SUBSET Offered /\ IsFiniteSet(PhysStats(in))
  BY OptionFacts DEF PointCall, QueryCall
<1>3. ASSUME NEW s \in PhysStats(in)
      PROVE  s \in Stats /\ \E q \in Asked(S) : s \in DOMAIN Readings(q) /\ s[1] = Tag(q)
  <2>1. PICK q \in Asked(S) : s \in DOMAIN Readings(q)
    BY <1>1 DEF OwnStats
  <2>2. q \in Kept
    BY DEF PointCall, QueryCall
  <2>3. /\ DOMAIN Readings(q) = { r \in {Tag(q)} \X Columns \X Params : Helps(q, r[2], r[3]) }
        /\ DOMAIN Readings(q) \in SUBSET Stats
    BY <2>2, ReadingFacts
  <2>4. s[1] = Tag(q) /\ s \in Stats
    BY <2>1, <2>3
  <2> QED
    BY <2>1, <2>4
<1> QED
  BY <1>1, <1>2, <1>3

\* What the statistics y give a query, by the tag they carry.
ByTag(y, q) ==
  Min({Slot(q).base} \cup { Readings(q)[s] : s \in y \cap DOMAIN Readings(q) })

\* It is the least of the baseline and the readings.
LEMMA ByTagFacts ==
  ASSUME job \in Jobs, NEW q \in Kept, NEW y
  PROVE  /\ ByTag(y, q) \in Nat /\ ByTag(y, q) <= Slot(q).base
         /\ \A s \in y \cap DOMAIN Readings(q) : ByTag(y, q) <= Readings(q)[s]
         /\ \/ ByTag(y, q) = Slot(q).base
            \/ \E s \in y \cap DOMAIN Readings(q) : ByTag(y, q) = Readings(q)[s]
<1> DEFINE Z == {Slot(q).base} \cup { Readings(q)[s] : s \in y \cap DOMAIN Readings(q) }
<1>1. \A z \in Z : z \in Nat
  BY KeptFacts, ReadingFacts
<1>2. Min(Z) \in Z /\ \A z \in Z : Min(Z) <= z
  <2>1. Z # {}
    OBVIOUS
  <2> HIDE DEF Z
  <2> QED
    BY <1>1, <2>1, MinIs
<1>3. ByTag(y, q) = Min(Z)
  BY DEF ByTag
<1> HIDE DEF Z
<1>4. ByTag(y, q) \in Z /\ \A z \in Z : ByTag(y, q) <= z
  BY <1>2, <1>3
<1> QED
  BY <1>1, <1>4 DEF Z

\* What a set of statistics is worth to a call: each query's gain by the tags.
WorthOf(S, y) ==
  SumFunctionOnSet([q \in Asked(S) |-> Weight(q) * (Slot(q).base - ByTag(y, q))], Asked(S))

\* The program's worth is that sum.
LEMMA WorthIs ==
  ASSUME job \in Jobs, NEW S, NEW in, PointCall(in, S), NEW y
  PROVE  /\ Worth(in, y) = WorthOf(S, y)
         /\ \A q \in Asked(S) :
              BestUse(in, q, y) \in Nat /\ BestUse(in, q, y) = Slot(q).base - ByTag(y, q)
<1>1. ASSUME NEW q \in Asked(S)
      PROVE  BestUse(in, q, y) \in Nat /\ BestUse(in, q, y) = Slot(q).base - ByTag(y, q)
  <2>1. /\ IsCall(in) /\ in.class = "sparse" /\ in.cap = 1 /\ q \in Workload(in)
        /\ in.base[q] = Slot(q).base /\ in.err[q] = Readings(q)
        /\ Options(in, q) = DOMAIN Readings(q) /\ q \in Kept
    BY DEF PointCall, QueryCall
  <2>2. in.base[q] - BestUse(in, q, y)
          = Min({in.base[q]} \cup { in.err[q][s] : s \in y \cap Options(in, q) })
    BY <2>1, BestUseOfOne
  <2>3. in.base[q] - BestUse(in, q, y) = ByTag(y, q)
    BY <2>1, <2>2 DEF ByTag
  <2>4. BestUse(in, q, y) \in Nat
    BY <2>1, BestUseFacts
  <2>5. Slot(q).base \in Nat /\ ByTag(y, q) \in Nat
    BY <2>1, KeptFacts, ByTagFacts
  <2> QED
    BY <2>1, <2>3, <2>4, <2>5
<1> DEFINE f == [q \in Workload(in) |-> in.weight[q] * BestUse(in, q, y)]
           g == [q \in Asked(S) |-> Weight(q) * (Slot(q).base - ByTag(y, q))]
<1>2. f = g
  BY <1>1 DEF PointCall, QueryCall
<1>3. Worth(in, y) = SumFunctionOnSet(f, Asked(S))
  BY DEF Worth, SumFunction, PointCall, QueryCall
<1> QED
  BY <1>1, <1>2, <1>3 DEF WorthOf

\* A solved point: its statistics may be created, and no others are worth more.
Solved(in, S, s) ==
  /\ s.tables = S /\ DOMAIN s.qerr = Kept
  /\ s.y \in SUBSET PhysStats(in) /\ Creatable(in, s.y)
  /\ \A q \in Kept : s.qerr[q] \in Nat /\ s.qerr[q] <= Slot(q).base
  /\ \A q \in Kept \ Asked(S) : s.qerr[q] = Slot(q).base
  /\ \A q \in Asked(S) : Weight(q) > 0 => s.qerr[q] = ByTag(s.y, q)
  /\ SumFunctionOnSet([q \in Asked(S) |-> Weight(q) * (Slot(q).base - s.qerr[q])], Asked(S))
       = WorthOf(S, s.y)
  /\ \A y \in SUBSET PhysStats(in) : Creatable(in, y) => WorthOf(S, y) <= WorthOf(S, s.y)

\* The integer program and its decoding return solved points.
LEMMA SolutionFacts ==
  ASSUME job \in Jobs, NEW S, NEW in, PointCall(in, S), NEW s \in Solutions(in, S)
  PROVE  Solved(in, S, s)
<1>1. PICK f \in Optimal(in) :
        s = [tables |-> S, y |-> f.y,
             qerr |-> [q \in Kept |-> IF q \in Asked(S) THEN DecodedError(in, f.x, q)
                                      ELSE Slot(q).base]]
  BY DEF Solutions
<1>2. /\ IsCall(in) /\ ~ Malformed(in) /\ Workload(in) = Asked(S) /\ Asked(S) \in SUBSET Kept
      /\ \A q \in Asked(S) : in.base[q] = Slot(q).base /\ in.weight[q] = Weight(q)
  BY DEF PointCall, QueryCall
<1>3. /\ f.y \in SUBSET PhysStats(in) /\ Creatable(in, f.y)
      /\ f.x \in Selections(in, f.y) /\ Selectable(in, f.x)
      /\ Credit(in, f.x) = Worth(in, f.y)
      /\ \A y \in SUBSET PhysStats(in) : Creatable(in, y) => Worth(in, y) <= Worth(in, f.y)
  BY <1>2, OptimalFacts
<1>4. /\ s.tables = S /\ s.y = f.y
      /\ s.qerr = [q \in Kept |-> IF q \in Asked(S) THEN DecodedError(in, f.x, q)
                                  ELSE Slot(q).base]
  BY <1>1
<1>5. ASSUME NEW q \in Asked(S)
      PROVE  /\ s.qerr[q] \in Nat /\ s.qerr[q] <= Slot(q).base
             /\ Slot(q).base - s.qerr[q] = Gain(in, q, f.x[q])
  <2>1. s.qerr[q] = DecodedError(in, f.x, q) /\ q \in Workload(in) /\ q \in Kept
    BY <1>2, <1>4
  <2>2. s.qerr[q] \in Nat /\ Slot(q).base - s.qerr[q] = Gain(in, q, f.x[q])
    BY <1>2, <1>3, <2>1, DecodedErrorFacts
  <2>3. f.x[q] \in SUBSET Options(in, q)
    BY <1>3, <2>1 DEF Selections
  <2>4. Gain(in, q, f.x[q]) \in Nat
    BY <1>2, <2>1, <2>3, GainFacts
  <2> QED
    BY <2>1, <2>2, <2>4, KeptFacts
<1>6. ASSUME NEW q \in Kept PROVE s.qerr[q] \in Nat /\ s.qerr[q] <= Slot(q).base
  BY <1>4, <1>5, KeptFacts
<1>7. ASSUME NEW q \in Asked(S), Weight(q) > 0 PROVE s.qerr[q] = ByTag(s.y, q)
  <2>1. Gain(in, q, f.x[q]) = BestUse(in, q, f.y)
    BY <1>2, <1>3, <1>7, CreditAtMostWorth
  <2>2. q \in Kept
    BY <1>2
  <2>3. BestUse(in, q, f.y) = Slot(q).base - ByTag(f.y, q)
    BY WorthIs
  <2>4. Slot(q).base - s.qerr[q] = Slot(q).base - ByTag(s.y, q) /\ s.qerr[q] \in Nat
    BY <1>4, <1>5, <2>1, <2>3
  <2>5. Slot(q).base \in Nat /\ ByTag(s.y, q) \in Nat
    BY <2>2, KeptFacts, ByTagFacts
  <2> QED
    BY <2>4, <2>5
<1>8. SumFunctionOnSet([q \in Asked(S) |-> Weight(q) * (Slot(q).base - s.qerr[q])], Asked(S))
        = WorthOf(S, s.y)
  <2> DEFINE g == [q \in Asked(S) |-> Weight(q) * (Slot(q).base - s.qerr[q])]
             h == [q \in Workload(in) |-> in.weight[q] * Gain(in, q, f.x[q])]
  <2>1. g = h
    BY <1>2, <1>5
  <2>2. Credit(in, f.x) = SumFunctionOnSet(h, Asked(S))
    BY <1>2 DEF Credit, SumFunction
  <2>3. Worth(in, f.y) = WorthOf(S, f.y)
    BY WorthIs
  <2> HIDE DEF h
  <2> QED
    BY <1>3, <1>4, <2>1, <2>2, <2>3
<1>9. \A y \in SUBSET PhysStats(in) : Creatable(in, y) => WorthOf(S, y) <= WorthOf(S, s.y)
  BY <1>3, <1>4, WorthIs
<1>10. \A q \in Kept \ Asked(S) : s.qerr[q] = Slot(q).base
  BY <1>4
<1> QED
  BY <1>3, <1>4, <1>6, <1>7, <1>8, <1>9, <1>10 DEF Solved

\* Without a statistic everything fits, so there is a solution.
LEMMA SolutionExists ==
  ASSUME job \in Jobs, NEW S, NEW in, QueryCall(in, S)
  PROVE  Solutions(in, S) # {}
<1>1. IsCall(in) /\ ~ UseProfile(in)
  BY DEF QueryCall
<1>2. Creatable(in, {})
  <2>1. Bytes(in, {}) = 0 /\ VarCost(in, {}) = 0
    BY SumEmpty DEF Bytes, VarCost
  <2>2. in.bytes \in Nat /\ in.maint \in Nat \cup {None}
    BY <1>1, CallFacts
  <2> QED
    BY <1>1, <2>1, <2>2, NoneAssumption DEF Creatable, AdditiveBudget
<1>3. PICK x \in Selections(in, {}) : Selectable(in, x)
  BY <1>1, WorthAttained
<1> DEFINE C == { Credit(in, f.x) : f \in Feasible(in) }
<1>4. [y |-> {}, x |-> x] \in Feasible(in)
  BY <1>2, <1>3 DEF Feasible
<1>5. Max(C) \in C
  <2>1. IsFiniteSet(C) /\ \A c \in C : c \in Int
    BY <1>1, CreditsFinite
  <2>2. C # {}
    BY <1>4
  <2> HIDE DEF C
  <2> QED
    BY <2>1, <2>2, MaxIs
<1>6. Optimal(in) # {}
  BY <1>5 DEF Optimal
<1> QED
  BY <1>6 DEF Solutions

\* Nothing but zeros adds up to zero.
LEMMA SumZero ==
  ASSUME NEW f, NEW S, IsFiniteSet(S), \A x \in S : f[x] = 0
  PROVE  SumFunctionOnSet(f, S) = 0
<1>1. SumFunctionOnSet(f, S) = SumFunctionOnSet(f, S) + SumFunctionOnSet(f, S)
  BY SumAdd
<1> DEFINE z == SumFunctionOnSet(f, S)
<1>2. z \in Int
  BY SumInt
<1>3. z = z + z
  BY <1>1
<1> HIDE DEF z
<1>4. z = 0
  BY <1>2, <1>3
<1> QED
  BY <1>4 DEF z

\* The q-errors of a point that creates y for the queries on S, and their sum.
Left(S, y) == [q \in Kept |-> IF q \in Asked(S) THEN ByTag(y, q) ELSE Slot(q).base]
Bases == [q \in Kept |-> Slot(q).base]

\* Each is a natural number.
LEMMA LeftFacts ==
  ASSUME job \in Jobs, NEW S, NEW y
  PROVE  /\ IsFiniteSet(Kept) /\ Asked(S) \in SUBSET Kept
         /\ \A q \in Kept :
              Left(S, y)[q] \in Nat /\ Bases[q] \in Nat /\ Left(S, y)[q] <= Bases[q]
         /\ \A q \in Asked(S) : Left(S, y)[q] = ByTag(y, q)
         /\ \A q \in Kept \ Asked(S) : Left(S, y)[q] = Bases[q]
         /\ SumFunctionOnSet(Left(S, y), Kept) \in Nat
<1>1. IsFiniteSet(Kept) /\ Asked(S) \in SUBSET Kept
  BY KeptFacts DEF Asked
<1>2. \A q \in Kept :
        Left(S, y)[q] \in Nat /\ Bases[q] \in Nat /\ Left(S, y)[q] <= Bases[q]
  BY KeptFacts, ByTagFacts DEF Left, Bases
<1>3. SumFunctionOnSet(Left(S, y), Kept) \in Nat
  BY <1>1, <1>2, SumNat
<1> QED
  BY <1>1, <1>2, <1>3 DEF Left, Bases

\* Unless it weighs the queries, a problem minimizes that sum: it is what the
\* baselines add up to without the worth of y.
LEMMA LeftIsRest ==
  ASSUME job \in Jobs, job.kind # "search", NEW S, NEW y
  PROVE  /\ WorthOf(S, y) \in Int /\ SumFunctionOnSet(Bases, Kept) \in Int
         /\ SumFunctionOnSet(Left(S, y), Kept) = SumFunctionOnSet(Bases, Kept) - WorthOf(S, y)
<1> DEFINE A == Asked(S)
           g == [q \in Kept |-> Bases[q] - Left(S, y)[q]]
           h == [q \in A |-> Weight(q) * (Slot(q).base - ByTag(y, q))]
<1>1. /\ IsFiniteSet(Kept) /\ A \in SUBSET Kept /\ IsFiniteSet(A) /\ IsFiniteSet(Kept \ A)
      /\ Kept = A \cup (Kept \ A) /\ A \cap (Kept \ A) = {} /\ Kept \ A \in SUBSET Kept
  BY LeftFacts, FS_Subset
<1>2. \A q \in Kept :
        /\ Left(S, y)[q] \in Int /\ Bases[q] \in Int /\ g[q] \in Int
        /\ Bases[q] = Left(S, y)[q] + g[q]
  BY LeftFacts
<1>3. \A q \in A : g[q] = h[q]
  <2> SUFFICES ASSUME NEW q \in A PROVE g[q] = h[q]
    OBVIOUS
  <2>1. q \in Kept /\ Weight(q) = 1 /\ Left(S, y)[q] = ByTag(y, q)
    BY <1>1, WeightFacts, LeftFacts
  <2>2. Slot(q).base \in Nat /\ ByTag(y, q) \in Nat /\ Bases[q] = Slot(q).base
    BY <2>1, KeptFacts, ByTagFacts DEF Bases
  <2> QED
    BY <2>1, <2>2
<1>4. \A q \in Kept \ A : g[q] = 0
  BY LeftFacts
<1>5. WorthOf(S, y) = SumFunctionOnSet(g, A)
  <2>1. WorthOf(S, y) = SumFunctionOnSet(h, A)
    BY DEF WorthOf
  <2> HIDE DEF A, g, h
  <2> QED
    BY <1>1, <1>3, <2>1, SumSame
<1>6. SumFunctionOnSet(g, Kept \ A) = 0
  <2> DEFINE R == Kept \ A
  <2>1. IsFiniteSet(R) /\ \A q \in R : g[q] = 0
    BY <1>1, <1>4
  <2> HIDE DEF R, g
  <2>2. SumFunctionOnSet(g, R) = 0
    BY <2>1, SumZero
  <2> QED
    BY <2>2 DEF R
<1>7. SumFunctionOnSet(g, Kept)
        = SumFunctionOnSet(g, A) + SumFunctionOnSet(g, Kept \ A)
  <2> DEFINE R == Kept \ A
  <2>1. R \in SUBSET Kept /\ A \cap R = {} /\ Kept = A \cup R
    BY <1>1
  <2> HIDE DEF R, g, A
  <2>2. SumFunctionOnSet(g, A \cup R) = SumFunctionOnSet(g, A) + SumFunctionOnSet(g, R)
    BY <1>1, <1>2, <2>1, SumUnion
  <2> QED
    BY <2>1, <2>2 DEF R
<1>8. SumFunctionOnSet(Bases, Kept)
        = SumFunctionOnSet(Left(S, y), Kept) + SumFunctionOnSet(g, Kept)
  <2> HIDE DEF g
  <2> QED
    BY <1>1, <1>2, SumAdd
<1>9. SumFunctionOnSet(g, A) \in Int
  <2> HIDE DEF g, A
  <2> QED
    BY <1>1, <1>2, SumInt
<1>10. SumFunctionOnSet(Left(S, y), Kept) \in Int /\ SumFunctionOnSet(Bases, Kept) \in Int
  BY <1>1, <1>2, SumInt
<1> HIDE DEF g, A
<1> QED
  BY <1>5, <1>6, <1>7, <1>8, <1>9, <1>10

\* The total of a point is the least that the statistics one may create leave.
LEMMA TotalIsLeast ==
  ASSUME job \in Jobs, job.kind # "search", NEW S, NEW in, PointCall(in, S),
         NEW s \in Solutions(in, S)
  PROVE  /\ Total(s.qerr) \in Nat
         /\ Total(s.qerr) = SumFunctionOnSet(Left(S, s.y), Kept)
         /\ \A q \in Kept : s.qerr[q] = Left(S, s.y)[q]
         /\ \A y \in SUBSET PhysStats(in) :
              Creatable(in, y) => Total(s.qerr) <= SumFunctionOnSet(Left(S, y), Kept)
<1>0. Solved(in, S, s)
  BY SolutionFacts
<1>1. \A q \in Kept : s.qerr[q] = Left(S, s.y)[q]
  <2>1. \A q \in Asked(S) : s.qerr[q] = ByTag(s.y, q)
    <3>1. \A q \in Asked(S) : Weight(q) > 0
      BY WeightFacts DEF PointCall, QueryCall
    <3>2. \A q \in Asked(S) : Weight(q) > 0 => s.qerr[q] = ByTag(s.y, q)
      BY <1>0 DEF Solved
    <3> QED
      BY <3>1, <3>2
  <2>2. \A q \in Kept \ Asked(S) : s.qerr[q] = Slot(q).base
    BY <1>0 DEF Solved
  <2> QED
    BY <2>1, <2>2 DEF Left
<1>2. Total(s.qerr) = SumFunctionOnSet(Left(S, s.y), Kept)
  <2>1. Total(s.qerr) = SumFunctionOnSet(s.qerr, Kept)
    BY <1>0 DEF Solved, Total, SumFunction
  <2>2. SumFunctionOnSet(s.qerr, Kept) = SumFunctionOnSet(Left(S, s.y), Kept)
    <3> DEFINE f == s.qerr
               g == Left(S, s.y)
    <3>1. IsFiniteSet(Kept) /\ \A q \in Kept : f[q] = g[q]
      BY <1>1, LeftFacts
    <3> HIDE DEF f, g
    <3>2. SumFunctionOnSet(f, Kept) = SumFunctionOnSet(g, Kept)
      BY <3>1, SumSame
    <3> QED
      BY <3>2 DEF f, g
  <2> QED
    BY <2>1, <2>2
<1>3. Total(s.qerr) \in Nat
  BY <1>2, LeftFacts
<1>4. ASSUME NEW y \in SUBSET PhysStats(in), Creatable(in, y)
      PROVE  Total(s.qerr) <= SumFunctionOnSet(Left(S, y), Kept)
  <2>1. WorthOf(S, y) <= WorthOf(S, s.y)
    BY <1>0, <1>4 DEF Solved
  <2>2. /\ WorthOf(S, y) \in Int /\ WorthOf(S, s.y) \in Int
        /\ SumFunctionOnSet(Bases, Kept) \in Int
        /\ SumFunctionOnSet(Left(S, y), Kept)
             = SumFunctionOnSet(Bases, Kept) - WorthOf(S, y)
        /\ SumFunctionOnSet(Left(S, s.y), Kept)
             = SumFunctionOnSet(Bases, Kept) - WorthOf(S, s.y)
    BY LeftIsRest
  <2> QED
    BY <1>2, <2>1, <2>2
<1> QED
  BY <1>1, <1>2, <1>3, <1>4

-----------------------------------------------------------------------------
(* Selections and deployments.                                              *)

\* The two kinds of problem: untagged statistics of a single table, or the
\* statistics of chosen tables under their own names.
AsksFor(S) ==
  \/ S = {NoTable} /\ OneTable /\ ~ (job.kind = "maint" /\ job.bench = "many")
  \/ S \subseteq Tables /\ job.kind = "maint" /\ job.bench = "many"

\* The statistic on its table.
Real(s) == <<IF s[1] = NoTable THEN job.owner ELSE s[1], s[2], s[3]>>

\* A query's table is the one its statistics are really on.
LEMMA OwnerFacts ==
  ASSUME job \in Jobs, NEW S, AsksFor(S), NEW q \in Asked(S)
  PROVE  /\ q \in Kept /\ q \in Queries /\ job.corpus[q].owner \in Tables
         /\ \A c, p : Real(<<Tag(q), c, p>>) = <<job.corpus[q].owner, c, p>>
<1>1. q \in Kept /\ q \in Queries /\ Tag(q) \in S
  BY KeptFacts DEF Asked
<1>2. NoTable \notin Tables /\ job.owner \in Tables
  BY JobFacts
<1>3. CASE S = {NoTable} /\ OneTable /\ ~ (job.kind = "maint" /\ job.bench = "many")
  BY <1>1, <1>2, <1>3 DEF Real, OneTable
<1>4. CASE S \subseteq Tables /\ job.kind = "maint" /\ job.bench = "many"
  BY <1>1, <1>2, <1>4 DEF Real, Tag
<1> QED
  BY <1>1, <1>3, <1>4 DEF AsksFor

\* The considered statistics are real ones, one to one.
LEMMA RealFacts ==
  ASSUME job \in Jobs, NEW S, AsksFor(S), NEW in, PointCall(in, S)
  PROVE  /\ \A s \in PhysStats(in) :
              /\ Real(s) \in RealStats(at) /\ Real(s) \in Tables \X Columns \X Params
              /\ Real(s)[2] = s[2] /\ Real(s)[3] = s[3]
              /\ s[1] \in S /\ (S # {NoTable} => Real(s) = s)
              /\ S = {NoTable} => Real(s)[1] = job.owner
         /\ \A s, t \in PhysStats(in) :
              /\ Real(s)[1] = Real(t)[1] => s[1] = t[1]
              /\ Real(s) = Real(t) => s = t
<1>1. ASSUME NEW s \in PhysStats(in)
      PROVE  /\ Real(s) \in RealStats(at) /\ Real(s) \in Tables \X Columns \X Params
             /\ Real(s)[2] = s[2] /\ Real(s)[3] = s[3]
             /\ s[1] \in S /\ (S # {NoTable} => Real(s) = s)
             /\ S = {NoTable} => Real(s)[1] = job.owner
  <2>1. s \in Stats
    BY PhysFacts
  <2>2. PICK q \in Asked(S) : s \in DOMAIN Readings(q) /\ s[1] = Tag(q)
    BY PhysFacts
  <2>3. /\ q \in Kept /\ q \in Queries /\ job.corpus[q].owner \in Tables
        /\ \A c, p : Real(<<Tag(q), c, p>>) = <<job.corpus[q].owner, c, p>>
    BY OwnerFacts
  <2>4. s = <<Tag(q), s[2], s[3]>> /\ s[2] \in Columns /\ s[3] \in Params
    BY <2>1, <2>2 DEF Stats
  <2>5. Real(s) = <<job.corpus[q].owner, s[2], s[3]>>
    BY <2>3, <2>4
  <2>6. job.corpus[q].actual = "positive" /\ at \in DOMAIN job.corpus[q].slot
    BY <2>3, KeptFacts DEF InProblem
  <2>7. job.corpus[q].slot[at].err[s[2]][s[3]] # None
    <3>1. DOMAIN Readings(q) = { r \in {Tag(q)} \X Columns \X Params : Helps(q, r[2], r[3]) }
      BY <2>3, ReadingFacts
    <3> QED
      BY <2>2, <3>1 DEF Helps, Slot
  <2>8. q \in Answerable
    BY <2>3, <2>6 DEF Answerable
  <2>9. Real(s) \in Tables \X Columns \X Params
    BY <2>3, <2>4, <2>5
  <2>10. Real(s)[1] = job.corpus[q].owner /\ Real(s)[2] = s[2] /\ Real(s)[3] = s[3]
    BY <2>5
  <2>11. Real(s) \in RealStats(at)
    BY <2>6, <2>7, <2>8, <2>9, <2>10 DEF RealStats
  <2>12. s[1] \in S
    BY <2>2 DEF Asked
  <2>13. S # {NoTable} => Real(s) = s
    <3>1. ASSUME S # {NoTable} PROVE s[1] # NoTable
      BY <2>12, <3>1, SetFacts DEF AsksFor
    <3> QED
      BY <2>4, <2>2, <3>1 DEF Real
  <2>14. S = {NoTable} => Real(s)[1] = job.owner
    BY <2>12 DEF Real
  <2> QED
    BY <2>9, <2>10, <2>11, <2>12, <2>13, <2>14
<1>2. ASSUME NEW s \in PhysStats(in), NEW t \in PhysStats(in), Real(s)[1] = Real(t)[1]
      PROVE  s[1] = t[1]
  BY <1>1, <1>2
<1>3. ASSUME NEW s \in PhysStats(in), NEW t \in PhysStats(in), Real(s) = Real(t)
      PROVE  s = t
  <2>1. s[1] = t[1] /\ s[2] = t[2] /\ s[3] = t[3]
    BY <1>1, <1>2, <1>3
  <2>2. s \in Stats /\ t \in Stats
    BY PhysFacts
  <2> QED
    BY <2>1, <2>2 DEF Stats
<1> QED
  BY <1>1, <1>2, <1>3

\* What a deployment gives a query: the least of its baseline and its readings.
LEMMA ServesFacts ==
  ASSUME job \in Jobs, NEW q \in Kept, NEW D \in SUBSET (Tables \X Columns \X Params)
  PROVE  /\ Serves(D, q, at) \in Nat /\ Serves(D, q, at) <= Slot(q).base
         /\ \A d \in D : d[1] = job.corpus[q].owner /\ Slot(q).err[d[2]][d[3]] # None =>
              Serves(D, q, at) <= Slot(q).err[d[2]][d[3]]
         /\ \/ Serves(D, q, at) = Slot(q).base
            \/ \E d \in D :
                 /\ d[1] = job.corpus[q].owner /\ Slot(q).err[d[2]][d[3]] # None
                 /\ Serves(D, q, at) = Slot(q).err[d[2]][d[3]]
<1> DEFINE U == { d \in D : d[1] = job.corpus[q].owner /\ Slot(q).err[d[2]][d[3]] # None }
           Z == {Slot(q).base} \cup { Slot(q).err[d[2]][d[3]] : d \in U }
<1>1. \A z \in Z : z \in Nat
  <2>1. ASSUME NEW d \in U PROVE Slot(q).err[d[2]][d[3]] \in Nat
    <3>1. d[2] \in Columns /\ d[3] \in Params /\ Slot(q).err[d[2]][d[3]] # None
      OBVIOUS
    <3> QED
      BY <3>1, KeptFacts
  <2>2. Slot(q).base \in Nat
    BY KeptFacts
  <2> QED
    BY <2>1, <2>2
<1>2. Min(Z) \in Z /\ \A z \in Z : Min(Z) <= z
  <2>1. Z # {}
    OBVIOUS
  <2> HIDE DEF Z
  <2> QED
    BY <1>1, <2>1, MinIs
<1>3. Serves(D, q, at) = Min(Z)
  BY DEF Serves, Slot
<1> HIDE DEF Z
<1>4. Serves(D, q, at) \in Z /\ \A z \in Z : Serves(D, q, at) <= z
  BY <1>2, <1>3
<1> QED
  BY <1>1, <1>4 DEF Z

\* y is what D means to a call for the queries on S.
Matches(in, S, y, D) ==
  /\ D \in SUBSET RealStats(at)
  /\ S # {NoTable} => \A d \in D : d[1] \in S
  /\ \A s \in PhysStats(in) : s \in y <=> Real(s) \in D

\* Then D serves every query as y does in the program.
LEMMA SameService ==
  ASSUME job \in Jobs, NEW S, AsksFor(S), NEW in, PointCall(in, S), NEW y, NEW D,
         Matches(in, S, y, D), NEW q \in Kept
  PROVE  Serves(D, q, at) = Left(S, y)[q]
<1>1. D \in SUBSET (Tables \X Columns \X Params)
  BY DEF Matches, RealStats
<1>2. CASE q \in Asked(S)
  <2>1. q \in Queries /\ \A c, p : Real(<<Tag(q), c, p>>) = <<job.corpus[q].owner, c, p>>
    BY <1>2, OwnerFacts
  <2>2. /\ DOMAIN Readings(q) = { r \in {Tag(q)} \X Columns \X Params : Helps(q, r[2], r[3]) }
        /\ \A s \in DOMAIN Readings(q) :
             /\ Readings(q)[s] = Slot(q).err[s[2]][s[3]]
             /\ Readings(q)[s] \in Nat /\ Readings(q)[s] < Slot(q).base
    BY ReadingFacts
  <2>3. DOMAIN Readings(q) \subseteq PhysStats(in)
    BY <1>2, PhysFacts DEF OwnStats
  <2>4. ASSUME NEW s \in y \cap DOMAIN Readings(q)
        PROVE  Serves(D, q, at) <= Readings(q)[s]
    <3>1. s = <<Tag(q), s[2], s[3]>> /\ Helps(q, s[2], s[3])
      BY <2>2
    <3>2. Real(s) = <<job.corpus[q].owner, s[2], s[3]>> /\ Real(s) \in D
      BY <2>1, <2>3, <3>1 DEF Matches
    <3>3. Slot(q).err[s[2]][s[3]] # None
      BY <3>1 DEF Helps
    <3> DEFINE d == Real(s)
    <3>4. d \in D /\ d[1] = job.corpus[q].owner /\ d[2] = s[2] /\ d[3] = s[3]
      BY <3>2
    <3>5. Serves(D, q, at) <= Slot(q).err[d[2]][d[3]]
      <4> HIDE DEF d
      <4> QED
        BY <1>1, <3>3, <3>4, ServesFacts
    <3> QED
      BY <2>2, <3>4, <3>5
  <2>5. ASSUME NEW d \in D, d[1] = job.corpus[q].owner, Slot(q).err[d[2]][d[3]] # None
        PROVE  ByTag(y, q) <= Slot(q).err[d[2]][d[3]]
    <3>1. d = <<job.corpus[q].owner, d[2], d[3]>> /\ d[2] \in Columns /\ d[3] \in Params
      BY <1>1, <2>5
    <3>2. Slot(q).err[d[2]][d[3]] \in Nat /\ Slot(q).base \in Nat
      BY <2>5, <3>1, KeptFacts
    <3>3. CASE Slot(q).err[d[2]][d[3]] < Slot(q).base
      <4> DEFINE s == <<Tag(q), d[2], d[3]>>
      <4>1. s \in DOMAIN Readings(q) /\ Readings(q)[s] = Slot(q).err[d[2]][d[3]]
        BY <2>2, <2>5, <3>1, <3>3 DEF Helps
      <4>2. Real(s) = d
        BY <2>1, <3>1
      <4>3. s \in y
        <5> HIDE DEF s
        <5> QED
          BY <2>3, <4>1, <4>2 DEF Matches
      <4> HIDE DEF s
      <4> QED
        BY <4>1, <4>3, ByTagFacts
    <3>4. CASE ~ (Slot(q).err[d[2]][d[3]] < Slot(q).base)
      BY <3>2, <3>4, ByTagFacts
    <3> QED
      BY <3>3, <3>4
  <2>6. ByTag(y, q) \in Nat /\ Serves(D, q, at) \in Nat /\ Slot(q).base \in Nat
    BY <1>1, ByTagFacts, ServesFacts, KeptFacts
  <2>7. Serves(D, q, at) <= ByTag(y, q)
    BY <1>1, <2>4, ByTagFacts, ServesFacts
  <2>8. ByTag(y, q) <= Serves(D, q, at)
    BY <1>1, <2>5, ByTagFacts, ServesFacts
  <2> QED
    BY <1>2, <2>6, <2>7, <2>8, LeftFacts
<1>3. CASE q \notin Asked(S)
  <2>1. Left(S, y)[q] = Slot(q).base
    BY <1>3 DEF Left
  <2>2. Tag(q) \notin S
    BY <1>3 DEF Asked
  <2>3. S # {NoTable} /\ Tag(q) = job.corpus[q].owner
    <3>1. CASE job.kind = "maint" /\ job.bench = "many"
      <4>1. S \subseteq Tables
        BY <3>1 DEF AsksFor
      <4> QED
        BY <3>1, <4>1, SetFacts DEF Tag
    <3>2. CASE ~ (job.kind = "maint" /\ job.bench = "many")
      BY <2>2, <3>2 DEF AsksFor, Tag
    <3> QED
      BY <3>1, <3>2
  <2>4. \A d \in D : d[1] # job.corpus[q].owner
    BY <2>2, <2>3 DEF Matches
  <2> QED
    BY <1>1, <2>1, <2>4, ServesFacts
<1> QED
  BY <1>2, <1>3

\* The deployment behind a selection.
RealOf(y) == { Real(s) : s \in y }

\* The real statistics are finitely many.
LEMMA RealStatsFinite ==
  ASSUME NEW l, NEW D \in SUBSET RealStats(l)
  PROVE  IsFiniteSet(D) /\ D \in SUBSET (Tables \X Columns \X Params)
<1>1. IsFiniteSet(Tables \X Columns \X Params)
  BY SetFacts, ProductFinite, SgridSearchAssumption
<1>2. D \in SUBSET (Tables \X Columns \X Params)
  BY DEF RealStats
<1> QED
  BY <1>1, <1>2, FS_Subset

\* A selection and what it means; a deployment and what it means to the call.
LEMMA MatchingFacts ==
  ASSUME job \in Jobs, NEW S, AsksFor(S), NEW in, PointCall(in, S)
  PROVE  /\ \A y \in SUBSET PhysStats(in) : Matches(in, S, y, RealOf(y))
         /\ \A D \in SUBSET RealStats(at) : (S # {NoTable} => \A d \in D : d[1] \in S) =>
              Matches(in, S, { s \in PhysStats(in) : Real(s) \in D }, D)
<1>1. ASSUME NEW y \in SUBSET PhysStats(in) PROVE Matches(in, S, y, RealOf(y))
  <2>1. RealOf(y) \in SUBSET RealStats(at)
    BY RealFacts DEF RealOf
  <2>2. ASSUME S # {NoTable}, NEW d \in RealOf(y) PROVE d[1] \in S
    BY <2>2, RealFacts DEF RealOf
  <2>3. \A s \in PhysStats(in) : s \in y <=> Real(s) \in RealOf(y)
    BY RealFacts DEF RealOf
  <2> QED
    BY <2>1, <2>2, <2>3 DEF Matches
<1> QED
  BY <1>1 DEF Matches

\* A sum over a selection is the sum over its deployment.
LEMMA RealSum ==
  ASSUME job \in Jobs, NEW S, AsksFor(S), NEW in, PointCall(in, S),
           NEW y \in SUBSET PhysStats(in),
         NEW f, NEW g, \A s \in y : g[s] = f[Real(s)] /\ f[Real(s)] \in Int
  PROVE  SumFunctionOnSet(f, RealOf(y)) = SumFunctionOnSet(g, y)
<1> DEFINE m == [s \in y |-> Real(s)]
<1>1. IsFiniteSet(y)
  BY PhysFacts, FS_Subset
<1>2. \A s, t \in y : m[s] = m[t] => s = t
  BY RealFacts
<1>3. \A s \in y : f[m[s]] \in Int /\ g[s] = f[m[s]]
  OBVIOUS
<1>4. RealOf(y) = { m[s] : s \in y }
  BY DEF RealOf
<1>5. SumFunctionOnSet(f, { m[s] : s \in y }) = SumFunctionOnSet(g, y)
  <2> HIDE DEF m
  <2> QED
    BY <1>1, <1>2, <1>3, SumRename
<1> QED
  BY <1>4, <1>5

\* One parameter per table and columns, in a selection and in its deployment.
LEMMA OneParameterFacts ==
  ASSUME job \in Jobs, NEW S, AsksFor(S), NEW in, PointCall(in, S),
           NEW y \in SUBSET PhysStats(in)
  PROVE  OneParameter(RealOf(y)) <=> \A s, t \in y : ~ SameCombo(in, s, t)
<1>1. \A s \in PhysStats(in) : in.table[s] = s[1] /\ in.columns[s] = {s[2]}
  BY PhysFacts DEF PointCall, QueryCall
<1>2. \A s, t \in y : SameCombo(in, s, t) <=> s # t /\ s[1] = t[1] /\ s[2] = t[2]
  <2> SUFFICES ASSUME NEW s \in y, NEW t \in y
               PROVE  SameCombo(in, s, t) <=> s # t /\ s[1] = t[1] /\ s[2] = t[2]
    OBVIOUS
  <2>1. /\ in.table[s] = s[1] /\ in.columns[s] = {s[2]}
        /\ in.table[t] = t[1] /\ in.columns[t] = {t[2]}
    BY <1>1
  <2>2. {s[2]} = {t[2]} <=> s[2] = t[2]
    OBVIOUS
  <2> QED
    BY <2>1, <2>2 DEF SameCombo
<1>3. \A s, t \in y :
        /\ s[1] = t[1] /\ s[2] = t[2] => Real(s)[1] = Real(t)[1] /\ Real(s)[2] = Real(t)[2]
        /\ Real(s)[1] = Real(t)[1] /\ Real(s)[2] = Real(t)[2] => s[1] = t[1] /\ s[2] = t[2]
        /\ Real(s) = Real(t) => s = t
  <2> SUFFICES ASSUME NEW s \in y, NEW t \in y
               PROVE  /\ s[1] = t[1] /\ s[2] = t[2] =>
                            Real(s)[1] = Real(t)[1] /\ Real(s)[2] = Real(t)[2]
                      /\ Real(s)[1] = Real(t)[1] /\ Real(s)[2] = Real(t)[2] =>
                            s[1] = t[1] /\ s[2] = t[2]
                      /\ Real(s) = Real(t) => s = t
    OBVIOUS
  <2>1. s[1] = t[1] => Real(s)[1] = Real(t)[1]
    BY DEF Real
  <2>2. Real(s)[2] = s[2] /\ Real(t)[2] = t[2]
    BY RealFacts
  <2>3. (Real(s)[1] = Real(t)[1] => s[1] = t[1]) /\ (Real(s) = Real(t) => s = t)
    BY RealFacts
  <2> QED
    BY <2>1, <2>2, <2>3
<1>4. ASSUME OneParameter(RealOf(y)), NEW s \in y, NEW t \in y PROVE ~ SameCombo(in, s, t)
  <2>1. Real(s) \in RealOf(y) /\ Real(t) \in RealOf(y)
    BY DEF RealOf
  <2> QED
    BY <1>2, <1>3, <1>4, <2>1 DEF OneParameter
<1>5. ASSUME \A s, t \in y : ~ SameCombo(in, s, t), NEW d \in RealOf(y), NEW e \in RealOf(y),
             d[1] = e[1], d[2] = e[2]
      PROVE  d = e
  <2>1. PICK s \in y : d = Real(s)
    BY DEF RealOf
  <2>2. PICK t \in y : e = Real(t)
    BY DEF RealOf
  <2> QED
    BY <1>2, <1>3, <1>5, <2>1, <2>2
<1> QED
  BY <1>4, <1>5 DEF OneParameter

\* A statistic of a single table is stored where it was measured.
LEMMA BytesAreReal ==
  ASSUME job \in Jobs, AsksFor({NoTable}), NEW in, PointCall(in, {NoTable}),
         NEW y \in SUBSET PhysStats(in)
  PROVE  Bytes(in, y) = RealBytes(RealOf(y)) /\ Bytes(in, y) \in Nat
<1> DEFINE f == [d \in RealOf(y) |-> SizeOf[d[1]][d[2]][d[3]]]
<1>1. ASSUME NEW s \in y PROVE in.cost[s] = f[Real(s)] /\ f[Real(s)] \in Int
  <2>1. s \in Offered /\ s \in PhysStats(in)
    BY PhysFacts
  <2>2. OneTable
    <3>1. {NoTable} # {} /\ ~ ({NoTable} \subseteq Tables)
      BY SetFacts
    <3> QED
      BY <3>1 DEF AsksFor
  <2>3. FirstReader(s) \in Queries
    BY <2>1, OfferedFacts, KeptFacts
  <2>4. in.cost[s] = SizeOf[job.owner][s[2]][s[3]]
    BY <2>1, <2>2, <2>3 DEF PointCall, QueryCall, Cost, OneTable
  <2>5. Real(s)[1] = job.owner /\ Real(s)[2] = s[2] /\ Real(s)[3] = s[3]
    BY <2>1, RealFacts
  <2>6. Real(s) \in RealOf(y)
    BY DEF RealOf
  <2>7. in.cost[s] \in Int
    BY <2>1, OfferedFacts DEF PointCall, QueryCall
  <2> QED
    BY <2>4, <2>5, <2>6, <2>7
<1>2. SumFunctionOnSet(f, RealOf(y)) = SumFunctionOnSet(in.cost, y)
  <2> DEFINE g == in.cost
  <2>1. \A s \in y : g[s] = f[Real(s)] /\ f[Real(s)] \in Int
    BY <1>1
  <2> HIDE DEF f, g
  <2>2. SumFunctionOnSet(f, RealOf(y)) = SumFunctionOnSet(g, y)
    BY <2>1, RealSum
  <2> QED
    BY <2>2 DEF g
<1>3. RealBytes(RealOf(y)) = SumFunctionOnSet(f, RealOf(y))
  BY DEF RealBytes, SumFunction
<1>4. Bytes(in, y) \in Nat
  BY CostFacts DEF PointCall, QueryCall
<1> HIDE DEF f
<1> QED
  BY <1>2, <1>3, <1>4 DEF Bytes

\* The maintenance curves exclude nothing for its bytes.
LEMMA HugeIsEnough ==
  ASSUME job \in Jobs, NEW S, NEW in, PointCall(in, S), NEW y \in SUBSET PhysStats(in)
  PROVE  Bytes(in, y) <= Huge
<1> DEFINE f == [s \in Stats |-> Largest(s)]
           g == in.cost
<1>1. IsFiniteSet(y) /\ y \in SUBSET Stats /\ y \in SUBSET Offered
  BY PhysFacts, OfferedFacts, FS_Subset
<1>2. \A s \in y : g[s] \in Int /\ f[s] \in Int /\ g[s] <= f[s]
  BY <1>1, OfferedFacts DEF PointCall, QueryCall
<1>3. IsFiniteSet(Stats) /\ \A s \in Stats : f[s] \in Nat
  BY SetFacts, LargestFacts
<1>4. SumFunctionOnSet(f, Stats) <= Huge /\ Huge \in Nat
  BY SgridSearchAssumption DEF SumFunction
<1>5. Bytes(in, y) = SumFunctionOnSet(g, y)
  BY DEF Bytes
<1> HIDE DEF f, g
<1>6. SumFunctionOnSet(g, y) <= SumFunctionOnSet(f, y)
  BY <1>1, <1>2, SumCompare
<1>7. SumFunctionOnSet(f, y) <= SumFunctionOnSet(f, Stats)
  BY <1>1, <1>3, SumSubset
<1>8. /\ SumFunctionOnSet(g, y) \in Int /\ SumFunctionOnSet(f, y) \in Int
      /\ SumFunctionOnSet(f, Stats) \in Int
  BY <1>1, <1>2, <1>3, SumInt
<1> QED
  BY <1>4, <1>5, <1>6, <1>7, <1>8

\* What the program calls maintenance and what the refresh of a deployment takes
\* beside the fixed charges of its tables.
PerStat(D) == SumFunctionOnSet([d \in D |-> Entry(job.file.cvar, d[1])[at]], D)

\* The file as from_dict reads it: whatever it knows of a table stands under the
\* table's lowercase name.
LEMMA EntryFacts ==
  ASSUME job \in Jobs, job.file # None, NEW tab \in {job.file.fixed, job.file.cvar}, NEW t
  PROVE  /\ t \in DOMAIN FromDict(tab) => t \in Tables
         /\ At(FromDict(tab), t) # None =>
              /\ t \in DOMAIN FromDict(tab)
              /\ At(FromDict(tab), t) \in Nat /\ At(FromDict(tab), t) = Entry(tab, t)[at]
         /\ \A k \in DOMAIN tab : Lower[k] = t =>
              /\ t \in DOMAIN FromDict(tab)
              /\ at \in DOMAIN tab[k] => At(FromDict(tab), t) # None
         /\ t \in DOMAIN FromDict(tab) => \E k \in DOMAIN tab : Lower[k] = t
         /\ At(FromDict(tab), t) # None => \E k \in DOMAIN tab : Lower[k] = t
              /\ at \in DOMAIN tab[k]
<1>1. IsMaintTable(tab)
  BY JobFacts
<1>2. DOMAIN FromDict(tab) = { Lower[k] : k \in DOMAIN tab }
  BY DEF FromDict
<1>3. \A k \in DOMAIN tab : Lower[k] \in Tables
  BY <1>1, SgridSearchAssumption DEF IsMaintTable
<1>4. ASSUME NEW k \in DOMAIN tab, Lower[k] = t
      PROVE  Entry(tab, t) = tab[k] /\ FromDict(tab)[t] = tab[k]
  <2>1. (CHOOSE m \in DOMAIN tab : Lower[m] = t) = k
    BY <1>1, <1>4 DEF IsMaintTable
  <2>2. t \in { Lower[m] : m \in DOMAIN tab }
    BY <1>4
  <2> QED
    BY <2>1, <2>2 DEF Entry, FromDict
<1>5. ASSUME NEW k \in DOMAIN tab, Lower[k] = t, at \in DOMAIN tab[k]
      PROVE  /\ At(FromDict(tab), t) = Entry(tab, t)[at]
             /\ At(FromDict(tab), t) \in Nat /\ At(FromDict(tab), t) # None
  <2>1. At(FromDict(tab), t) = tab[k][at]
    BY <1>2, <1>4, <1>5 DEF At
  <2>2. tab[k][at] \in Nat
    BY <1>1, <1>5 DEF IsMaintTable
  <2> QED
    BY <1>4, <1>5, <2>1, <2>2, NoneAssumption
<1>6. ASSUME At(FromDict(tab), t) # None
      PROVE  \E k \in DOMAIN tab : Lower[k] = t /\ at \in DOMAIN tab[k]
  <2>1. t \in DOMAIN FromDict(tab) /\ at \in DOMAIN FromDict(tab)[t]
    BY <1>6 DEF At
  <2>2. PICK k \in DOMAIN tab : Lower[k] = t
    BY <1>2, <2>1
  <2> QED
    BY <1>4, <2>1, <2>2
<1>7. t \in DOMAIN FromDict(tab) => t \in Tables
  BY <1>2, <1>3
<1>8. \A k \in DOMAIN tab : Lower[k] = t => t \in DOMAIN FromDict(tab)
  BY <1>2
<1>9. t \in DOMAIN FromDict(tab) => \E k \in DOMAIN tab : Lower[k] = t
  BY <1>2
<1> QED
  BY <1>5, <1>6, <1>7, <1>8, <1>9

\* A statistic is charged what its table's entry says, so the program's variable
\* cost is the deployment's.
LEMMA VariableIsReal ==
  ASSUME job \in Jobs, NEW S, AsksFor(S), NEW in, PointCall(in, S),
         \A s \in PhysStats(in) :
           in.var[s] = Entry(job.file.cvar, Real(s)[1])[at] /\ in.var[s] \in Nat,
         NEW y \in SUBSET PhysStats(in)
  PROVE  VarCost(in, y) = PerStat(RealOf(y)) /\ VarCost(in, y) \in Nat
<1> DEFINE f == [d \in RealOf(y) |-> Entry(job.file.cvar, d[1])[at]]
           g == in.var
<1>1. ASSUME NEW s \in y PROVE g[s] = f[Real(s)] /\ f[Real(s)] \in Int
  <2>1. Real(s) \in RealOf(y) /\ s \in PhysStats(in)
    BY DEF RealOf
  <2>2. f[Real(s)] = Entry(job.file.cvar, Real(s)[1])[at]
    BY <2>1
  <2> QED
    BY <2>1, <2>2
<1>2. VarCost(in, y) = SumFunctionOnSet(g, y)
  BY DEF VarCost
<1>3. PerStat(RealOf(y)) = SumFunctionOnSet(f, RealOf(y))
  BY DEF PerStat
<1>4. VarCost(in, y) \in Nat
  BY CostFacts DEF PointCall, QueryCall
<1> HIDE DEF f, g
<1>5. SumFunctionOnSet(f, RealOf(y)) = SumFunctionOnSet(g, y)
  BY <1>1, RealSum
<1> QED
  BY <1>2, <1>3, <1>4, <1>5

\* What the deployment D means to the call costs no more than D.
LEMMA PartCosts ==
  ASSUME NEW D, IsFiniteSet(D), NEW R \in SUBSET D, NEW f, \A d \in D : f[d] \in Nat,
         NEW g, \A d \in R : g[d] = f[d]
  PROVE  /\ SumFunctionOnSet(g, R) <= SumFunctionOnSet(f, D)
         /\ SumFunctionOnSet(g, R) \in Nat /\ SumFunctionOnSet(f, D) \in Nat
<1>1. IsFiniteSet(R) /\ \A d \in R : f[d] \in Nat
  BY FS_Subset
<1>2. SumFunctionOnSet(g, R) = SumFunctionOnSet(f, R)
  BY <1>1, SumSame
<1>3. SumFunctionOnSet(f, R) <= SumFunctionOnSet(f, D)
  BY SumSubset
<1>4. SumFunctionOnSet(f, R) \in Nat /\ SumFunctionOnSet(f, D) \in Nat
  BY <1>1, SumNat
<1> QED
  BY <1>2, <1>3, <1>4

\* What the q-errors add up to when D is deployed.
ServedTotal(D) == SumFunctionOnSet([q \in Kept |-> Serves(D, q, at)], Kept)

\* It is what the program counts for what D means to it.
LEMMA ServedTotalIs ==
  ASSUME job \in Jobs, NEW S, AsksFor(S), NEW in, PointCall(in, S), NEW y, NEW D,
         Matches(in, S, y, D)
  PROVE  ServedTotal(D) = SumFunctionOnSet(Left(S, y), Kept)
<1> DEFINE f == [q \in Kept |-> Serves(D, q, at)]
           g == Left(S, y)
<1>1. IsFiniteSet(Kept) /\ \A q \in Kept : f[q] = g[q]
  BY LeftFacts, SameService
<1>2. ServedTotal(D) = SumFunctionOnSet(f, Kept)
  BY DEF ServedTotal
<1> HIDE DEF f, g
<1>3. SumFunctionOnSet(f, Kept) = SumFunctionOnSet(g, Kept)
  BY <1>1, SumSame
<1> QED
  BY <1>2, <1>3 DEF g

\* A point is the best for its budget: it stands for a deployment one can afford,
\* gives every query what that deployment gives it, and no other leaves less.
BestPoint(s, B) ==
  /\ RealOf(s.y) \in Affordable(at, B)
  /\ DOMAIN s.qerr = Kept
  /\ \A q \in Kept : s.qerr[q] = Serves(RealOf(s.y), q, at)
  /\ Total(s.qerr) \in Nat /\ Total(s.qerr) = ServedTotal(RealOf(s.y))
  /\ \A D \in Affordable(at, B) : Total(s.qerr) <= ServedTotal(D)

\* A point that serves every query as the deployment behind it does.
Serving(in, s) ==
  /\ s.y \in SUBSET PhysStats(in) /\ Creatable(in, s.y)
  /\ RealOf(s.y) \in SUBSET RealStats(at) /\ OneParameter(RealOf(s.y))
  /\ DOMAIN s.qerr = Kept
  /\ \A q \in Kept : s.qerr[q] = Serves(RealOf(s.y), q, at)
  /\ Total(s.qerr) \in Nat /\ Total(s.qerr) = ServedTotal(RealOf(s.y))

\* Every solution is one.
LEMMA SolutionServes ==
  ASSUME job \in Jobs, job.kind # "search", NEW S, AsksFor(S), NEW in, PointCall(in, S),
         NEW s \in Solutions(in, S)
  PROVE  Serving(in, s) /\ s.tables = S
<1>1. Solved(in, S, s)
  BY SolutionFacts
<1>2. s.y \in SUBSET PhysStats(in) /\ Creatable(in, s.y) /\ s.tables = S /\ DOMAIN s.qerr = Kept
  BY <1>1 DEF Solved
<1>3. Matches(in, S, s.y, RealOf(s.y))
  BY <1>2, MatchingFacts
<1>4. RealOf(s.y) \in SUBSET RealStats(at)
  BY <1>3 DEF Matches
<1>5. OneParameter(RealOf(s.y))
  BY <1>2, OneParameterFacts DEF Creatable
<1>6. /\ Total(s.qerr) \in Nat
      /\ Total(s.qerr) = SumFunctionOnSet(Left(S, s.y), Kept)
      /\ \A q \in Kept : s.qerr[q] = Left(S, s.y)[q]
  BY TotalIsLeast
<1>7. \A q \in Kept : s.qerr[q] = Serves(RealOf(s.y), q, at)
  BY <1>3, <1>6, SameService
<1>8. ServedTotal(RealOf(s.y)) = SumFunctionOnSet(Left(S, s.y), Kept)
  BY <1>3, ServedTotalIs
<1> QED
  BY <1>2, <1>4, <1>5, <1>6, <1>7, <1>8 DEF Serving

\* What D means to a call may be created when its cost allows; then the solution
\* leaves no more than D.
LEMMA NoWorseThan ==
  ASSUME job \in Jobs, job.kind # "search", NEW S, AsksFor(S), NEW in, PointCall(in, S),
         NEW s \in Solutions(in, S), NEW D \in SUBSET RealStats(at), OneParameter(D),
         S # {NoTable} => \A d \in D : d[1] \in S,
         NEW y, y = { p \in PhysStats(in) : Real(p) \in D },
         Bytes(in, y) <= in.bytes, AdditiveBudget(in, y)
  PROVE  Total(s.qerr) <= ServedTotal(D)
<1>1. y \in SUBSET PhysStats(in)
  OBVIOUS
<1>2. Matches(in, S, y, D)
  BY MatchingFacts
<1>3. RealOf(y) \subseteq D
  BY DEF RealOf
<1>4. OneParameter(RealOf(y))
  BY <1>3 DEF OneParameter
<1>5. \A p, r \in y : ~ SameCombo(in, p, r)
  BY <1>1, <1>4, OneParameterFacts
<1>6. Creatable(in, y)
  BY <1>5 DEF Creatable, PointCall, QueryCall
<1>7. Total(s.qerr) <= SumFunctionOnSet(Left(S, y), Kept)
  BY <1>1, <1>6, TotalIsLeast
<1>8. ServedTotal(D) = SumFunctionOnSet(Left(S, y), Kept)
  BY <1>2, ServedTotalIs
<1> QED
  BY <1>7, <1>8

\* What a deployment on a single table means to the call takes no more bytes.
LEMMA PartBytes ==
  ASSUME job \in Jobs, AsksFor({NoTable}), NEW in, PointCall(in, {NoTable}),
         NEW D \in SUBSET RealStats(at), NEW y, y = { p \in PhysStats(in) : Real(p) \in D }
  PROVE  Bytes(in, y) <= RealBytes(D) /\ RealBytes(D) \in Nat /\ Bytes(in, y) \in Nat
<1> DEFINE R == RealOf(y)
           f == [d \in D |-> SizeOf[d[1]][d[2]][d[3]]]
           g == [d \in R |-> SizeOf[d[1]][d[2]][d[3]]]
<1>1. R \in SUBSET D
  BY DEF RealOf
<1>2. IsFiniteSet(D) /\ \A d \in D : f[d] \in Nat
  <2>1. D \in SUBSET (Tables \X Columns \X Params) /\ IsFiniteSet(D)
    BY RealStatsFinite
  <2>2. SizeOf \in [Tables \cup {NoTable} -> [Columns -> [Params -> Nat]]]
    BY SgridSearchAssumption
  <2> QED
    BY <2>1, <2>2
<1>3. \A d \in R : g[d] = f[d]
  BY <1>1
<1>4. RealBytes(D) = SumFunctionOnSet(f, D) /\ RealBytes(R) = SumFunctionOnSet(g, R)
  BY DEF RealBytes, SumFunction
<1>5. y \in SUBSET PhysStats(in)
  OBVIOUS
<1>6. Bytes(in, y) = RealBytes(R) /\ Bytes(in, y) \in Nat
  BY <1>5, BytesAreReal
<1> HIDE DEF f, g, R
<1>7. SumFunctionOnSet(g, R) <= SumFunctionOnSet(f, D) /\ SumFunctionOnSet(f, D) \in Nat
  BY <1>1, <1>2, <1>3, PartCosts
<1> QED
  BY <1>4, <1>6, <1>7

\* A storage point is the best that fits the bytes.
LEMMA StorageIsBest ==
  ASSUME job \in Jobs, job.kind = "storage", OneTable, NEW B \in Nat,
         NEW in, in = Call({NoTable}, B, None, CorpusCharge), NEW s \in Solutions(in, {NoTable})
  PROVE  BestPoint(s, B)
<1>1. PointCall(in, {NoTable}) /\ in.maint = None /\ in.bytes = B
  <2>1. \A t \in Offered : CorpusCharge[t[1]] \in Nat
    BY OfferedFacts DEF CorpusCharge, Stats
  <2>2. Charges(CorpusCharge) /\ None \in Nat \cup {None}
    BY <2>1 DEF Charges
  <2> DEFINE c == Call({NoTable}, B, None, CorpusCharge)
  <2>3. PointCall(c, {NoTable})
    BY <2>2, UntaggedOk
  <2>4. c.maint = None /\ c.bytes = B
    BY DEF Call
  <2> QED
    BY <2>3, <2>4
<1>2. AsksFor({NoTable}) /\ job.kind # "search" /\ job.kind # "maint"
  BY DEF AsksFor
<1>3. /\ Serving(in, s) /\ s.y \in SUBSET PhysStats(in) /\ Creatable(in, s.y)
      /\ RealOf(s.y) \in SUBSET RealStats(at) /\ OneParameter(RealOf(s.y))
  BY <1>1, <1>2, SolutionServes DEF Serving
<1>4. RealOf(s.y) \in Affordable(at, B)
  <2>1. Bytes(in, s.y) = RealBytes(RealOf(s.y))
    BY <1>1, <1>2, <1>3, BytesAreReal
  <2>2. Bytes(in, s.y) <= B
    BY <1>1, <1>3 DEF Creatable
  <2> QED
    BY <1>2, <1>3, <2>1, <2>2 DEF Affordable
<1>5. ASSUME NEW D \in Affordable(at, B) PROVE Total(s.qerr) <= ServedTotal(D)
  <2>1. D \in SUBSET RealStats(at) /\ OneParameter(D) /\ RealBytes(D) <= B
    BY <1>2 DEF Affordable
  <2> DEFINE y == { p \in PhysStats(in) : Real(p) \in D }
  <2>2. Bytes(in, y) <= RealBytes(D) /\ RealBytes(D) \in Nat /\ Bytes(in, y) \in Nat
    <3> HIDE DEF y
    <3> QED
      BY <1>1, <1>2, <2>1, PartBytes DEF y
  <2>3. Bytes(in, y) <= in.bytes
    BY <1>1, <2>1, <2>2
  <2>4. AdditiveBudget(in, y)
    BY <1>1 DEF AdditiveBudget
  <2> HIDE DEF y
  <2> QED
    BY <1>1, <1>2, <2>1, <2>3, <2>4, NoWorseThan DEF y
<1> QED
  BY <1>3, <1>4, <1>5 DEF BestPoint, Serving

\* The seconds that keep a deployment up to date, on the one table of a curve.
LEMMA SingleSeconds ==
  ASSUME job \in Jobs, job.kind = "maint", job.bench = "one", job.file # None,
         Fixed(job.owner) # None, CVar(job.owner) # None, NEW D \in SUBSET RealStats(at)
  PROVE  /\ AsksFor({NoTable}) /\ Fixed(job.owner) \in Nat /\ CVar(job.owner) \in Nat
         /\ CVar(job.owner) = Entry(job.file.cvar, job.owner)[at]
         /\ \A d \in D : d[1] = job.owner
         /\ Timed(D, at) /\ PerStat(D) \in Nat
         /\ D = {} => Seconds(D, at) = 0
         /\ D # {} => Seconds(D, at) = Fixed(job.owner) + PerStat(D)
<1>1. OneTable /\ AsksFor({NoTable})
  BY JobFacts DEF OneTable, AsksFor
<1>2. /\ Fixed(job.owner) \in Nat /\ Fixed(job.owner) = Entry(job.file.fixed, job.owner)[at]
      /\ \E k \in DOMAIN job.file.fixed : Lower[k] = job.owner
           /\ at \in DOMAIN job.file.fixed[k]
  <2>1. job.file.fixed \in {job.file.fixed, job.file.cvar}
    OBVIOUS
  <2> QED
    BY <2>1, EntryFacts DEF Fixed
<1>3. /\ CVar(job.owner) \in Nat /\ CVar(job.owner) = Entry(job.file.cvar, job.owner)[at]
      /\ \E k \in DOMAIN job.file.cvar : Lower[k] = job.owner /\ at \in DOMAIN job.file.cvar[k]
  <2>1. job.file.cvar \in {job.file.fixed, job.file.cvar}
    OBVIOUS
  <2> QED
    BY <2>1, EntryFacts DEF CVar
<1>4. \A d \in D : d[1] = job.owner
  BY <1>1 DEF RealStats, Answerable, OneTable
<1>5. Timed(D, at)
  BY <1>2, <1>3, <1>4 DEF Timed
<1> DEFINE f == [d \in D |-> Entry(job.file.cvar, d[1])[at]]
           T == { d[1] : d \in D }
           h == [t \in T |-> Entry(job.file.fixed, t)[at]]
<1>6. PerStat(D) \in Nat
  <2>1. IsFiniteSet(D)
    BY RealStatsFinite
  <2>2. \A d \in D : f[d] \in Nat
    BY <1>3, <1>4
  <2>3. SumFunctionOnSet(f, D) \in Nat
    <3> HIDE DEF f
    <3> QED
      BY <2>1, <2>2, SumNat
  <2> QED
    BY <2>3 DEF PerStat
<1>7. Seconds(D, at) = SumFunctionOnSet(h, T) + PerStat(D)
  BY DEF Seconds, FixedSeconds, PerStat, SumFunction
<1>8. ASSUME D = {} PROVE Seconds(D, at) = 0
  <2>1. PerStat(D) = 0
    BY <1>8, SumEmpty DEF PerStat
  <2>2. SumFunctionOnSet(h, T) = 0
    BY <1>8, SumEmpty
  <2> HIDE DEF h, T
  <2> QED
    BY <1>7, <2>1, <2>2
<1>9. ASSUME D # {} PROVE Seconds(D, at) = Fixed(job.owner) + PerStat(D)
  <2>1. T = {job.owner}
    BY <1>4, <1>9
  <2>2. h[job.owner] = Fixed(job.owner) /\ h[job.owner] \in Int
    BY <1>2, <2>1
  <2> HIDE DEF h, T
  <2>3. SumFunctionOnSet(h, {job.owner}) = h[job.owner]
    BY <2>2, SumOne
  <2> QED
    BY <1>7, <2>1, <2>2, <2>3
<1> QED
  BY <1>1, <1>2, <1>3, <1>4, <1>5, <1>6, <1>8, <1>9

\* A part of a deployment costs its statistics' share at most.
LEMMA PartSeconds ==
  ASSUME NEW D, IsFiniteSet(D), NEW R \in SUBSET D,
         \A d \in D : Entry(job.file.cvar, d[1])[at] \in Nat
  PROVE  PerStat(R) <= PerStat(D) /\ PerStat(R) \in Nat /\ PerStat(D) \in Nat
<1> DEFINE f == [d \in D |-> Entry(job.file.cvar, d[1])[at]]
           g == [d \in R |-> Entry(job.file.cvar, d[1])[at]]
<1>1. (\A d \in D : f[d] \in Nat) /\ (\A d \in R : g[d] = f[d])
  OBVIOUS
<1>2. PerStat(R) = SumFunctionOnSet(g, R) /\ PerStat(D) = SumFunctionOnSet(f, D)
  BY DEF PerStat
<1> HIDE DEF f, g
<1>3. SumFunctionOnSet(g, R) <= SumFunctionOnSet(f, D)
      /\ SumFunctionOnSet(g, R) \in Nat /\ SumFunctionOnSet(f, D) \in Nat
  BY <1>1, PartCosts
<1> QED
  BY <1>2, <1>3

\* A point of the single table's maintenance curve is the best that can be
\* refreshed in the time.
LEMMA SingleIsBest ==
  ASSUME job \in Jobs, job.kind = "maint", job.bench = "one", job.file # None,
         Fixed(job.owner) # None, CVar(job.owner) # None, NEW B \in Nat, B > Fixed(job.owner),
         NEW in, in = Call({NoTable}, Huge, B - Fixed(job.owner), OwnerCharge),
         NEW s \in Solutions(in, {NoTable})
  PROVE  BestPoint(s, B)
<1>1. /\ AsksFor({NoTable}) /\ Fixed(job.owner) \in Nat /\ CVar(job.owner) \in Nat
      /\ CVar(job.owner) = Entry(job.file.cvar, job.owner)[at]
  <2>1. {} \in SUBSET RealStats(at)
    OBVIOUS
  <2> QED
    BY <2>1, SingleSeconds
<1> DEFINE m == B - Fixed(job.owner)
<1>2. m \in Nat /\ m > 0 /\ Huge \in Nat
  BY <1>1, SgridSearchAssumption
<1>3. /\ PointCall(in, {NoTable}) /\ in.maint = m /\ in.bytes = Huge
      /\ \A t \in Offered : in.var[t] = CVar(job.owner)
  <2>1. \A t \in Offered : t[1] \in Tables \cup {NoTable}
    BY OfferedFacts DEF Stats
  <2>2. \A t \in Offered : OwnerCharge[t[1]] = CVar(job.owner)
    BY <2>1 DEF OwnerCharge
  <2>3. Charges(OwnerCharge)
    BY <1>1, <2>2 DEF Charges
  <2>4. PointCall(Call({NoTable}, Huge, m, OwnerCharge), {NoTable})
    <3>1. m \in Nat \cup {None}
      BY <1>2
    <3> HIDE DEF m
    <3> QED
      BY <1>2, <2>3, <3>1, UntaggedOk
  <2>5. /\ in.maint = m /\ in.bytes = Huge
        /\ \A t \in Offered : in.var[t] = OwnerCharge[t[1]]
    BY DEF Call
  <2> QED
    BY <2>2, <2>4, <2>5
<1>4. job.kind # "search" /\ m # None
  BY <1>2, NoneAssumption
<1> HIDE DEF m
<1>5. /\ Serving(in, s) /\ s.y \in SUBSET PhysStats(in) /\ Creatable(in, s.y)
      /\ RealOf(s.y) \in SUBSET RealStats(at) /\ OneParameter(RealOf(s.y))
  <2>1. Serving(in, s)
    BY <1>1, <1>3, <1>4, SolutionServes
  <2> QED
    BY <2>1 DEF Serving
<1>6. \A p \in PhysStats(in) :
        in.var[p] = Entry(job.file.cvar, Real(p)[1])[at] /\ in.var[p] \in Nat
  <2> SUFFICES ASSUME NEW p \in PhysStats(in)
               PROVE  in.var[p] = Entry(job.file.cvar, Real(p)[1])[at] /\ in.var[p] \in Nat
    OBVIOUS
  <2>1. p \in Offered
    BY <1>3, PhysFacts
  <2>2. Real(p)[1] = job.owner
    BY <1>1, <1>3, RealFacts
  <2> QED
    BY <1>1, <1>3, <2>1, <2>2
<1>7. \A y \in SUBSET PhysStats(in) :
        VarCost(in, y) = PerStat(RealOf(y)) /\ VarCost(in, y) \in Nat
  BY <1>1, <1>3, <1>6, VariableIsReal
<1>8. RealOf(s.y) \in Affordable(at, B)
  <2>1. VarCost(in, s.y) <= m
    BY <1>2, <1>3, <1>4, <1>5 DEF Creatable, AdditiveBudget, PointCall, QueryCall
  <2>2. PerStat(RealOf(s.y)) <= m
    BY <1>5, <1>7, <2>1
  <2> DEFINE D == RealOf(s.y)
  <2>3. /\ Timed(D, at) /\ PerStat(D) \in Nat /\ (D = {} => Seconds(D, at) = 0)
        /\ (D # {} => Seconds(D, at) = Fixed(job.owner) + PerStat(D))
    BY <1>5, SingleSeconds
  <2>4. Seconds(D, at) <= B
    <3> HIDE DEF D
    <3> QED
      BY <1>1, <2>2, <2>3 DEF m, D
  <2> QED
    BY <1>5, <2>3, <2>4 DEF Affordable
<1>9. ASSUME NEW D \in Affordable(at, B) PROVE Total(s.qerr) <= ServedTotal(D)
  <2>1. D \in SUBSET RealStats(at) /\ OneParameter(D) /\ Seconds(D, at) <= B
    BY DEF Affordable
  <2> DEFINE y == { p \in PhysStats(in) : Real(p) \in D }
  <2>2. y \in SUBSET PhysStats(in) /\ RealOf(y) \in SUBSET D
    BY DEF RealOf
  <2>3. /\ PerStat(D) \in Nat /\ (D # {} => Seconds(D, at) = Fixed(job.owner) + PerStat(D))
        /\ \A d \in D : d[1] = job.owner
    BY <2>1, SingleSeconds
  <2>4. IsFiniteSet(D) /\ \A d \in D : Entry(job.file.cvar, d[1])[at] \in Nat
    BY <1>1, <2>1, <2>3, RealStatsFinite
  <2>5. PerStat(RealOf(y)) <= PerStat(D) /\ PerStat(RealOf(y)) \in Nat
    <3> HIDE DEF y
    <3> QED
      BY <2>2, <2>4, PartSeconds
  <2>6. PerStat(RealOf(y)) <= m
    <3>1. CASE D = {}
      <4>1. RealOf(y) = {}
        BY <2>2, <3>1
      <4>2. PerStat(RealOf(y)) = 0
        BY <4>1, SumEmpty DEF PerStat
      <4> HIDE DEF y
      <4> QED
        BY <1>2, <4>2
    <3>2. CASE D # {}
      <4> HIDE DEF y
      <4> QED
        BY <1>1, <2>1, <2>3, <2>5, <3>2 DEF m
    <3> QED
      BY <3>1, <3>2
  <2>7. VarCost(in, y) = PerStat(RealOf(y))
    <3> HIDE DEF y
    <3> QED
      BY <1>7, <2>2
  <2>8. AdditiveBudget(in, y)
    <3> HIDE DEF y
    <3> QED
      BY <1>3, <2>6, <2>7 DEF AdditiveBudget
  <2>9. Bytes(in, y) <= in.bytes
    <3> HIDE DEF y
    <3> QED
      BY <1>3, <2>2, HugeIsEnough
  <2> HIDE DEF y
  <2> QED
    BY <1>1, <1>3, <1>4, <2>1, <2>8, <2>9, NoWorseThan DEF y
<1> QED
  BY <1>5, <1>8, <1>9 DEF BestPoint, Serving

\* Leaving everything as it is, when no refresh fits the budget, is a deployment of
\* nothing; when a refresh alone would not use up the budget it is the best.
LEMMA BaselineIsBest ==
  ASSUME job \in Jobs, job.kind = "maint", job.bench = "one", job.file # None,
         Fixed(job.owner) # None, CVar(job.owner) # None, NEW B \in Nat, B <= Fixed(job.owner)
  PROVE  /\ RealOf(Unchanged.y) = {} /\ {} \in Affordable(at, B)
         /\ B # Fixed(job.owner) => BestPoint(Unchanged, B)
<1>1. /\ Unchanged.y = {} /\ DOMAIN Unchanged.qerr = Kept
      /\ \A q \in Kept : Unchanged.qerr[q] = Slot(q).base
  BY DEF Unchanged
<1>2. RealOf(Unchanged.y) = {}
  BY <1>1 DEF RealOf
<1>3. {} \in SUBSET RealStats(at)
  OBVIOUS
<1>4. Seconds({}, at) = 0 /\ Timed({}, at)
  BY <1>3, SingleSeconds
<1>5. {} \in Affordable(at, B)
  BY <1>3, <1>4 DEF Affordable, OneParameter
<1>6. \A q \in Kept : Unchanged.qerr[q] = Serves({}, q, at) /\ Unchanged.qerr[q] \in Nat
  <2>1. {} \in SUBSET (Tables \X Columns \X Params)
    OBVIOUS
  <2> QED
    BY <1>1, <2>1, ServesFacts, KeptFacts
<1>7. Total(Unchanged.qerr) = ServedTotal({}) /\ Total(Unchanged.qerr) \in Nat
  <2> DEFINE f == Unchanged.qerr
             g == [q \in Kept |-> Serves({}, q, at)]
  <2>1. IsFiniteSet(Kept) /\ (\A q \in Kept : f[q] = g[q]) /\ \A q \in Kept : f[q] \in Nat
    BY <1>6, KeptFacts
  <2>2. Total(f) = SumFunctionOnSet(f, Kept)
    BY <1>1 DEF Total, SumFunction
  <2>3. ServedTotal({}) = SumFunctionOnSet(g, Kept)
    BY DEF ServedTotal
  <2> HIDE DEF f, g
  <2>4. SumFunctionOnSet(f, Kept) = SumFunctionOnSet(g, Kept)
        /\ SumFunctionOnSet(f, Kept) \in Nat
    BY <2>1, SumSame, SumNat
  <2> QED
    BY <2>2, <2>3, <2>4 DEF f
<1>8. ASSUME B # Fixed(job.owner), NEW D \in Affordable(at, B)
      PROVE  Total(Unchanged.qerr) <= ServedTotal(D)
  <2>1. D \in SUBSET RealStats(at) /\ Seconds(D, at) <= B
    BY DEF Affordable
  <2>2. /\ Fixed(job.owner) \in Nat /\ PerStat(D) \in Nat
        /\ D # {} => Seconds(D, at) = Fixed(job.owner) + PerStat(D)
    BY <2>1, SingleSeconds
  <2>3. D = {}
    BY <1>8, <2>1, <2>2
  <2> QED
    BY <1>7, <2>3
<1> QED
  BY <1>1, <1>2, <1>5, <1>6, <1>7, <1>8 DEF BestPoint

-----------------------------------------------------------------------------
(* The set of tables a point of the curve over several tables pays for.      *)

\* Tables have distinct ranks.
LEMMA RankFacts ==
  /\ \A t \in Tables : Rank(t) \in Nat
  /\ \A t, u \in Tables : Rank(t) = Rank(u) => t = u
<1>1. ASSUME NEW t \in Tables PROVE Rank(t) \in Nat /\ TableOrder[Rank(t)] = t
  <2>1. \E i \in DOMAIN TableOrder : TableOrder[i] = t
    BY DEF Tables
  <2>2. Rank(t) \in DOMAIN TableOrder /\ TableOrder[Rank(t)] = t
    BY <2>1 DEF Rank
  <2> QED
    BY <2>2, SgridSearchAssumption
<1> QED
  BY <1>1

\* S has the first table of those in one of the sets only.
First(S, T, t) ==
  t \in S \ T /\ \A u \in (S \ T) \cup (T \ S) : u # t => Rank(t) < Rank(u)

\* That is how sets of one size are ordered.
LEMMA BeforeIsFirst ==
  ASSUME NEW S \in SUBSET Tables, NEW T \in SUBSET Tables,
         Cardinality(S) = Cardinality(T), S # T
  PROVE  Before(S, T) <=> \E t \in S \ T : First(S, T, t)
<1> DEFINE A == { Rank(t) : t \in S \ T }
           B == { Rank(t) : t \in T \ S }
<1>1. IsFiniteSet(S) /\ IsFiniteSet(T)
  BY SetFacts, FS_Subset
<1>2. Cardinality(S) \in Nat /\ Cardinality(T) \in Nat
  BY <1>1, FS_CardinalityType
<1>3. S \ T # {} /\ T \ S # {}
  <2>1. S \subseteq T => S = T
    BY <1>1, <1>2, FS_Subset
  <2>2. T \subseteq S => S = T
    BY <1>1, <1>2, FS_Subset
  <2> QED
    BY <2>1, <2>2
<1>4. (\A n \in A : n \in Nat) /\ (\A n \in B : n \in Nat) /\ A # {} /\ B # {}
  BY <1>3, RankFacts
<1>5. Min(A) \in A /\ (\A n \in A : Min(A) <= n) /\ Min(B) \in B /\ \A n \in B : Min(B) <= n
  <2> HIDE DEF A, B
  <2> QED
    BY <1>4, MinIs
<1>6. Before(S, T) <=> Min(A) < Min(B)
  BY <1>2 DEF Before
<1>7. ASSUME Min(A) < Min(B) PROVE \E t \in S \ T : First(S, T, t)
  <2>1. PICK t \in S \ T : Rank(t) = Min(A)
    BY <1>5
  <2>2. ASSUME NEW u \in (S \ T) \cup (T \ S), u # t PROVE Rank(t) < Rank(u)
    <3>1. Rank(t) \in Nat /\ Rank(u) \in Nat /\ Rank(t) # Rank(u)
      BY <2>2, RankFacts
    <3>2. CASE u \in S \ T
      <4>1. Rank(u) \in A
        BY <3>2
      <4> HIDE DEF A, B
      <4> QED
        BY <1>5, <2>1, <3>1, <4>1
    <3>3. CASE u \in T \ S
      <4>1. Rank(u) \in B
        BY <3>3
      <4>2. Min(B) \in Nat
        BY <1>4, <1>5
      <4> HIDE DEF A, B
      <4> QED
        BY <1>5, <1>7, <2>1, <3>1, <4>1, <4>2
    <3> QED
      BY <3>2, <3>3
  <2> QED
    BY <2>1, <2>2 DEF First
<1>8. ASSUME NEW t \in S \ T, First(S, T, t) PROVE Min(A) < Min(B)
  <2>1. PICK u \in T \ S : Rank(u) = Min(B)
    BY <1>5
  <2>2. Rank(t) < Rank(u)
    BY <1>8, <2>1 DEF First
  <2>3. Rank(t) \in A
    BY <1>8
  <2>4. Rank(t) \in Nat /\ Rank(u) \in Nat /\ Min(A) \in Nat
    BY <1>4, <1>5, <1>8, <2>1, RankFacts
  <2> HIDE DEF A, B
  <2> QED
    BY <1>5, <2>1, <2>2, <2>3, <2>4
<1> QED
  BY <1>6, <1>7, <1>8

\* The order of the sets of tables is a strict partial order.
LEMMA BeforeOrder ==
  ASSUME NEW S \in SUBSET Tables, NEW T \in SUBSET Tables, NEW U \in SUBSET Tables
  PROVE  ~ Before(S, S) /\ (Before(S, T) /\ Before(T, U) => Before(S, U))
<1>1. /\ Cardinality(S) \in Nat /\ Cardinality(T) \in Nat /\ Cardinality(U) \in Nat
  <2>1. IsFiniteSet(S) /\ IsFiniteSet(T) /\ IsFiniteSet(U)
    BY SetFacts, FS_Subset
  <2> QED
    BY <2>1, FS_CardinalityType
<1>2. ~ Before(S, S)
  BY <1>1 DEF Before
<1>3. ASSUME Before(S, T), Before(T, U) PROVE Before(S, U)
  <2>1. Cardinality(S) <= Cardinality(T) /\ Cardinality(T) <= Cardinality(U)
    BY <1>1, <1>3 DEF Before
  <2>2. CASE Cardinality(S) < Cardinality(U)
    BY <2>2 DEF Before
  <2>3. CASE Cardinality(S) = Cardinality(U)
    <3>1. Cardinality(S) = Cardinality(T) /\ Cardinality(T) = Cardinality(U)
      BY <1>1, <2>1, <2>3
    <3>2. S # T /\ T # U
      BY <1>1, <1>3, <3>1 DEF Before
    <3>3. PICK a \in S \ T : First(S, T, a)
      BY <1>3, <3>1, <3>2, BeforeIsFirst
    <3>4. PICK b \in T \ U : First(T, U, b)
      BY <1>3, <3>1, <3>2, BeforeIsFirst
    <3>5. /\ Rank(a) \in Nat /\ Rank(b) \in Nat /\ a # b /\ Rank(a) # Rank(b)
          /\ \A u \in S \cup T \cup U : Rank(u) \in Nat
      BY <3>3, <3>4, RankFacts
    <3>6. CASE Rank(a) < Rank(b)
      <4>1. a \notin U
        BY <3>3, <3>4, <3>5, <3>6 DEF First
      <4>2. ASSUME NEW u \in (S \ U) \cup (U \ S), u # a PROVE Rank(a) < Rank(u)
        <5>1. CASE u \in (S \ T) \cup (T \ S)
          BY <3>3, <4>2, <5>1 DEF First
        <5>2. CASE u \in (T \ U) \cup (U \ T)
          <6>1. u = b \/ Rank(b) < Rank(u)
            BY <3>4, <5>2 DEF First
          <6> QED
            BY <3>5, <3>6, <6>1
        <5> QED
          BY <5>1, <5>2
      <4>3. First(S, U, a) /\ a \in S \ U
        BY <3>3, <4>1, <4>2 DEF First
      <4> QED
        BY <2>3, <4>3, BeforeIsFirst
    <3>7. CASE Rank(b) < Rank(a)
      <4>1. b \in S
        <5>1. b \notin (S \ T) \cup (T \ S)
          BY <3>3, <3>5, <3>7 DEF First
        <5> QED
          BY <3>4, <5>1
      <4>2. ASSUME NEW u \in (S \ U) \cup (U \ S), u # b PROVE Rank(b) < Rank(u)
        <5>1. CASE u \in (S \ T) \cup (T \ S)
          <6>1. u = a \/ Rank(a) < Rank(u)
            BY <3>3, <5>1 DEF First
          <6> QED
            BY <3>5, <3>7, <6>1
        <5>2. CASE u \in (T \ U) \cup (U \ T)
          BY <3>4, <4>2, <5>2 DEF First
        <5> QED
          BY <5>1, <5>2
      <4>3. First(S, U, b) /\ b \in S \ U
        BY <3>4, <4>1, <4>2 DEF First
      <4> QED
        BY <2>3, <4>3, BeforeIsFirst
    <3> QED
      BY <3>5, <3>6, <3>7
  <2> QED
    BY <1>1, <2>1, <2>2, <2>3
<1> QED
  BY <1>2, <1>3

\* Of finitely many sets there is a first among the best.
LEMMA FirstBestExists ==
  ASSUME NEW R \in SUBSET (SUBSET Tables), R # {}, NEW total, DOMAIN total = R,
         \A T \in R : total[T] \in Int
  PROVE  /\ FirstBest(total) \in R
         /\ \A T \in R :
              \/ total[FirstBest(total)] < total[T]
              \/ total[FirstBest(total)] = total[T] /\ ~ Before(T, FirstBest(total))
<1> DEFINE Better(T, S) == total[T] < total[S] \/ (total[T] = total[S] /\ Before(T, S))
           Pred(S) == { T \in R : Better(T, S) }
           P == { Pred(S) : S \in R }
<1>1. IsFiniteSet(R)
  <2>1. IsFiniteSet(SUBSET Tables)
    BY SetFacts, FS_SUBSET
  <2> QED
    BY <2>1, FS_Subset
<1>2. PICK p \in P : \A r \in P : r \subseteq p => r = p
  <2>1. P \in SUBSET (SUBSET R) /\ P # {}
    OBVIOUS
  <2> HIDE DEF P
  <2> QED
    BY <1>1, <2>1, LeastSubset
<1>3. PICK S \in R : p = Pred(S)
  OBVIOUS
<1>4. \A T, U, V \in R : Better(T, U) /\ Better(U, V) => Better(T, V)
  <2> SUFFICES ASSUME NEW T \in R, NEW U \in R, NEW V \in R, Better(T, U), Better(U, V)
               PROVE  Better(T, V)
    OBVIOUS
  <2>1. T \in SUBSET Tables /\ U \in SUBSET Tables /\ V \in SUBSET Tables
        /\ total[T] \in Int /\ total[U] \in Int /\ total[V] \in Int
    OBVIOUS
  <2>2. Before(T, U) /\ Before(U, V) => Before(T, V)
    BY <2>1, BeforeOrder
  <2> QED
    BY <2>1, <2>2
<1>5. \A T \in R : ~ Better(T, T)
  BY BeforeOrder
<1>6. \A T \in R : ~ Better(T, S)
  <2> SUFFICES ASSUME NEW T \in R, Better(T, S) PROVE FALSE
    OBVIOUS
  <2>1. T \in Pred(S) /\ T \notin Pred(T)
    BY <1>5
  <2>2. Pred(T) \subseteq Pred(S)
    <3> HIDE DEF Better
    <3> QED
      BY <1>4
  <2>3. Pred(T) \in P
    OBVIOUS
  <2> HIDE DEF Pred, P
  <2> QED
    BY <1>2, <1>3, <2>1, <2>2, <2>3
<1>7. \A T \in R : total[S] < total[T] \/ (total[S] = total[T] /\ ~ Before(T, S))
  BY <1>6
<1> DEFINE Q(Z) == \A T \in R : total[Z] < total[T] \/ (total[Z] = total[T] /\ ~ Before(T, Z))
<1>8. FirstBest(total) = CHOOSE Z \in R : Q(Z)
  BY DEF FirstBest
<1>9. \E Z \in R : Q(Z)
  BY <1>7
<1> HIDE DEF Q
<1>10. FirstBest(total) \in R /\ Q(FirstBest(total))
  BY <1>8, <1>9
<1> QED
  BY <1>10 DEF Q

\* Statistics that no query of a call can use may be left out of it: what remains of
\* an optimum without them is an optimum of the call without them.
LEMMA IdleColumns ==
  ASSUME NEW in, NEW own, IsCall(in), IsCall(own), ~ UseProfile(in), ~ UseProfile(own),
         own.table = in.table, own.columns = in.columns, own.cost = in.cost, own.var = in.var,
         own.base = in.base, own.err = in.err, own.weight = in.weight, own.class = in.class,
         own.cap = in.cap, own.maint = in.maint, own.bytes = in.bytes,
         own.disjoint = in.disjoint, PhysStats(own) \subseteq PhysStats(in),
         NEW f \in Optimal(in)
  PROVE  [y |-> f.y \cap PhysStats(own), x |-> f.x] \in Optimal(own)
<1> DEFINE z == f.y \cap PhysStats(own)
           g == [y |-> z, x |-> f.x]
<1>1. Workload(own) = Workload(in) /\ Candidates(own) = Candidates(in)
  BY DEF Workload, Candidates
<1>2. \A q : Options(own, q) = Options(in, q)
  BY DEF Options
<1>3. Helpful(own) = Helpful(in)
  BY <1>1, <1>2 DEF Helpful
<1>4. \A q, S : Gain(own, q, S) = Gain(in, q, S)
  BY DEF Gain, Improvement
<1>5. \A x : Credit(own, x) = Credit(in, x)
  BY <1>1, <1>4 DEF Credit
<1>6. \A x : Selectable(own, x) <=> Selectable(in, x)
  BY <1>1, <1>4 DEF Selectable, WithinCap, OverlapFree, Overlap, AboveFloor
<1>7. \A y : Selections(own, y) = Selections(in, y)
  BY <1>1, <1>2, <1>3 DEF Selections
<1>8. \A y : Creatable(own, y) <=> Creatable(in, y)
  BY DEF Creatable, Bytes, SameCombo, Overlap, AdditiveBudget, VarCost
<1>9. /\ f.y \in SUBSET PhysStats(in) /\ Creatable(in, f.y)
      /\ f.x \in Selections(in, f.y) /\ Selectable(in, f.x)
  BY OptimalFacts
<1>10. Creatable(own, z)
  <2>1. IsFiniteSet(f.y) /\ z \in SUBSET f.y
    BY <1>9, OptionFacts, FS_Subset
  <2>2. \A s \in f.y : in.cost[s] \in Nat /\ in.var[s] \in Nat
    BY <1>9, OptionFacts, CallFacts
  <2> HIDE DEF z
  <2>3. /\ Bytes(in, z) <= Bytes(in, f.y) /\ Bytes(in, z) \in Nat /\ Bytes(in, f.y) \in Nat
    BY <2>1, <2>2, PartCosts DEF Bytes
  <2>4. VarCost(in, z) <= VarCost(in, f.y) /\ VarCost(in, z) \in Nat /\ VarCost(in, f.y) \in Nat
    BY <2>1, <2>2, PartCosts DEF VarCost
  <2>5. in.bytes \in Nat /\ in.maint \in Nat \cup {None}
    BY CallFacts
  <2>6. Bytes(in, z) <= in.bytes
    BY <1>9, <2>3, <2>5 DEF Creatable
  <2>7. AdditiveBudget(in, z)
    BY <1>9, <2>4, <2>5 DEF Creatable, AdditiveBudget
  <2>8. Creatable(in, z)
    BY <1>9, <2>1, <2>6, <2>7 DEF Creatable
  <2> QED
    BY <1>8, <2>8
<1>11. f.x \in Selections(own, z)
  <2>1. Helpful(in) \subseteq PhysStats(own)
    BY <1>3, CallFacts
  <2>2. f.y \cap Helpful(in) = z \cap Helpful(in)
    BY <2>1
  <2>3. Selections(in, f.y) = Selections(in, z)
    BY <2>2 DEF Selections
  <2> QED
    BY <1>7, <1>9, <2>3
<1>12. g \in Feasible(own)
  <2>1. z \in SUBSET PhysStats(own) /\ Selectable(own, f.x)
    BY <1>6, <1>9
  <2> HIDE DEF z
  <2> QED
    BY <1>10, <1>11, <2>1 DEF Feasible
<1> DEFINE C == { Credit(in, h.x) : h \in Feasible(in) }
           E == { Credit(own, h.x) : h \in Feasible(own) }
<1>13. \A c \in C : c <= Credit(in, f.x)
  <2>1. f \in Feasible(in) /\ Credit(in, f.x) = Max(C)
    BY DEF Optimal
  <2>2. IsFiniteSet(C) /\ C # {} /\ \A c \in C : c \in Int
    BY <2>1, CreditsFinite
  <2> HIDE DEF C
  <2> QED
    BY <2>1, <2>2, MaxIs
<1>14. E \subseteq C
  <2>1. ASSUME NEW h \in Feasible(own) PROVE h \in Feasible(in)
    <3>1. PICK y \in SUBSET PhysStats(own) :
            Creatable(own, y)
              /\ \E x \in Selections(own, y) : Selectable(own, x) /\ h = [y |-> y, x |-> x]
      BY <2>1 DEF Feasible
    <3>2. PICK x \in Selections(own, y) : Selectable(own, x) /\ h = [y |-> y, x |-> x]
      BY <3>1
    <3>3. /\ y \in SUBSET PhysStats(in) /\ Creatable(in, y) /\ x \in Selections(in, y)
          /\ Selectable(in, x)
      BY <1>6, <1>7, <1>8, <3>1, <3>2
    <3> QED
      BY <3>2, <3>3 DEF Feasible
  <2> QED
    BY <1>5, <2>1
<1>15. Credit(own, g.x) \in E /\ \A e \in E : e \in Int
  <2>1. Credit(own, g.x) \in E
    BY <1>12
  <2>2. \A e \in E : e \in Int
    BY CreditsFinite
  <2> QED
    BY <2>1, <2>2
<1>16. \A e \in E : e <= Credit(own, g.x)
  <2>1. Credit(own, g.x) = Credit(in, f.x)
    BY <1>5
  <2> HIDE DEF C, E, g
  <2> QED
    BY <1>13, <1>14, <2>1
<1>17. Max(E) = Credit(own, g.x)
  <2> HIDE DEF E, g
  <2> QED
    BY <1>15, <1>16, MaxUnique
<1> QED
  BY <1>12, <1>17 DEF Optimal

\* A solvable point of the curve over several tables.
SeveralTables ==
  /\ job.kind = "maint" /\ job.bench = "many" /\ job.file # None
  /\ ~ Unsolvable /\ Budget \in Nat

\* Every table and statistic in question was timed at this level.
LEMMA SeveralFacts ==
  ASSUME job \in Jobs, SeveralTables
  PROVE  /\ Measured \in SUBSET Tables /\ IsFiniteSet(Measured) /\ Kept = Queries
         /\ \A t \in Measured : Fixed(t) \in Nat /\ Fixed(t) = Entry(job.file.fixed, t)[at]
              /\ \E k \in DOMAIN job.file.fixed : Lower[k] = t
                   /\ at \in DOMAIN job.file.fixed[k]
         /\ \A t : CVar(t) # None =>
              /\ t \in Measured /\ CVar(t) \in Nat /\ CVar(t) = Entry(job.file.cvar, t)[at]
              /\ \E k \in DOMAIN job.file.cvar : Lower[k] = t /\ at \in DOMAIN job.file.cvar[k]
         /\ \A s \in Offered : s[1] # NoTable => CVar(s[1]) # None
         /\ Charges(TableCharge)
<1>1. /\ Kept = Queries /\ (\A s \in Offered : s[1] # NoTable => CVar(s[1]) # None)
      /\ \A t \in Measured : Fixed(t) # None
  BY DEF SeveralTables, Unsolvable
<1>2. job.file # None /\ job.file.fixed \in {job.file.fixed, job.file.cvar}
      /\ job.file.cvar \in {job.file.fixed, job.file.cvar}
  BY DEF SeveralTables
<1>3. \A t : CVar(t) # None =>
        /\ t \in Measured /\ CVar(t) \in Nat /\ CVar(t) = Entry(job.file.cvar, t)[at]
        /\ \E k \in DOMAIN job.file.cvar : Lower[k] = t /\ at \in DOMAIN job.file.cvar[k]
  BY <1>2, EntryFacts DEF CVar, Measured
<1>4. \A t \in Measured : t \in Tables
  BY <1>2, EntryFacts DEF Measured
<1>5. \A t \in Measured : Fixed(t) \in Nat /\ Fixed(t) = Entry(job.file.fixed, t)[at]
        /\ \E k \in DOMAIN job.file.fixed : Lower[k] = t /\ at \in DOMAIN job.file.fixed[k]
  <2>1. \A t : Fixed(t) # None =>
          /\ Fixed(t) \in Nat /\ Fixed(t) = Entry(job.file.fixed, t)[at]
          /\ \E k \in DOMAIN job.file.fixed : Lower[k] = t /\ at \in DOMAIN job.file.fixed[k]
    BY <1>2, EntryFacts DEF Fixed
  <2> QED
    BY <1>1, <2>1
<1>6. Measured \in SUBSET Tables /\ IsFiniteSet(Measured)
  BY <1>4, SetFacts, FS_Subset
<1>7. ASSUME NEW s \in Offered PROVE TableCharge[s[1]] \in Nat
  <2>1. s[1] \in Tables \cup {NoTable}
    BY OfferedFacts DEF Stats
  <2>2. CASE s[1] = NoTable
    <3>1. s[1] \notin Measured
      BY <1>4, <2>2, SetFacts
    <3> QED
      BY <2>1, <3>1 DEF TableCharge
  <2>3. CASE s[1] # NoTable
    BY <1>1, <1>3, <2>1, <2>3 DEF TableCharge
  <2> QED
    BY <2>2, <2>3
<1> QED
  BY <1>1, <1>3, <1>5, <1>6, <1>7 DEF Charges

\* The fixed charges of a set of tables are what their refresh takes at least.
LEMMA FixedFacts ==
  ASSUME job \in Jobs, SeveralTables, NEW S \in SUBSET Measured
  PROVE  /\ FixedSum(S) \in Nat /\ FixedSum(S) = FixedSeconds(S, at)
         /\ \A T \in SUBSET S : FixedSum(T) \in Nat /\ FixedSum(T) <= FixedSum(S)
<1>1. IsFiniteSet(S) /\ \A t \in S : Fixed(t) \in Nat /\ Fixed(t) = Entry(job.file.fixed, t)[at]
  BY SeveralFacts, FS_Subset
<1> DEFINE f == [t \in S |-> Fixed(t)]
           g == [t \in S |-> Entry(job.file.fixed, t)[at]]
<1>2. f = g
  BY <1>1
<1>3. FixedSum(S) = SumFunctionOnSet(f, S) /\ FixedSeconds(S, at) = SumFunctionOnSet(g, S)
  BY DEF FixedSum, FixedSeconds, SumFunction
<1>4. \A t \in S : f[t] \in Nat
  BY <1>1
<1>5. ASSUME NEW T \in SUBSET S PROVE FixedSum(T) \in Nat /\ FixedSum(T) <= FixedSum(S)
  <2> DEFINE h == [t \in T |-> Fixed(t)]
  <2>1. (\A t \in T : h[t] = f[t]) /\ FixedSum(T) = SumFunctionOnSet(h, T)
    BY DEF FixedSum, SumFunction
  <2> HIDE DEF f, h
  <2>2. SumFunctionOnSet(h, T) <= SumFunctionOnSet(f, S) /\ SumFunctionOnSet(h, T) \in Nat
    BY <1>1, <1>4, <2>1, PartCosts
  <2> QED
    BY <1>3, <2>1, <2>2
<1> HIDE DEF f, g
<1> QED
  BY <1>2, <1>3, <1>5

\* The call for a set of tables without what only other queries can use, and what a
\* point has created on the tables it pays for.
PaidCall(S) == [SubsetCall(S) EXCEPT !.phys = OwnStats(S)]
Paid(s) ==
  [tables |-> s.tables, y |-> { p \in s.y : p[1] \in s.tables }, qerr |-> s.qerr]

\* Both are calls for the queries on those tables.
LEMMA SubsetCalls ==
  ASSUME job \in Jobs, SeveralTables, NEW S \in Refreshable
  PROVE  /\ FixedSum(S) \in Nat /\ Budget - FixedSum(S) \in Nat
         /\ QueryCall(SubsetCall(S), S) /\ PhysStats(SubsetCall(S)) = Offered
         /\ QueryCall(PaidCall(S), S) /\ PhysStats(PaidCall(S)) = OwnStats(S)
         /\ OwnStats(S) \in SUBSET Offered
         /\ PaidCall(S).maint = Budget - FixedSum(S) /\ PaidCall(S).bytes = Huge
         /\ \A s \in Offered : PaidCall(S).var[s] = TableCharge[s[1]]
<1> DEFINE m == Budget - FixedSum(S)
           c == Call(S, Huge, m, TableCharge)
<1>1. S \in SUBSET Measured /\ FixedSum(S) <= Budget /\ FixedSum(S) \in Nat
  BY FixedFacts DEF Refreshable
<1>2. m \in Nat /\ Huge \in Nat /\ Charges(TableCharge)
  BY <1>1, SgridSearchAssumption, SeveralFacts DEF SeveralTables
<1>3. SubsetCall(S) = c
  BY DEF SubsetCall, ForStatistics
<1>4. OwnStats(S) \in SUBSET Offered
  BY DEF OwnStats, Offered, Asked
<1> HIDE DEF m
<1>5. QueryCall(c, S) /\ PhysStats(c) = Offered
  <2>1. Offered \in SUBSET Offered /\ OwnStats(S) \subseteq Offered /\ m \in Nat \cup {None}
    BY <1>2, <1>4
  <2> HIDE DEF c
  <2> QED
    BY <1>2, <2>1, CallOk DEF c
<1> DEFINE own == [c EXCEPT !.phys = OwnStats(S)]
<1>6. QueryCall(own, S) /\ PhysStats(own) = OwnStats(S)
  <2>1. OwnStats(S) \subseteq OwnStats(S) /\ m \in Nat \cup {None}
    BY <1>2
  <2> HIDE DEF c, own
  <2> QED
    BY <1>2, <1>4, <2>1, CallOk DEF c, own
<1>7. own.maint = m /\ own.bytes = Huge /\ own.var = [s \in Offered |-> TableCharge[s[1]]]
  BY DEF Call
<1>8. PaidCall(S) = own
  BY <1>3 DEF PaidCall
<1> HIDE DEF c, own
<1> QED
  BY <1>1, <1>2, <1>3, <1>4, <1>5, <1>6, <1>7, <1>8 DEF m

\* The statistics on the tables paid for are those of the queries on them.
LEMMA OnPaidTables ==
  ASSUME job \in Jobs, SeveralTables, NEW S \in Refreshable, NEW p \in Offered
  PROVE  p \in OwnStats(S) <=> p[1] \in S
<1>1. PICK q \in Kept : p \in DOMAIN Readings(q)
  BY DEF Offered
<1>2. ASSUME NEW r \in Kept, p \in DOMAIN Readings(r) PROVE p[1] = Tag(r)
  <2>1. DOMAIN Readings(r) = { s \in {Tag(r)} \X Columns \X Params : Helps(r, s[2], s[3]) }
    BY ReadingFacts
  <2> QED
    BY <1>2, <2>1
<1>3. p \in OwnStats(S) <=> \E r \in Kept : Tag(r) \in S /\ p \in DOMAIN Readings(r)
  BY DEF OwnStats, Asked
<1> QED
  BY <1>1, <1>2, <1>3

\* Whatever the solver returns for a set of tables, and it may have created idle
\* statistics on other tables, the part on the tables paid for is a solution of the
\* call without them.
LEMMA PaidSolution ==
  ASSUME job \in Jobs, SeveralTables, NEW S \in Refreshable, NEW s \in SubsetPoints(S)
  PROVE  Paid(s) \in Solutions(PaidCall(S), S)
<1>1. /\ QueryCall(SubsetCall(S), S) /\ PhysStats(SubsetCall(S)) = Offered
      /\ QueryCall(PaidCall(S), S) /\ PhysStats(PaidCall(S)) = OwnStats(S)
      /\ OwnStats(S) \in SUBSET Offered
  BY SubsetCalls
<1>2. CASE Asked(S) = {}
  <2>1. s = [Unchanged EXCEPT !.tables = S]
    BY <1>2 DEF SubsetPoints
  <2>2. s.tables = S /\ s.y = {} /\ s.qerr = [q \in Kept |-> Slot(q).base]
    BY <2>1 DEF Unchanged
  <2>3. Paid(s) = [tables |-> S, y |-> {}, qerr |-> [q \in Kept |-> Slot(q).base]]
    BY <2>2 DEF Paid
  <2>4. PICK t \in Solutions(PaidCall(S), S) : TRUE
    BY <1>1, SolutionExists DEF PointCall
  <2>5. PICK f \in Optimal(PaidCall(S)) :
          t = [tables |-> S, y |-> f.y,
               qerr |-> [q \in Kept |-> IF q \in Asked(S) THEN DecodedError(PaidCall(S), f.x, q)
                                        ELSE Slot(q).base]]
    BY DEF Solutions
  <2>6. f.y = {}
    <3>1. f.y \in SUBSET OwnStats(S)
      BY <1>1, OptimalFacts DEF QueryCall
    <3>2. OwnStats(S) = {}
      BY <1>2 DEF OwnStats
    <3> QED
      BY <3>1, <3>2
  <2>7. t = [tables |-> S, y |-> {}, qerr |-> [q \in Kept |-> Slot(q).base]]
    BY <1>2, <2>5, <2>6
  <2> QED
    BY <2>3, <2>7
<1>3. CASE Asked(S) # {}
  <2> DEFINE in == SubsetCall(S)
             own == PaidCall(S)
  <2>1. PICK f \in Optimal(in) :
          s = [tables |-> S, y |-> f.y,
               qerr |-> [q \in Kept |-> IF q \in Asked(S) THEN DecodedError(in, f.x, q)
                                        ELSE Slot(q).base]]
    BY <1>3 DEF SubsetPoints, Solutions
  <2>2. /\ own.table = in.table /\ own.columns = in.columns /\ own.cost = in.cost
        /\ own.var = in.var /\ own.base = in.base /\ own.err = in.err
        /\ own.weight = in.weight /\ own.class = in.class /\ own.cap = in.cap
        /\ own.maint = in.maint /\ own.bytes = in.bytes /\ own.disjoint = in.disjoint
    BY DEF PaidCall, SubsetCall, Call
  <2> HIDE DEF in, own
  <2>3. /\ IsCall(in) /\ IsCall(own) /\ ~ UseProfile(in) /\ ~ UseProfile(own)
        /\ PhysStats(own) \subseteq PhysStats(in)
    BY <1>1 DEF QueryCall, in, own
  <2> DEFINE g == [y |-> f.y \cap PhysStats(own), x |-> f.x]
  <2>4. g \in Optimal(own)
    BY <2>2, <2>3, IdleColumns
  <2>5. \A q : DecodedError(own, f.x, q) = DecodedError(in, f.x, q)
    BY <2>2 DEF DecodedError, Gain, Improvement
  <2>6. f.y \in SUBSET Offered
    BY <1>1, <2>3, OptimalFacts DEF in
  <2>7. { p \in f.y : p[1] \in S } = f.y \cap PhysStats(own)
    BY <1>1, <2>6, OnPaidTables DEF own
  <2>8. Paid(s) = [tables |-> S, y |-> g.y,
                   qerr |-> [q \in Kept |-> IF q \in Asked(S) THEN DecodedError(own, g.x, q)
                                            ELSE Slot(q).base]]
    BY <2>1, <2>5, <2>7 DEF Paid
  <2> HIDE DEF g
  <2> QED
    BY <2>4, <2>8 DEF Solutions, own
<1> QED
  BY <1>2, <1>3

\* There always is a point.
LEMMA PointExists ==
  ASSUME job \in Jobs, SeveralTables, NEW S \in Refreshable
  PROVE  SubsetPoints(S) # {}
<1>1. CASE Asked(S) = {}
  BY <1>1 DEF SubsetPoints
<1>2. CASE Asked(S) # {}
  <2>1. QueryCall(SubsetCall(S), S)
    BY SubsetCalls
  <2>2. Solutions(SubsetCall(S), S) # {}
    BY <2>1, SolutionExists
  <2> QED
    BY <1>2, <2>2 DEF SubsetPoints
<1> QED
  BY <1>1, <1>2

\* What the statistics on a set of tables one can pay for cost and charge.
LEMMA SubsetFacts ==
  ASSUME job \in Jobs, SeveralTables, NEW S \in Refreshable
  PROVE  /\ S \in SUBSET Measured /\ AsksFor(S) /\ S # {NoTable}
         /\ PointCall(PaidCall(S), S)
         /\ PaidCall(S).maint = Budget - FixedSum(S) /\ PaidCall(S).maint \in Nat
         /\ FixedSum(S) \in Nat
         /\ \A y \in SUBSET PhysStats(PaidCall(S)) :
              /\ Bytes(PaidCall(S), y) <= PaidCall(S).bytes
              /\ VarCost(PaidCall(S), y) = PerStat(RealOf(y))
              /\ VarCost(PaidCall(S), y) \in Nat
              /\ \A d \in RealOf(y) : CVar(d[1]) # None /\ d[1] \in S
<1>1. S \in SUBSET Measured /\ FixedSum(S) \in Nat
  BY FixedFacts DEF Refreshable
<1>2. AsksFor(S) /\ S # {NoTable}
  BY <1>1, SeveralFacts, SetFacts DEF AsksFor, SeveralTables
<1> DEFINE in == PaidCall(S)
           m == Budget - FixedSum(S)
<1>3. /\ in.maint = m /\ in.bytes = Huge /\ m \in Nat
      /\ \A s \in Offered : in.var[s] = TableCharge[s[1]]
  BY SubsetCalls
<1>4. PointCall(in, S)
  BY SubsetCalls DEF PointCall
<1> HIDE DEF in
<1>5. ASSUME NEW s \in PhysStats(in)
      PROVE  /\ in.var[s] = Entry(job.file.cvar, Real(s)[1])[at] /\ in.var[s] \in Nat
             /\ CVar(Real(s)[1]) # None /\ Real(s)[1] \in S
  <2>1. s \in Offered
    BY <1>4, PhysFacts
  <2>2. Real(s) = s /\ s[1] \in S
    BY <1>2, <1>4, RealFacts
  <2>3. s[1] # NoTable /\ s[1] \in Tables
    BY <1>1, <2>2, SeveralFacts, SetFacts
  <2>4. /\ CVar(s[1]) # None /\ s[1] \in Measured /\ CVar(s[1]) \in Nat
        /\ CVar(s[1]) = Entry(job.file.cvar, s[1])[at]
    BY <2>1, <2>3, SeveralFacts
  <2>5. in.var[s] = CVar(s[1])
    BY <1>3, <2>1, <2>3, <2>4 DEF TableCharge
  <2> QED
    BY <2>2, <2>4, <2>5
<1>6. ASSUME NEW y \in SUBSET PhysStats(in)
       PROVE  /\ Bytes(in, y) <= in.bytes /\ VarCost(in, y) = PerStat(RealOf(y))
              /\ VarCost(in, y) \in Nat
              /\ \A d \in RealOf(y) : CVar(d[1]) # None /\ d[1] \in S
  <2>1. Bytes(in, y) <= in.bytes
    BY <1>3, <1>4, HugeIsEnough
  <2>2. \A s \in PhysStats(in) :
          in.var[s] = Entry(job.file.cvar, Real(s)[1])[at] /\ in.var[s] \in Nat
    BY <1>5
  <2>3. VarCost(in, y) = PerStat(RealOf(y)) /\ VarCost(in, y) \in Nat
    BY <1>2, <1>4, <2>2, VariableIsReal
  <2>4. \A d \in RealOf(y) : CVar(d[1]) # None /\ d[1] \in S
    BY <1>5 DEF RealOf
  <2> QED
    BY <2>1, <2>3, <2>4
<1> QED
  BY <1>1, <1>2, <1>3, <1>4, <1>6 DEF in, m

\* What the point keeps of a set of tables does not depend on which of its optima
\* the solver returned.
LEMMA AttainedFacts ==
  ASSUME job \in Jobs, SeveralTables, NEW S \in Refreshable
  PROVE  /\ Attained(S) \in Nat
         /\ \E s \in Solutions(PaidCall(S), S) : Total(s.qerr) = Attained(S)
         /\ \A s \in Solutions(PaidCall(S), S) : Total(s.qerr) = Attained(S)
<1> DEFINE in == PaidCall(S)
           t == CHOOSE s \in SubsetPoints(S) : TRUE
           c == Paid(t)
<1>1. PointCall(in, S) /\ job.kind # "search"
  BY SubsetFacts DEF SeveralTables
<1>2. c \in Solutions(in, S) /\ c.qerr = t.qerr
  <2>1. t \in SubsetPoints(S)
    BY PointExists
  <2> HIDE DEF t
  <2> QED
    BY <2>1, PaidSolution DEF Paid
<1> HIDE DEF in, c
<1>3. ASSUME NEW s \in Solutions(in, S), NEW r \in Solutions(in, S)
      PROVE  Total(s.qerr) \in Nat /\ Total(s.qerr) <= Total(r.qerr)
  <2>1. /\ Total(s.qerr) \in Nat
        /\ \A y \in SUBSET PhysStats(in) :
             Creatable(in, y) => Total(s.qerr) <= SumFunctionOnSet(Left(S, y), Kept)
    BY <1>1, TotalIsLeast
  <2>2. Total(r.qerr) = SumFunctionOnSet(Left(S, r.y), Kept)
    BY <1>1, TotalIsLeast
  <2>3. r.y \in SUBSET PhysStats(in) /\ Creatable(in, r.y)
    BY <1>1, SolutionFacts DEF Solved
  <2> QED
    BY <2>1, <2>2, <2>3
<1>4. Attained(S) = Total(c.qerr)
  BY <1>2 DEF Attained
<1>5. \A s \in Solutions(in, S) : Total(s.qerr) = Total(c.qerr)
  <2> SUFFICES ASSUME NEW s \in Solutions(in, S) PROVE Total(s.qerr) = Total(c.qerr)
    OBVIOUS
  <2>1. Total(s.qerr) <= Total(c.qerr) /\ Total(c.qerr) <= Total(s.qerr)
        /\ Total(s.qerr) \in Nat /\ Total(c.qerr) \in Nat
    BY <1>2, <1>3
  <2> QED
    BY <2>1
<1> QED
  BY <1>2, <1>3, <1>4, <1>5 DEF in

\* The set of tables a point pays for: one can, no other one can pay for leaves
\* less, and none that leaves as much comes before it.
Bought == FirstBest([ T \in Refreshable |-> Attained(T) ])

\* There is one.
LEMMA BoughtFacts ==
  ASSUME job \in Jobs, SeveralTables
  PROVE  /\ Bought \in Refreshable
         /\ \A T \in Refreshable :
              \/ Attained(Bought) < Attained(T)
              \/ Attained(Bought) = Attained(T) /\ ~ Before(T, Bought)
<1> DEFINE total == [ T \in Refreshable |-> Attained(T) ]
<1>1. Refreshable \in SUBSET (SUBSET Tables)
  BY SeveralFacts DEF Refreshable
<1>2. {} \in Refreshable
  <2>1. FixedSum({}) = 0
    BY SumEmpty DEF FixedSum, SumFunction
  <2> QED
    BY <2>1 DEF Refreshable, SeveralTables
<1>3. DOMAIN total = Refreshable /\ \A T \in Refreshable : total[T] \in Int
  BY AttainedFacts
<1>4. \A T \in Refreshable : total[T] = Attained(T)
  OBVIOUS
<1>5. Bought = FirstBest(total)
  BY DEF Bought
<1> HIDE DEF total
<1>6. /\ FirstBest(total) \in Refreshable
      /\ \A T \in Refreshable :
           \/ total[FirstBest(total)] < total[T]
           \/ total[FirstBest(total)] = total[T] /\ ~ Before(T, FirstBest(total))
  BY <1>1, <1>2, <1>3, FirstBestExists
<1> QED
  BY <1>4, <1>5, <1>6

\* No set of tables uses the budget up by being refreshed.
LeavesRest(l, B) == \A S \in SUBSET Measured : S # {} => FixedSeconds(S, l) # B

\* What is left of the budget bounds the statistics on the tables paid for.
LEMMA RestFacts ==
  ASSUME job \in Jobs, SeveralTables, LeavesRest(at, Budget), NEW S \in Refreshable,
         NEW s \in Solutions(PaidCall(S), S)
  PROVE  /\ Serving(PaidCall(S), s) /\ s.tables = S
         /\ PerStat(RealOf(s.y)) \in Nat
         /\ PerStat(RealOf(s.y)) + FixedSum(S) <= Budget
         /\ \A d \in RealOf(s.y) : CVar(d[1]) # None /\ d[1] \in S
<1> DEFINE in == PaidCall(S)
<1>1. /\ S \in SUBSET Measured /\ AsksFor(S) /\ PointCall(in, S) /\ FixedSum(S) \in Nat
      /\ in.maint = Budget - FixedSum(S) /\ in.maint \in Nat
      /\ \A y \in SUBSET PhysStats(in) :
           /\ VarCost(in, y) = PerStat(RealOf(y)) /\ VarCost(in, y) \in Nat
           /\ \A d \in RealOf(y) : CVar(d[1]) # None /\ d[1] \in S
  BY SubsetFacts
<1>2. job.kind # "search" /\ Budget \in Nat
  BY DEF SeveralTables
<1> HIDE DEF in
<1>3. s \in Solutions(in, S)
  BY DEF in
<1>4. Serving(in, s) /\ s.tables = S
  BY <1>1, <1>2, <1>3, SolutionServes
<1>5. s.y \in SUBSET PhysStats(in) /\ Creatable(in, s.y)
  BY <1>4 DEF Serving
<1>6. PerStat(RealOf(s.y)) <= in.maint
  <2>1. CASE S = {}
    <3>1. RealOf(s.y) = {}
      BY <1>1, <1>5, <2>1
    <3>2. PerStat(RealOf(s.y)) = 0
      BY <3>1, SumEmpty DEF PerStat
    <3> QED
      BY <1>1, <3>2
  <2>2. CASE S # {}
    <3>1. FixedSum(S) # Budget
      BY <1>1, <2>2, FixedFacts DEF LeavesRest
    <3>2. in.maint > 0 /\ in.maint # None
      BY <1>1, <1>2, <3>1, NoneAssumption
    <3>3. VarCost(in, s.y) <= in.maint
      BY <1>1, <1>5, <3>2 DEF Creatable, AdditiveBudget, PointCall, QueryCall
    <3> QED
      BY <1>1, <1>5, <3>3
  <2> QED
    BY <2>1, <2>2
<1>7. PerStat(RealOf(s.y)) \in Nat
  BY <1>1, <1>5
<1>8. PerStat(RealOf(s.y)) + FixedSum(S) <= Budget
  BY <1>1, <1>2, <1>6, <1>7
<1>9. \A d \in RealOf(s.y) : CVar(d[1]) # None /\ d[1] \in S
  BY <1>1, <1>5
<1> QED
  BY <1>4, <1>7, <1>8, <1>9 DEF in

\* A timed deployment's charges are natural numbers.
LEMMA TimedFacts ==
  ASSUME job \in Jobs, SeveralTables, NEW D \in SUBSET RealStats(at),
         \A d \in D : CVar(d[1]) # None
  PROVE  IsFiniteSet(D) /\ \A d \in D : Entry(job.file.cvar, d[1])[at] \in Nat
<1>1. IsFiniteSet(D)
  BY RealStatsFinite
<1>2. ASSUME NEW d \in D PROVE Entry(job.file.cvar, d[1])[at] \in Nat
  <2> DEFINE t == d[1]
  <2>1. CVar(t) # None
    OBVIOUS
  <2> HIDE DEF t
  <2>2. CVar(t) \in Nat /\ CVar(t) = Entry(job.file.cvar, t)[at]
    BY <2>1, SeveralFacts
  <2>3. Entry(job.file.cvar, t)[at] \in Nat
    BY <2>2
  <2> QED
    BY <2>3 DEF t
<1> QED
  BY <1>1, <1>2

\* A deployment on tables one can pay for, with charges the rest covers, leaves no
\* less than what the call for those tables attains.
LEMMA AttainedAtMost ==
  ASSUME job \in Jobs, SeveralTables, NEW T \in Refreshable,
         NEW D \in SUBSET RealStats(at), OneParameter(D),
         \A d \in D : d[1] \in T /\ CVar(d[1]) # None, PerStat(D) + FixedSum(T) <= Budget
  PROVE  Attained(T) <= ServedTotal(D)
<1> DEFINE in == PaidCall(T)
           y == { p \in PhysStats(in) : Real(p) \in D }
<1>1. /\ AsksFor(T) /\ T # {NoTable} /\ PointCall(in, T) /\ in.maint = Budget - FixedSum(T)
      /\ FixedSum(T) \in Nat /\ job.kind # "search" /\ Budget \in Nat
  BY SubsetFacts DEF SeveralTables
<1>2. y \in SUBSET PhysStats(in) /\ RealOf(y) \in SUBSET D
  BY DEF RealOf
<1> HIDE DEF y
<1>3. Bytes(in, y) <= in.bytes /\ VarCost(in, y) = PerStat(RealOf(y))
  BY <1>2, SubsetFacts
<1>4. PerStat(RealOf(y)) <= PerStat(D) /\ PerStat(RealOf(y)) \in Nat /\ PerStat(D) \in Nat
  <2>1. IsFiniteSet(D) /\ \A d \in D : Entry(job.file.cvar, d[1])[at] \in Nat
    BY TimedFacts
  <2> QED
    BY <1>2, <2>1, PartSeconds
<1>5. AdditiveBudget(in, y)
  <2>1. VarCost(in, y) <= in.maint
    BY <1>1, <1>3, <1>4
  <2> QED
    BY <2>1 DEF AdditiveBudget
<1>6. PICK s \in Solutions(in, T) : Total(s.qerr) = Attained(T)
  BY AttainedFacts
<1> HIDE DEF in
<1>7. \A d \in D : d[1] \in T
  OBVIOUS
<1>8. Total(s.qerr) <= ServedTotal(D)
  BY <1>1, <1>3, <1>5, <1>7, NoWorseThan DEF y
<1> QED
  BY <1>6, <1>8

\* A point of the curve over several tables is the best that can be refreshed in
\* the time, whichever tables that takes.
LEMMA SeveralIsBest ==
  ASSUME job \in Jobs, SeveralTables, LeavesRest(at, Budget), NEW S, S = Bought,
         NEW s \in Solutions(PaidCall(S), S)
  PROVE  BestPoint(s, Budget)
<1>1. S \in Refreshable /\ \A T \in Refreshable : Attained(S) <= Attained(T)
  <2>1. /\ S \in Refreshable
        /\ \A T \in Refreshable : Attained(S) < Attained(T) \/ Attained(S) = Attained(T)
    BY BoughtFacts
  <2>2. \A T \in Refreshable : Attained(T) \in Nat
    BY AttainedFacts
  <2> QED
    BY <2>1, <2>2
<1>2. /\ Serving(PaidCall(S), s) /\ PerStat(RealOf(s.y)) \in Nat
      /\ PerStat(RealOf(s.y)) + FixedSum(S) <= Budget
      /\ \A d \in RealOf(s.y) : CVar(d[1]) # None /\ d[1] \in S
  BY <1>1, RestFacts
<1>3. S \in SUBSET Measured /\ job.kind = "maint" /\ Budget \in Nat
  BY <1>1 DEF Refreshable, SeveralTables
<1>4. RealOf(s.y) \in Affordable(at, Budget)
  <2> DEFINE D == RealOf(s.y)
             T == { d[1] : d \in D }
  <2>1. D \in SUBSET RealStats(at) /\ OneParameter(D)
    BY <1>2 DEF Serving
  <2>2. T \in SUBSET S
    BY <1>2
  <2>3. FixedSum(T) <= FixedSum(S) /\ FixedSum(T) = FixedSeconds(T, at) /\ FixedSum(T) \in Nat
        /\ FixedSum(S) \in Nat
    <3>1. T \in SUBSET Measured
      BY <1>3, <2>2
    <3> HIDE DEF T
    <3> QED
      BY <1>3, <2>2, <3>1, FixedFacts
  <2>4. Seconds(D, at) = FixedSeconds(T, at) + PerStat(D)
    BY DEF Seconds, PerStat, SumFunction
  <2>5. Seconds(D, at) <= Budget
    <3> HIDE DEF D, T
    <3> QED
      BY <1>2, <1>3, <2>3, <2>4 DEF D
  <2>6. Timed(D, at)
    <3>1. \A d \in D : d[1] \in Measured /\ CVar(d[1]) # None
      BY <1>2, <1>3
    <3> HIDE DEF D
    <3> QED
      BY <3>1, SeveralFacts DEF Timed
  <2> QED
    BY <1>3, <2>1, <2>5, <2>6 DEF Affordable
<1>5. ASSUME NEW D \in Affordable(at, Budget) PROVE Total(s.qerr) <= ServedTotal(D)
  <2> DEFINE T == { d[1] : d \in D }
  <2>1. /\ D \in SUBSET RealStats(at) /\ OneParameter(D)
        /\ Timed(D, at) /\ Seconds(D, at) <= Budget
    BY <1>3 DEF Affordable
  <2>2. \A d \in D : CVar(d[1]) # None
    <3> SUFFICES ASSUME NEW d \in D PROVE CVar(d[1]) # None
      OBVIOUS
    <3>1. PICK k \in DOMAIN job.file.cvar : Lower[k] = d[1] /\ at \in DOMAIN job.file.cvar[k]
      BY <2>1 DEF Timed
    <3>2. job.file # None /\ job.file.cvar \in {job.file.fixed, job.file.cvar}
      BY DEF SeveralTables
    <3> QED
      BY <3>1, <3>2, EntryFacts DEF CVar
  <2>3. T \in SUBSET Measured
    BY <2>2, SeveralFacts
  <2>4. FixedSum(T) \in Nat /\ FixedSum(T) = FixedSeconds(T, at)
    <3> HIDE DEF T
    <3> QED
      BY <2>3, FixedFacts
  <2>5. Seconds(D, at) = FixedSeconds(T, at) + PerStat(D)
    BY DEF Seconds, PerStat, SumFunction
  <2>6. PerStat(D) \in Nat
    <3>1. IsFiniteSet(D) /\ \A d \in D : Entry(job.file.cvar, d[1])[at] \in Nat
      BY <2>1, <2>2, TimedFacts
    <3> QED
      BY <3>1, PartSeconds
  <2>7. PerStat(D) + FixedSum(T) <= Budget
    <3> HIDE DEF T
    <3> QED
      BY <2>1, <2>4, <2>5, <2>6
  <2>8. T \in Refreshable
    <3> HIDE DEF T
    <3> QED
      BY <1>3, <2>3, <2>4, <2>6, <2>7 DEF Refreshable
  <2>9. \A d \in D : d[1] \in T /\ CVar(d[1]) # None
    BY <2>2
  <2> HIDE DEF T
  <2>10. Attained(T) <= ServedTotal(D)
    BY <2>1, <2>7, <2>8, <2>9, AttainedAtMost
  <2>11. Total(s.qerr) = Attained(S) /\ Attained(S) <= Attained(T)
    BY <1>1, <2>8, AttainedFacts
  <2>12. Attained(S) \in Nat /\ Attained(T) \in Nat /\ ServedTotal(D) \in Int
    <3> DEFINE f == [q \in Kept |-> Serves(D, q, at)]
    <3>1. IsFiniteSet(Kept) /\ \A q \in Kept : f[q] \in Int
      <4>1. D \in SUBSET (Tables \X Columns \X Params)
        BY <2>1, RealStatsFinite
      <4> QED
        BY <4>1, KeptFacts, ServesFacts
    <3>2. SumFunctionOnSet(f, Kept) \in Int
      <4> HIDE DEF f
      <4> QED
        BY <3>1, SumInt
    <3> QED
      BY <1>1, <2>8, <3>2, AttainedFacts DEF ServedTotal
  <2> QED
    BY <2>10, <2>11, <2>12
<1> QED
  BY <1>2, <1>4, <1>5 DEF BestPoint, Serving

\* A table is paid for only if one of its queries gets better for it.
NoIdle(s) ==
  \A t \in s.tables : \E q \in Kept : job.corpus[q].owner = t /\ s.qerr[q] < Slot(q).base

\* Otherwise the set without the table would have been found before.
LEMMA SeveralNoIdle ==
  ASSUME job \in Jobs, SeveralTables, LeavesRest(at, Budget), NEW S, S = Bought,
         NEW s \in Solutions(PaidCall(S), S)
  PROVE  NoIdle(s)
<1>1. /\ S \in Refreshable /\ s.tables = S
      /\ \A T \in Refreshable :
           Attained(S) < Attained(T) \/ (Attained(S) = Attained(T) /\ ~ Before(T, S))
  BY BoughtFacts, RestFacts
<1>2. /\ Serving(PaidCall(S), s) /\ PerStat(RealOf(s.y)) \in Nat
      /\ PerStat(RealOf(s.y)) + FixedSum(S) <= Budget
      /\ \A d \in RealOf(s.y) : CVar(d[1]) # None /\ d[1] \in S
  BY <1>1, RestFacts
<1>3. S \in SUBSET Measured /\ Budget \in Nat
  BY <1>1 DEF Refreshable, SeveralTables
<1>4. SUFFICES ASSUME NEW t \in S,
                      \A q \in Kept : ~ (job.corpus[q].owner = t /\ s.qerr[q] < Slot(q).base)
               PROVE  FALSE
  BY <1>1 DEF NoIdle
<1> DEFINE T == S \ {t}
           E == RealOf(s.y)
           D == { d \in E : d[1] # t }
<1>5. E \in SUBSET RealStats(at) /\ OneParameter(E)
        /\ \A q \in Kept : s.qerr[q] = Serves(E, q, at)
  BY <1>2 DEF Serving
<1>6. D \in SUBSET RealStats(at) /\ OneParameter(D) /\ D \in SUBSET E
  <2> HIDE DEF E
  <2> QED
    BY <1>5 DEF OneParameter
<1>7. \A d \in D : d[1] \in T /\ CVar(d[1]) # None
  BY <1>2
<1>8. FixedSum(T) \in Nat /\ FixedSum(T) <= FixedSum(S) /\ FixedSum(S) \in Nat
  <2>1. T \in SUBSET S
    OBVIOUS
  <2> HIDE DEF T
  <2> QED
    BY <1>3, <2>1, FixedFacts
<1>9. T \in SUBSET Measured
  BY <1>3
<1>10. PerStat(D) <= PerStat(E) /\ PerStat(D) \in Nat
  <2>1. IsFiniteSet(E) /\ \A d \in E : Entry(job.file.cvar, d[1])[at] \in Nat
    BY <1>2, <1>5, TimedFacts
  <2> HIDE DEF D, E
  <2> QED
    BY <1>6, <2>1, PartSeconds
<1>11. PerStat(D) + FixedSum(T) <= Budget /\ FixedSum(T) <= Budget
  <2> HIDE DEF D, T
  <2> QED
    BY <1>2, <1>3, <1>8, <1>10 DEF E
<1>12. T \in Refreshable
  BY <1>9, <1>11 DEF Refreshable
<1>13. Attained(T) <= ServedTotal(D)
  <2> HIDE DEF D, T, E
  <2> QED
    BY <1>6, <1>7, <1>11, <1>12, AttainedAtMost
<1>14. \A q \in Kept : Serves(D, q, at) = s.qerr[q]
  <2> SUFFICES ASSUME NEW q \in Kept PROVE Serves(D, q, at) = s.qerr[q]
    OBVIOUS
  <2>1. D \in SUBSET (Tables \X Columns \X Params) /\ E \in SUBSET (Tables \X Columns \X Params)
    <3> HIDE DEF D, E
    <3> QED
      BY <1>5, <1>6, RealStatsFinite
  <2>2. CASE job.corpus[q].owner = t
    <3>1. \A d \in D : d[1] # job.corpus[q].owner
      BY <2>2
    <3>2. Serves(D, q, at) = Slot(q).base
      <4> HIDE DEF D
      <4> QED
        BY <2>1, <3>1, ServesFacts
    <3>3. s.qerr[q] <= Slot(q).base /\ s.qerr[q] \in Nat /\ Slot(q).base \in Nat
      <4> HIDE DEF E
      <4> QED
        BY <1>5, <2>1, ServesFacts, KeptFacts
    <3> QED
      BY <1>4, <2>2, <3>2, <3>3
  <2>3. CASE job.corpus[q].owner # t
    <3>1. { d \in D : d[1] = job.corpus[q].owner }
            = { d \in E : d[1] = job.corpus[q].owner }
      BY <2>3
    <3>2. Serves(D, q, at) = Serves(E, q, at)
      <4>1. { d \in D : d[1] = job.corpus[q].owner /\ Slot(q).err[d[2]][d[3]] # None }
              = { d \in E : d[1] = job.corpus[q].owner /\ Slot(q).err[d[2]][d[3]] # None }
        BY <2>3
      <4> HIDE DEF D, E
      <4> QED
        BY <4>1 DEF Serves, Slot
    <3> QED
      BY <1>5, <3>2
  <2> QED
    BY <2>2, <2>3
<1>15. ServedTotal(D) = Total(s.qerr)
  <2> DEFINE f == [q \in Kept |-> Serves(D, q, at)]
             g == s.qerr
  <2>1. IsFiniteSet(Kept) /\ \A q \in Kept : f[q] = g[q]
    BY <1>14, KeptFacts
  <2>2. Total(s.qerr) = SumFunctionOnSet(g, Kept)
    BY <1>2 DEF Serving, Total, SumFunction
  <2>3. ServedTotal(D) = SumFunctionOnSet(f, Kept)
    BY DEF ServedTotal
  <2> HIDE DEF f, g
  <2> QED
    BY <2>1, <2>2, <2>3, SumSame
<1>16. Total(s.qerr) = Attained(S) /\ Attained(S) \in Nat /\ Attained(T) \in Nat
  BY <1>1, <1>12, AttainedFacts
<1>17. Before(T, S)
  <2>1. IsFiniteSet(S)
    BY <1>3, SeveralFacts, FS_Subset
  <2>2. Cardinality(T) = Cardinality(S) - 1 /\ Cardinality(S) \in Nat
    BY <2>1, FS_RemoveElement, FS_CardinalityType
  <2>3. Cardinality(T) < Cardinality(S)
    BY <2>2
  <2> QED
    BY <2>3 DEF Before
<1> HIDE DEF D, E, T
<1> QED
  BY <1>1, <1>12, <1>13, <1>15, <1>16, <1>17

-----------------------------------------------------------------------------
(* The search over levels: queries weighed by their fidelity. *)

\* The weighed improvements of the queries.
Weighed(err) == SumFunction([q \in Kept |-> OwnWeight(q) * (Slot(q).base - err[q])])
WeighedBy(D) == SumFunction([q \in Kept |-> OwnWeight(q) * (Slot(q).base - Serves(D, q, at))])

\* A point of a search improves the queries, each by its own weight, as much as any
\* deployment that fits the bytes.
LEMMA SearchIsBest ==
  ASSUME job \in Jobs, job.kind = "search", OneTable, NEW B \in Nat,
         NEW in, in = Call({NoTable}, B, None, CorpusCharge), NEW s \in Solutions(in, {NoTable})
  PROVE  Weighed(s.qerr) = Max({ WeighedBy(D) : D \in Affordable(at, B) })
<1> DEFINE S == {NoTable}
<1>1. PointCall(in, S) /\ in.maint = None /\ in.bytes = B
  <2>1. \A t \in Offered : CorpusCharge[t[1]] \in Nat
    BY OfferedFacts DEF CorpusCharge, Stats
  <2>2. Charges(CorpusCharge) /\ None \in Nat \cup {None}
    BY <2>1 DEF Charges
  <2> DEFINE c == Call({NoTable}, B, None, CorpusCharge)
  <2>3. PointCall(c, {NoTable})
    BY <2>2, UntaggedOk
  <2>4. c.maint = None /\ c.bytes = B
    BY DEF Call
  <2> QED
    BY <2>3, <2>4
<1>2. AsksFor(S) /\ job.kind # "maint"
  BY DEF AsksFor
<1>3. Asked(S) = Kept
  BY DEF Asked, Tag
<1>4. s \in Solutions(in, S)
  OBVIOUS
<1> HIDE DEF S
<1>5. Solved(in, S, s)
  BY <1>1, <1>4, SolutionFacts
<1>6. \A q \in Kept : Weight(q) = OwnWeight(q) /\ Weight(q) \in Nat
  BY WeightFacts
<1>7. Weighed(s.qerr) = WorthOf(S, s.y)
  <2>1. [q \in Asked(S) |-> Weight(q) * (Slot(q).base - s.qerr[q])]
          = [q \in Kept |-> OwnWeight(q) * (Slot(q).base - s.qerr[q])]
    BY <1>3, <1>6
  <2>2. SumFunctionOnSet([q \in Asked(S) |-> Weight(q) * (Slot(q).base - s.qerr[q])], Asked(S))
          = WorthOf(S, s.y)
    BY <1>5 DEF Solved
  <2> QED
    BY <1>3, <2>1, <2>2 DEF Weighed, SumFunction
<1>8. ASSUME NEW y, NEW D, Matches(in, S, y, D) PROVE WeighedBy(D) = WorthOf(S, y)
  <2>1. \A q \in Kept : Serves(D, q, at) = ByTag(y, q)
    <3>1. \A q \in Kept : Serves(D, q, at) = Left(S, y)[q]
      BY <1>1, <1>2, <1>8, SameService
    <3> QED
      BY <1>3, <3>1 DEF Left
  <2>2. [q \in Kept |-> OwnWeight(q) * (Slot(q).base - Serves(D, q, at))]
          = [q \in Asked(S) |-> Weight(q) * (Slot(q).base - ByTag(y, q))]
    BY <1>3, <1>6, <2>1
  <2> QED
    BY <1>3, <2>2 DEF WeighedBy, WorthOf, SumFunction
<1>9. s.y \in SUBSET PhysStats(in) /\ Creatable(in, s.y)
  BY <1>5 DEF Solved
<1>10. RealOf(s.y) \in Affordable(at, B) /\ WeighedBy(RealOf(s.y)) = Weighed(s.qerr)
  <2>1. Matches(in, S, s.y, RealOf(s.y))
    BY <1>1, <1>2, <1>9, MatchingFacts
  <2>2. RealOf(s.y) \in SUBSET RealStats(at)
    BY <2>1 DEF Matches
  <2>3. OneParameter(RealOf(s.y))
    BY <1>1, <1>2, <1>9, OneParameterFacts DEF Creatable
  <2>4. RealBytes(RealOf(s.y)) <= B
    <3>1. Bytes(in, s.y) = RealBytes(RealOf(s.y))
      BY <1>1, <1>2, <1>9, BytesAreReal DEF S
    <3> QED
      BY <1>1, <1>9, <3>1 DEF Creatable
  <2> QED
    BY <1>2, <1>7, <1>8, <2>1, <2>2, <2>3, <2>4 DEF Affordable
<1>11. ASSUME NEW D \in Affordable(at, B)
       PROVE  WeighedBy(D) \in Int /\ WeighedBy(D) <= Weighed(s.qerr)
  <2>1. D \in SUBSET RealStats(at) /\ OneParameter(D) /\ RealBytes(D) <= B
    BY <1>2 DEF Affordable
  <2> DEFINE y == { p \in PhysStats(in) : Real(p) \in D }
  <2>2. y \in SUBSET PhysStats(in) /\ RealOf(y) \subseteq D
    BY DEF RealOf
  <2>3. Matches(in, S, y, D)
    BY <1>1, <1>2, <2>1, MatchingFacts DEF S
  <2>4. Bytes(in, y) <= RealBytes(D) /\ RealBytes(D) \in Nat /\ Bytes(in, y) \in Nat
    <3> HIDE DEF y
    <3> QED
      BY <1>1, <1>2, <2>1, PartBytes DEF y, S
  <2> HIDE DEF y
  <2>5. \A p, r \in y : ~ SameCombo(in, p, r)
    <3>1. OneParameter(RealOf(y))
      BY <2>1, <2>2 DEF OneParameter
    <3> QED
      BY <1>1, <1>2, <2>2, <3>1, OneParameterFacts
  <2>6. Creatable(in, y)
    <3>1. ~ UseProfile(in) /\ ~ in.disjoint
      BY <1>1 DEF PointCall, QueryCall
    <3> QED
      BY <1>1, <2>1, <2>4, <2>5, <3>1 DEF Creatable, AdditiveBudget
  <2>7. WorthOf(S, y) <= WorthOf(S, s.y)
    BY <1>5, <2>2, <2>6 DEF Solved
  <2>8. WorthOf(S, y) \in Int
    <3>1. PointCall(in, S)
      BY <1>1
    <3>2. WorthOf(S, y) = Worth(in, y)
      BY <1>1, WorthIs
    <3>3. \A q \in Workload(in) : in.weight[q] \in Nat /\ BestUse(in, q, y) \in Nat
      BY <1>1, BestUseFacts, CallFacts DEF PointCall, QueryCall
    <3> DEFINE f == [q \in Workload(in) |-> in.weight[q] * BestUse(in, q, y)]
    <3>4. IsFiniteSet(Workload(in)) /\ \A q \in Workload(in) : f[q] \in Int
      <4>1. ASSUME NEW q \in Workload(in) PROVE f[q] \in Int
        <5> DEFINE w == in.weight[q]
                   u == BestUse(in, q, y)
        <5>1. w \in Nat /\ u \in Nat /\ u <= u
          BY <3>3
        <5> HIDE DEF w, u
        <5>2. w * u \in Nat
          BY <5>1, Weighing
        <5>3. f[q] = w * u
          BY DEF w, u
        <5> QED
          BY <5>2, <5>3
      <4>2. IsFiniteSet(Workload(in))
        BY <1>1, CallFacts DEF PointCall, QueryCall
      <4> HIDE DEF f
      <4> QED
        BY <4>1, <4>2
    <3>5. Worth(in, y) = SumFunctionOnSet(f, Workload(in))
      BY DEF Worth, SumFunction
    <3> HIDE DEF f
    <3> QED
      BY <3>2, <3>4, <3>5, SumInt
  <2> QED
    BY <1>7, <1>8, <2>3, <2>7, <2>8
<1> DEFINE Z == { WeighedBy(D) : D \in Affordable(at, B) }
<1>12. /\ \A z \in Z : z \in Int /\ z <= Weighed(s.qerr)
       /\ Weighed(s.qerr) \in Z
  BY <1>10, <1>11
<1> HIDE DEF Z
<1>13. Max(Z) = Weighed(s.qerr)
  BY <1>12, MaxUnique
<1> QED
  BY <1>13 DEF Z

\* A level without a query improves nothing, and nothing could.
LEMMA NoCandidatesIsBest ==
  ASSUME job \in Jobs, job.kind = "search", Kept = {}, NEW B \in Nat
  PROVE  Weighed(Unchanged.qerr) = Max({ WeighedBy(D) : D \in Affordable(at, B) })
<1>1. Weighed(Unchanged.qerr) = 0 /\ \A D : WeighedBy(D) = 0
  BY SumEmpty DEF Weighed, WeighedBy, SumFunction
<1>2. {} \in Affordable(at, B)
  <2>1. RealBytes({}) = 0
    BY SumEmpty DEF RealBytes, SumFunction
  <2> QED
    BY <2>1 DEF Affordable, OneParameter
<1> DEFINE Z == { WeighedBy(D) : D \in Affordable(at, B) }
<1>3. 0 \in Z /\ \A z \in Z : z \in Int /\ z <= 0
  BY <1>1, <1>2
<1> HIDE DEF Z
<1>4. Max(Z) = 0
  BY <1>3, MaxUnique
<1> QED
  BY <1>1, <1>4 DEF Z

-----------------------------------------------------------------------------
(* The invariant of the commands. *)

\* The kinds of row a curve is read from by position.
Mutual == job.kind # "search" /\ (job.kind = "storage" => OneTable)

\* What a point for the budget B is worth: on a curve the best of all deployments
\* one can afford, with no table refreshed in vain; in a search the best weighed
\* improvement.
Worthy(s, B) ==
  /\ Mutual /\ Spare(at, B) => BestPoint(s, B)
  /\ job.kind = "maint" /\ job.bench = "many" /\ Spare(at, B) => NoIdle(s)
  /\ job.kind = "search" /\ OneTable /\ job.maint = None =>
       Weighed(s.qerr) = Max({ WeighedBy(D) : D \in Affordable(at, B) })

\* A row of a complete corpus: over all queries, with the best total.
FullRow(l, B, row) ==
  /\ row.of = Cardinality(Answerable) /\ row.of \in Nat /\ row.of > 0
  /\ Spare(l, B) => row.total \in Nat /\ row.total = BestTotal(l, B)

Row == [budget : Nat, total : Nat, of : Nat]

\* The rows line up with the grid.
InvShape ==
  /\ job \in Jobs
  /\ phase \in {"called", "level", "raised", "written"}
  /\ DOMAIN rows = { Levels[i] : i \in DOMAIN Levels }
  /\ \A l \in DOMAIN rows : rows[l] \in Seq(Row) /\ Len(rows[l]) <= Len(job.grid)
  /\ \A l \in DOMAIN rows : \A i \in DOMAIN rows[l] :
       rows[l][i].budget = job.grid[i] /\ rows[l][i].total >= rows[l][i].of

\* A level begins when the one before has all its rows.
InvProgress ==
  /\ phase \in {"level", "written"} => ~ NotWired /\ at \in DOMAIN rows
  /\ phase = "level" => \A i, k \in DOMAIN Levels :
       Levels[k] = at /\ i < k => Len(rows[Levels[i]]) = Len(job.grid)
  /\ phase = "written" =>
       /\ \A l \in DOMAIN rows : Len(rows[l]) = Len(job.grid)
       /\ job.kind = "search" => argmin = << >>
       /\ job.kind # "search" => argmin = [i \in DOMAIN job.grid |-> ChosenAt(i)]

InvRaised == phase = "raised" => NotWired \/ (~ NotWired /\ Unsolvable /\ at \in {0, 1})

InvLast ==
  last # None =>
    /\ phase = "level" /\ ~ Unsolvable /\ Len(rows[at]) > 0
    /\ \A s, B : s = Paid(last) /\ B = job.grid[Len(rows[at])] => Worthy(s, B)

InvRows ==
  Mutual /\ Complete =>
    \A l \in DOMAIN rows : \A i \in DOMAIN rows[l] :
      \A B, r : B = job.grid[i] /\ r = rows[l][i] => FullRow(l, B, r)

SearchInv == InvShape /\ InvProgress /\ InvRaised /\ InvLast /\ InvRows

\* What is said of deployments at a level depends on the command alone, ...
LEMMA JobFrame ==
  ASSUME UNCHANGED job
  PROVE  /\ Answerable' = Answerable /\ Mutual' = Mutual /\ Complete' = Complete
         /\ Levels' = Levels /\ NotWired' = NotWired /\ OneTable' = OneTable
         /\ \A l : RealStats(l)' = RealStats(l)
         /\ \A l, B : Spare(l, B)' = Spare(l, B)
         /\ \A D, l : Timed(D, l)' = Timed(D, l) /\ Seconds(D, l)' = Seconds(D, l)
         /\ \A D, q, l : Serves(D, q, l)' = Serves(D, q, l)
         /\ \A s : Real(s)' = Real(s)
<1>1. Answerable' = Answerable /\ Levels' = Levels /\ NotWired' = NotWired
      /\ OneTable' = OneTable
  BY DEF Answerable, Levels, NotWired, OneTable
<1>2. Mutual' = Mutual
  BY <1>1 DEF Mutual
<1>3. Complete' = Complete
  BY <1>1 DEF Complete
<1>4. ASSUME NEW l PROVE RealStats(l)' = RealStats(l)
  BY <1>1 DEF RealStats
<1>5. ASSUME NEW l, NEW S PROVE FixedSeconds(S, l)' = FixedSeconds(S, l)
  BY DEF FixedSeconds
<1>6. ASSUME NEW l, NEW B PROVE Spare(l, B)' = Spare(l, B)
  BY <1>5 DEF Spare
<1>7. ASSUME NEW l, NEW D PROVE Timed(D, l)' = Timed(D, l)
  BY DEF Timed
<1>8. ASSUME NEW l, NEW D PROVE Seconds(D, l)' = Seconds(D, l)
  BY <1>5 DEF Seconds
<1>9. ASSUME NEW l, NEW D, NEW q PROVE Serves(D, q, l)' = Serves(D, q, l)
  BY DEF Serves
<1>10. ASSUME NEW s PROVE Real(s)' = Real(s)
  BY DEF Real
<1> QED
  BY <1>1, <1>2, <1>3, <1>4, <1>6, <1>7, <1>8, <1>9, <1>10

\* ... and so does what the best deployment at a level leaves.
LEMMA BestTotalFrame ==
  ASSUME UNCHANGED job
  PROVE  \A l, B : Affordable(l, B)' = Affordable(l, B) /\ BestTotal(l, B)' = BestTotal(l, B)
<1>1. ASSUME NEW l, NEW B PROVE Affordable(l, B)' = Affordable(l, B)
  BY JobFrame DEF Affordable
<1>2. ASSUME NEW l, NEW B PROVE BestTotal(l, B)' = BestTotal(l, B)
  <2>1. Answerable' = Answerable /\ \A D, q : Serves(D, q, l)' = Serves(D, q, l)
    BY JobFrame
  <2>2. Affordable(l, B)' = Affordable(l, B)
    BY <1>1
  <2> QED
    BY <2>1, <2>2 DEF BestTotal
<1> QED
  BY <1>1, <1>2

\* What is said of a solved point depends on the command and the level.
LEMMA PointFrame ==
  ASSUME UNCHANGED <<job, at>>
  PROVE  /\ Kept' = Kept /\ Unsolvable' = Unsolvable
         /\ \A l, B : Affordable(l, B)' = Affordable(l, B) /\ BestTotal(l, B)' = BestTotal(l, B)
         /\ \A s, B : Worthy(s, B)' <=> Worthy(s, B)
<1>1. UNCHANGED job
  OBVIOUS
<1>2. \A q : Slot(q)' = Slot(q)
  BY DEF Slot
<1>3. Kept' = Kept
  BY DEF Kept, KeptAt, InProblem
<1>4. \A q : Tag(q)' = Tag(q)
  BY DEF Tag
<1>5. ASSUME NEW q PROVE Readings(q)' = Readings(q)
  BY <1>2, <1>4 DEF Readings, Helps
<1>6. Offered' = Offered
  BY <1>3, <1>5 DEF Offered
<1>7. \A t : Fixed(t)' = Fixed(t) /\ CVar(t)' = CVar(t)
  BY DEF Fixed, CVar, At, FromDict
<1>8. Measured' = Measured
  BY DEF Measured, FromDict
<1>9. Unsolvable' = Unsolvable
  BY <1>3, <1>6, <1>7, <1>8 DEF Unsolvable
<1>10. \A l, B : Affordable(l, B)' = Affordable(l, B) /\ BestTotal(l, B)' = BestTotal(l, B)
  BY <1>1, BestTotalFrame
<1>12. ASSUME NEW y PROVE RealOf(y)' = RealOf(y)
  BY <1>1, JobFrame DEF RealOf
<1>13. ASSUME NEW D PROVE ServedTotal(D)' = ServedTotal(D)
  BY <1>1, <1>3, JobFrame DEF ServedTotal
<1>14. ASSUME NEW s, NEW B PROVE BestPoint(s, B)' <=> BestPoint(s, B)
  BY <1>1, <1>3, <1>10, <1>12, <1>13, JobFrame DEF BestPoint
<1>15. ASSUME NEW s PROVE NoIdle(s)' <=> NoIdle(s)
  BY <1>2, <1>3 DEF NoIdle
<1>16. ASSUME NEW q PROVE OwnWeight(q)' = OwnWeight(q)
  BY <1>2 DEF OwnWeight
<1>17. ASSUME NEW e PROVE Weighed(e)' = Weighed(e)
  BY <1>2, <1>3, <1>16 DEF Weighed
<1>18. ASSUME NEW D PROVE WeighedBy(D)' = WeighedBy(D)
  BY <1>1, <1>2, <1>3, <1>16, JobFrame DEF WeighedBy
<1>19. ASSUME NEW s, NEW B PROVE Worthy(s, B)' <=> Worthy(s, B)
  BY <1>1, <1>10, <1>14, <1>15, <1>17, <1>18, JobFrame DEF Worthy
<1> QED
  BY <1>3, <1>9, <1>10, <1>19

-----------------------------------------------------------------------------
(* Every point of every command is worth what it should be. *)

\* A budget that no tables use up is not used up by those of a call.
LEMMA SpareSeveral ==
  ASSUME job \in Jobs, SeveralTables, Spare(at, Budget)
  PROVE  LeavesRest(at, Budget)
<1> DEFINE F == { Lower[k] : k \in { m \in DOMAIN job.file.fixed :
      at \in DOMAIN job.file.fixed[m] } }
<1>1. \A S \in SUBSET F : S # {} => FixedSeconds(S, at) # Budget
  BY DEF Spare, SeveralTables
<1>2. \A t \in Measured : t \in F
  BY SeveralFacts
<1> HIDE DEF F
<1>3. SUBSET Measured \subseteq SUBSET F
  BY <1>2
<1> QED
  BY <1>1, <1>3 DEF LeavesRest

\* Nor by the one table.
LEMMA SpareOne ==
  ASSUME job \in Jobs, job.kind = "maint", job.file # None, Fixed(job.owner) # None,
         NEW B, Spare(at, B)
  PROVE  B # Fixed(job.owner)
<1> DEFINE t == job.owner
           tab == job.file.fixed
           F == { Lower[k] : k \in { m \in DOMAIN tab : at \in DOMAIN tab[m] } }
<1>1. \A S \in SUBSET F : S # {} => FixedSeconds(S, at) # B
  BY DEF Spare
<1>2. /\ Fixed(t) \in Nat /\ Fixed(t) = Entry(tab, t)[at]
      /\ \E k \in DOMAIN tab : Lower[k] = t /\ at \in DOMAIN tab[k]
  BY EntryFacts DEF Fixed
<1>3. t \in F
  BY <1>2
<1>4. FixedSeconds({t}, at) = Fixed(t)
  <2> DEFINE f == [u \in {t} |-> Entry(tab, u)[at]]
  <2>1. FixedSeconds({t}, at) = SumFunctionOnSet(f, {t})
    BY DEF FixedSeconds, SumFunction
  <2>2. f[t] = Fixed(t) /\ f[t] \in Int
    BY <1>2
  <2> HIDE DEF f
  <2>3. SumFunctionOnSet(f, {t}) = f[t]
    BY <2>2, SumOne
  <2> QED
    BY <2>1, <2>2, <2>3
<1> HIDE DEF F
<1>5. {t} \in SUBSET F /\ {t} # {}
  BY <1>3
<1>6. FixedSeconds({t}, at) # B
  BY <1>1, <1>5
<1> QED
  BY <1>4, <1>6

\* A point of the storage curve.
LEMMA StorageWorthy ==
  ASSUME job \in Jobs, job.kind = "storage", NEW B \in Nat,
         NEW s \in Solutions(Call({NoTable}, B, None, CorpusCharge), {NoTable})
  PROVE  Worthy(s, B)
<1>1. Mutual => BestPoint(s, B)
  BY StorageIsBest DEF Mutual
<1> QED
  BY <1>1 DEF Worthy

\* A row of a search.
LEMMA SearchWorthy ==
  ASSUME job \in Jobs, job.kind = "search", NEW B \in Nat,
         NEW s \in Solutions(Call({NoTable}, B, job.maint, CorpusCharge), {NoTable})
  PROVE  Worthy(s, B)
<1>1. OneTable /\ job.maint = None =>
        Weighed(s.qerr) = Max({ WeighedBy(D) : D \in Affordable(at, B) })
  BY SearchIsBest
<1> QED
  BY <1>1 DEF Worthy, Mutual

\* A row of a search without a query.
LEMMA NoCandidatesWorthy ==
  ASSUME job \in Jobs, job.kind = "search", Kept = {}, NEW B \in Nat
  PROVE  Worthy(Unchanged, B)
<1>1. Weighed(Unchanged.qerr) = Max({ WeighedBy(D) : D \in Affordable(at, B) })
  BY NoCandidatesIsBest
<1> QED
  BY <1>1 DEF Worthy, Mutual

\* Points of the maintenance curve on one table.
LEMMA OneWorthy ==
  ASSUME job \in Jobs, job.kind = "maint", job.bench = "one", job.file # None, ~ Unsolvable,
         NEW B \in Nat
  PROVE  /\ B <= Fixed(job.owner) => Worthy(Unchanged, B)
         /\ \A s \in Solutions(Call({NoTable}, Huge, B - Fixed(job.owner), OwnerCharge),
                               {NoTable}) :
              B > Fixed(job.owner) => Worthy(s, B)
<1>1. Fixed(job.owner) # None /\ CVar(job.owner) # None
  BY DEF Unsolvable
<1>2. ASSUME B <= Fixed(job.owner) PROVE Worthy(Unchanged, B)
  <2>1. ASSUME Spare(at, B) PROVE BestPoint(Unchanged, B)
    <3>1. B # Fixed(job.owner)
      BY <1>1, <2>1, SpareOne
    <3> QED
      BY <1>1, <1>2, <3>1, BaselineIsBest
  <2> QED
    BY <2>1 DEF Worthy
<1>3. ASSUME NEW s \in Solutions(Call({NoTable}, Huge, B - Fixed(job.owner), OwnerCharge),
                                 {NoTable}),
             B > Fixed(job.owner)
      PROVE  Worthy(s, B)
  <2>1. BestPoint(s, B)
    BY <1>1, <1>3, SingleIsBest
  <2> QED
    BY <2>1 DEF Worthy
<1> QED
  BY <1>2, <1>3

\* A point of the maintenance curve on several.
LEMMA SeveralWorthy ==
  ASSUME job \in Jobs, SeveralTables, NEW s \in Solutions(PaidCall(Bought), Bought)
  PROVE  Worthy(s, Budget)
<1>1. ASSUME Spare(at, Budget) PROVE BestPoint(s, Budget) /\ NoIdle(s)
  <2>1. LeavesRest(at, Budget)
    BY <1>1, SpareSeveral
  <2> QED
    BY <2>1, SeveralIsBest, SeveralNoIdle
<1>2. job.kind = "maint"
  BY DEF SeveralTables
<1> QED
  BY <1>1, <1>2 DEF Worthy

\* The row of a point: on a complete corpus it is over all queries.
LEMMA WorthyRow ==
  ASSUME job \in Jobs, Mutual, Complete, at \in {0, 1}, Kept # {}, NEW B, NEW s, Worthy(s, B)
  PROVE  FullRow(at, B, [budget |-> B, total |-> Total(s.qerr), of |-> Cardinality(Kept)])
<1>1. Kept = Answerable
  BY KeptFacts DEF Complete, Answerable, InProblem
<1>2. Cardinality(Kept) \in Nat /\ Cardinality(Kept) > 0
  <2>1. IsFiniteSet(Kept)
    BY KeptFacts
  <2> QED
    BY <2>1, FS_CardinalityType, FS_EmptySet
<1>3. ASSUME Spare(at, B) PROVE Total(s.qerr) \in Nat /\ Total(s.qerr) = BestTotal(at, B)
  <2>1. BestPoint(s, B)
    BY <1>3 DEF Worthy
  <2> DEFINE Z == { ServedTotal(D) : D \in Affordable(at, B) }
  <2>2. Total(s.qerr) \in Nat /\ Total(s.qerr) \in Z /\ \A z \in Z : Total(s.qerr) <= z
    BY <2>1 DEF BestPoint
  <2>3. ASSUME NEW D \in Affordable(at, B) PROVE ServedTotal(D) \in Int
    <3>1. D \in SUBSET (Tables \X Columns \X Params)
      BY RealStatsFinite DEF Affordable
    <3> DEFINE f == [q \in Kept |-> Serves(D, q, at)]
    <3>2. IsFiniteSet(Kept) /\ \A q \in Kept : f[q] \in Int
      BY <3>1, KeptFacts, ServesFacts
    <3> HIDE DEF f
    <3>3. SumFunctionOnSet(f, Kept) \in Int
      BY <3>2, SumInt
    <3> QED
      BY <3>3 DEF f, ServedTotal
  <2>4. \A z \in Z : z \in Int
    BY <2>3
  <2>5. BestTotal(at, B) = Min(Z)
    BY <1>1 DEF BestTotal, ServedTotal, SumFunction
  <2> HIDE DEF Z
  <2> QED
    BY <2>2, <2>4, <2>5, MinUnique
<1> QED
  BY <1>1, <1>2, <1>3 DEF FullRow

\* The q-errors of a point, and what they add up to: none is below one.
Counted(s) ==
  /\ DOMAIN s.qerr = Kept /\ \A q \in Kept : s.qerr[q] \in Nat /\ s.qerr[q] >= 1
  /\ Total(s.qerr) \in Nat /\ Total(s.qerr) >= Cardinality(Kept)

\* The sum counts every query at least once.
LEMMA CountedBy ==
  ASSUME job \in Jobs, NEW s, DOMAIN s.qerr = Kept,
         \A q \in Kept : s.qerr[q] \in Nat /\ s.qerr[q] >= 1
  PROVE  Counted(s)
<1> DEFINE e == s.qerr
           one == [q \in Kept |-> 1]
           F(A) == SumFunctionOnSet(one, A)
           B == { A \in SUBSET Kept : F(A) # Cardinality(A) }
<1>1. IsFiniteSet(Kept) /\ \A q \in Kept : one[q] \in Int /\ e[q] \in Nat /\ one[q] <= e[q]
  BY KeptFacts
<1>2. F(Kept) = Cardinality(Kept)
  <2>1. SUFFICES ASSUME B # {} PROVE FALSE
    OBVIOUS
  <2>2. PICK A \in B : \A T \in B : T \subseteq A => T = A
    <3>1. B \in SUBSET (SUBSET Kept)
      OBVIOUS
    <3> HIDE DEF B
    <3> QED
      BY <1>1, <2>1, <3>1, LeastSubset
  <2>3. A \in SUBSET Kept /\ IsFiniteSet(A) /\ F(A) # Cardinality(A)
    BY <1>1, <2>2, FS_Subset
  <2>4. A # {}
    <3>1. F({}) = 0 /\ Cardinality({}) = 0
      BY SumEmpty, FS_EmptySet
    <3> QED
      BY <2>3, <3>1
  <2>5. PICK a \in A : TRUE
    BY <2>4
  <2>6. F(A \ {a}) = Cardinality(A \ {a})
    BY <2>2, <2>3, <2>5
  <2>7. Cardinality(A \ {a}) = Cardinality(A) - 1 /\ Cardinality(A) \in Nat
    BY <2>3, <2>5, FS_RemoveElement, FS_CardinalityType
  <2>8. F(A) = 1 + F(A \ {a})
    <3>1. IsFiniteSet(A) /\ (\A q \in A : one[q] \in Int) /\ one[a] = 1
      BY <1>1, <2>3, <2>5
    <3> HIDE DEF one
    <3> QED
      BY <2>5, <3>1, SumRemove
  <2> QED
    BY <2>3, <2>6, <2>7, <2>8
<1>3. Total(e) = SumFunctionOnSet(e, Kept)
  BY DEF Total, SumFunction
<1> HIDE DEF one
<1>4. F(Kept) <= SumFunctionOnSet(e, Kept)
  <2>1. \A q \in Kept : one[q] \in Int /\ e[q] \in Int /\ one[q] <= e[q]
    BY <1>1
  <2> HIDE DEF e
  <2> QED
    BY <1>1, <2>1, SumCompare
<1>5. SumFunctionOnSet(e, Kept) \in Nat
  BY <1>1, SumNat
<1> QED
  BY <1>2, <1>3, <1>4, <1>5 DEF Counted

\* Every solution is counted so.
LEMMA SolutionCounted ==
  ASSUME job \in Jobs, NEW S, NEW in, PointCall(in, S), NEW s \in Solutions(in, S)
  PROVE  Counted(s)
<1>1. PICK f \in Optimal(in) :
        s = [tables |-> S, y |-> f.y,
             qerr |-> [q \in Kept |-> IF q \in Asked(S) THEN DecodedError(in, f.x, q)
                                      ELSE Slot(q).base]]
  BY DEF Solutions
<1>2. /\ IsCall(in) /\ ~ Malformed(in) /\ Workload(in) = Asked(S) /\ in.class = "sparse"
  BY DEF PointCall, QueryCall
<1>3. f.x \in Selections(in, f.y) /\ Selectable(in, f.x)
  BY <1>2, OptimalFacts
<1>4. ASSUME NEW q \in Kept PROVE s.qerr[q] \in Nat /\ s.qerr[q] >= 1
  <2>1. CASE q \in Asked(S)
    <3>1. DecodedError(in, f.x, q) \in Nat /\ DecodedError(in, f.x, q) >= 1
      BY <1>2, <1>3, <2>1, DecodedErrorFacts
    <3> QED
      BY <1>1, <2>1, <3>1
  <2>2. CASE q \notin Asked(S)
    BY <1>1, <2>2, KeptFacts
  <2> QED
    BY <2>1, <2>2
<1>5. DOMAIN s.qerr = Kept
  BY <1>1
<1> QED
  BY <1>4, <1>5, CountedBy

\* So is the baseline.
LEMMA UnchangedCounted ==
  ASSUME job \in Jobs
  PROVE  Counted(Unchanged)
<1>1. DOMAIN Unchanged.qerr = Kept /\ \A q \in Kept : Unchanged.qerr[q] = Slot(q).base
  BY DEF Unchanged
<1>2. \A q \in Kept : Unchanged.qerr[q] \in Nat /\ Unchanged.qerr[q] >= 1
  BY <1>1, KeptFacts
<1> QED
  BY <1>1, <1>2, CountedBy

-----------------------------------------------------------------------------
(* Steps. *)

\* The levels of a curve are two, those of a search at least one.
LEMMA LevelFacts ==
  ASSUME job \in Jobs
  PROVE  /\ Levels \in Seq(Nat) /\ Len(Levels) >= 1
         /\ job.kind # "search" => Levels = <<0, 1>> /\ Len(Levels) = 2
         /\ job.kind # "search" => { Levels[i] : i \in DOMAIN Levels } = {0, 1}
         /\ \A i, k \in DOMAIN Levels : Levels[i] = Levels[k] => i = k
<1>1. CASE job.kind = "search"
  <2>1. job.tiers \in Seq(Nat) /\ job.tiers # << >>
    BY JobFacts
  <2>2. \A i, k \in DOMAIN job.tiers : job.tiers[i] = job.tiers[k] => i = k
    BY SgridSearchAssumption DEF IsJob
  <2> QED
    BY <1>1, <2>1, <2>2 DEF Levels
<1>2. CASE job.kind # "search"
  <2>1. Levels = <<0, 1>> /\ Levels \in Seq(Nat) /\ Len(Levels) = 2
    BY <1>2 DEF Levels
  <2>2. DOMAIN Levels = {1, 2} /\ Levels[1] = 0 /\ Levels[2] = 1
    BY <2>1
  <2> QED
    BY <2>1, <2>2
<1> QED
  BY <1>1, <1>2

\* The level being worked on.
LEMMA AtFacts ==
  ASSUME SearchInv, phase = "level"
  PROVE  /\ job \in Jobs /\ at \in DOMAIN rows /\ ~ NotWired
         /\ rows[at] \in Seq(Row) /\ Len(rows[at]) \in Nat /\ job.grid \in Seq(Nat)
         /\ job.kind # "search" => at \in {0, 1}
         /\ job.kind = "maint" => job.file # None
         /\ More => Budget \in Nat /\ Len(rows[at]) + 1 \in DOMAIN job.grid
<1>1. /\ job \in Jobs /\ at \in DOMAIN rows /\ ~ NotWired /\ rows[at] \in Seq(Row)
      /\ DOMAIN rows = { Levels[i] : i \in DOMAIN Levels }
  BY DEF SearchInv, InvShape, InvProgress
<1>2. Len(rows[at]) \in Nat /\ job.grid \in Seq(Nat)
  BY <1>1, JobFacts
<1>3. job.kind # "search" => at \in {0, 1}
  BY <1>1, LevelFacts
<1>4. ASSUME More PROVE Budget \in Nat /\ Len(rows[at]) + 1 \in DOMAIN job.grid
  BY <1>2, <1>4 DEF More, Budget
<1>5. job.kind = "maint" => job.file # None
  BY <1>1 DEF NotWired
<1> QED
  BY <1>1, <1>2, <1>3, <1>4, <1>5

\* A constant of the corpus is charged for every statistic.
LEMMA CorpusCharges == job \in Jobs => Charges(CorpusCharge)
<1> SUFFICES ASSUME job \in Jobs, NEW t \in Offered PROVE CorpusCharge[t[1]] \in Nat
  BY DEF Charges
<1> QED
  BY OfferedFacts DEF CorpusCharge, Stats

\* The actions that add a row.
AddsRow ==
  StoragePoint \/ SearchLevel \/ NoCandidates \/ BaselinePoint \/ SinglePoint \/ MultiPoint

\* A point for untagged statistics creates none but those it pays for; neither does
\* the baseline.
LEMMA AllPaid ==
  ASSUME job \in Jobs
  PROVE  /\ Paid(Unchanged) = Unchanged
         /\ \A in, s : ~ (job.kind = "maint" /\ job.bench = "many")
              /\ PointCall(in, {NoTable}) /\ s \in Solutions(in, {NoTable}) => Paid(s) = s
<1>1. Paid(Unchanged) = Unchanged
  BY DEF Paid, Unchanged
<1>2. ASSUME ~ (job.kind = "maint" /\ job.bench = "many"), NEW in, NEW s,
             PointCall(in, {NoTable}), s \in Solutions(in, {NoTable})
      PROVE  Paid(s) = s
  <2>1. PICK f \in Optimal(in) :
          s = [tables |-> {NoTable}, y |-> f.y,
               qerr |-> [q \in Kept |-> IF q \in Asked({NoTable}) THEN DecodedError(in, f.x, q)
                                        ELSE Slot(q).base]]
    BY <1>2 DEF Solutions
  <2>2. f.y \in SUBSET PhysStats(in)
    BY <1>2, OptimalFacts DEF PointCall, QueryCall
  <2>3. \A p \in f.y : p[1] \in {NoTable}
    BY <1>2, <2>2, PhysFacts DEF Tag
  <2>4. { p \in f.y : p[1] \in {NoTable} } = f.y
    BY <2>3
  <2> QED
    BY <2>1, <2>4 DEF Paid
<1> QED
  BY <1>1, <1>2

\* Each adds the row of a point that is worth its budget by what it has created on the
\* tables it pays for.
LEMMA RowsAreWorthy ==
  ASSUME SearchInv, AddsRow
  PROVE  Solving /\ \E s : AddRow(s) /\ Worthy(Paid(s), Budget) /\ Counted(s)
<1>1. Solving
  BY DEF AddsRow, StoragePoint, SearchLevel, NoCandidates, BaselinePoint, SinglePoint,
         MultiPoint
<1>2. /\ job \in Jobs /\ Budget \in Nat /\ (job.kind = "maint" => job.file # None)
      /\ ~ Unsolvable
  BY <1>1, AtFacts DEF Solving
<1>3. Charges(CorpusCharge) /\ None \in Nat \cup {None} /\ job.maint \in Nat \cup {None}
  BY <1>2, CorpusCharges, JobFacts
<1>4. CASE StoragePoint
  <2>1. PICK s \in Solutions(Call({NoTable}, Budget, None, CorpusCharge), {NoTable}) : AddRow(s)
    BY <1>4 DEF StoragePoint
  <2>2. job.kind = "storage"
    BY <1>4 DEF StoragePoint
  <2>3. Worthy(s, Budget)
    BY <1>2, <2>1, <2>2, StorageWorthy
  <2>4. PointCall(Call({NoTable}, Budget, None, CorpusCharge), {NoTable})
    BY <1>2, <1>3, <2>2, UntaggedOk
  <2>5. Counted(s) /\ Paid(s) = s
    BY <1>2, <2>1, <2>2, <2>4, SolutionCounted, AllPaid
  <2> QED
    BY <1>1, <2>1, <2>3, <2>5
<1>5. CASE SearchLevel
  <2>1. PICK s \in Solutions(Call({NoTable}, Budget, job.maint, CorpusCharge), {NoTable}) :
               AddRow(s)
    BY <1>5 DEF SearchLevel
  <2>2. job.kind = "search"
    BY <1>5 DEF SearchLevel
  <2>3. Worthy(s, Budget)
    BY <1>2, <2>1, <2>2, SearchWorthy
  <2>4. PointCall(Call({NoTable}, Budget, job.maint, CorpusCharge), {NoTable})
    BY <1>2, <1>3, <2>2, UntaggedOk
  <2>5. Counted(s) /\ Paid(s) = s
    BY <1>2, <2>1, <2>2, <2>4, SolutionCounted, AllPaid
  <2> QED
    BY <1>1, <2>1, <2>3, <2>5
<1>6. CASE NoCandidates
  <2>1. job.kind = "search" /\ Kept = {} /\ AddRow(Unchanged)
    BY <1>6 DEF NoCandidates
  <2>2. Worthy(Unchanged, Budget)
    BY <1>2, <2>1, NoCandidatesWorthy
  <2>3. Counted(Unchanged) /\ Paid(Unchanged) = Unchanged
    BY <1>2, UnchangedCounted, AllPaid
  <2> QED
    BY <1>1, <2>1, <2>2, <2>3
<1>7. CASE BaselinePoint
  <2>1. job.kind = "maint" /\ job.bench = "one" /\ Budget <= Fixed(job.owner)
          /\ AddRow(Unchanged)
    BY <1>7 DEF BaselinePoint
  <2>2. Worthy(Unchanged, Budget)
    BY <1>2, <2>1, OneWorthy
  <2>3. Counted(Unchanged) /\ Paid(Unchanged) = Unchanged
    BY <1>2, UnchangedCounted, AllPaid
  <2> QED
    BY <1>1, <2>1, <2>2, <2>3
<1>8. CASE SinglePoint
  <2> DEFINE M == Budget - Fixed(job.owner)
  <2>1. PICK s \in Solutions(Call({NoTable}, Huge, M, OwnerCharge), {NoTable}) : AddRow(s)
    BY <1>8 DEF SinglePoint
  <2>2. job.kind = "maint" /\ job.bench = "one" /\ Budget > Fixed(job.owner)
    BY <1>8 DEF SinglePoint
  <2>3. Worthy(s, Budget)
    BY <1>2, <2>1, <2>2, OneWorthy
  <2>4. Fixed(job.owner) \in Nat /\ CVar(job.owner) \in Nat
    <3>1. Fixed(job.owner) # None /\ CVar(job.owner) # None
      BY <1>2, <2>2 DEF Unsolvable
    <3>2. {} \in SUBSET RealStats(at)
      OBVIOUS
    <3> QED
      BY <1>2, <2>2, <3>1, <3>2, SingleSeconds
  <2>5. Charges(OwnerCharge)
    <3>1. ASSUME NEW t \in Offered PROVE OwnerCharge[t[1]] \in Nat
      BY <1>2, <2>4, OfferedFacts DEF OwnerCharge, Stats
    <3> QED
      BY <3>1 DEF Charges
  <2>6. M \in Nat \cup {None} /\ Huge \in Nat
    BY <1>2, <2>2, <2>4, SgridSearchAssumption
  <2> HIDE DEF M
  <2>7. PointCall(Call({NoTable}, Huge, M, OwnerCharge), {NoTable})
    BY <1>2, <2>2, <2>5, <2>6, UntaggedOk
  <2>8. Counted(s) /\ Paid(s) = s
    BY <1>2, <2>1, <2>2, <2>7, SolutionCounted, AllPaid
  <2> QED
    BY <1>1, <2>1, <2>3, <2>8
<1>9. CASE MultiPoint
  <2>1. PICK s \in SubsetPoints(Bought) : AddRow(s)
    BY <1>9 DEF MultiPoint, Bought
  <2>2. SeveralTables /\ Bought \in Refreshable
    BY <1>2, <1>9, BoughtFacts DEF MultiPoint, SeveralTables
  <2>3. Paid(s) \in Solutions(PaidCall(Bought), Bought) /\ Paid(s).qerr = s.qerr
    BY <1>2, <2>1, <2>2, PaidSolution DEF Paid
  <2>4. Worthy(Paid(s), Budget)
    BY <1>2, <2>2, <2>3, SeveralWorthy
  <2>5. Counted(s)
    <3>1. PointCall(PaidCall(Bought), Bought)
      BY <1>2, <2>2, SubsetFacts
    <3>2. Counted(Paid(s))
      BY <1>2, <2>3, <3>1, SolutionCounted
    <3> QED
      BY <2>3, <3>2 DEF Counted
  <2> QED
    BY <1>1, <2>1, <2>4, <2>5
<1> QED
  BY <1>4, <1>5, <1>6, <1>7, <1>8, <1>9 DEF AddsRow

\* Such a row keeps the invariant.
LEMMA AddRowKeeps ==
  ASSUME SearchInv, Solving, NEW s, AddRow(s), Worthy(Paid(s), Budget), Counted(s)
  PROVE  SearchInv'
<1> DEFINE n == Len(rows[at]) + 1
           row == [budget |-> Budget, total |-> Total(s.qerr), of |-> Cardinality(Kept)]
<1>1. /\ phase = "level" /\ ~ Unsolvable /\ More
      /\ rows' = [rows EXCEPT ![at] = Append(@, row)] /\ last' = s
      /\ job' = job /\ phase' = phase /\ at' = at /\ argmin' = argmin
  BY DEF Solving, AddRow
<1>2. /\ job \in Jobs /\ at \in DOMAIN rows /\ ~ NotWired
      /\ rows[at] \in Seq(Row) /\ Len(rows[at]) \in Nat /\ job.grid \in Seq(Nat)
      /\ (job.kind # "search" => at \in {0, 1}) /\ (job.kind = "maint" => job.file # None)
      /\ Budget \in Nat /\ n \in DOMAIN job.grid
  BY <1>1, AtFacts
<1>3. row \in Row /\ row.budget = job.grid[n] /\ row.total >= row.of
  <2>1. Cardinality(Kept) \in Nat
    BY <1>2, KeptFacts, FS_CardinalityType
  <2> QED
    BY <1>2, <2>1 DEF Counted, Row, Budget
<1>4. Mutual /\ Complete => FullRow(at, job.grid[n], row)
  <2>1. ASSUME Mutual, Complete PROVE FullRow(at, Budget, row)
    <3>1. Kept # {} /\ at \in {0, 1}
      BY <1>1, <1>2, <2>1 DEF Mutual, Unsolvable
    <3>2. Paid(s).qerr = s.qerr
      BY DEF Paid
    <3>3. FullRow(at, Budget, [budget |-> Budget, total |-> Total(Paid(s).qerr),
                               of |-> Cardinality(Kept)])
      BY <1>2, <2>1, <3>1, WorthyRow
    <3> QED
      BY <3>2, <3>3
  <2> QED
    BY <2>1 DEF Budget
<1> HIDE DEF row
<1>5. /\ DOMAIN rows' = DOMAIN rows /\ \A l \in DOMAIN rows \ {at} : rows'[l] = rows[l]
      /\ rows'[at] = Append(rows[at], row)
  BY <1>1, <1>2
<1>6. /\ rows'[at] \in Seq(Row) /\ Len(rows'[at]) = n /\ rows'[at][n] = row
      /\ DOMAIN rows'[at] = 1 .. n /\ DOMAIN rows[at] = 1 .. Len(rows[at])
      /\ \A i \in DOMAIN rows[at] : rows'[at][i] = rows[at][i]
  <2> DEFINE r == rows[at]
             t == rows'[at]
  <2>1. r \in Seq(Row) /\ t = Append(r, row) /\ row \in Row /\ n = Len(r) + 1
    BY <1>2, <1>3, <1>5
  <2> HIDE DEF r, t, n
  <2>2. /\ t \in Seq(Row) /\ Len(t) = n /\ t[n] = row
        /\ DOMAIN t = 1 .. n /\ DOMAIN r = 1 .. Len(r) /\ \A i \in DOMAIN r : t[i] = r[i]
    BY <2>1
  <2> QED
    BY <2>2 DEF r, t
<1>7. \A i \in DOMAIN rows'[at] : i = n \/ i \in DOMAIN rows[at]
  BY <1>2, <1>6
<1>8. n <= Len(job.grid) /\ n > 0
  BY <1>2
<1>9. /\ UNCHANGED job /\ UNCHANGED <<job, at>>
  BY <1>1
<1>10. InvShape'
  <2>1. job' \in Jobs /\ phase' \in {"called", "level", "raised", "written"}
        /\ DOMAIN rows' = { Levels[i] : i \in DOMAIN Levels }'
    BY <1>1, <1>5, <1>9, JobFrame DEF SearchInv, InvShape
  <2>2. ASSUME NEW l \in DOMAIN rows' PROVE rows'[l] \in Seq(Row)
                 /\ Len(rows'[l]) <= Len(job'.grid)
    BY <1>1, <1>2, <1>5, <1>6, <1>8, <2>2 DEF SearchInv, InvShape
  <2>3. ASSUME NEW l \in DOMAIN rows', NEW i \in DOMAIN rows'[l]
        PROVE  rows'[l][i].budget = job'.grid[i] /\ rows'[l][i].total >= rows'[l][i].of
    <3>1. \A k \in DOMAIN rows : \A j \in DOMAIN rows[k] :
            rows[k][j].budget = job.grid[j] /\ rows[k][j].total >= rows[k][j].of
      BY DEF SearchInv, InvShape
    <3>2. CASE l # at
      BY <1>1, <1>5, <2>3, <3>1, <3>2
    <3>3. CASE l = at /\ i = n
      <4>1. rows'[l][i] = row
        BY <1>6, <3>3
      <4> QED
        BY <1>1, <1>3, <3>3, <4>1
    <3>4. CASE l = at /\ i \in DOMAIN rows[at]
      BY <1>1, <1>2, <1>6, <3>1, <3>4
    <3> QED
      BY <1>7, <2>3, <3>2, <3>3, <3>4
  <2> QED
    BY <2>1, <2>2, <2>3 DEF InvShape
<1>11. InvProgress'
  <2>1. NotWired' = NotWired
    BY <1>9, JobFrame
  <2>2. ASSUME NEW i \in DOMAIN Levels, NEW k \in DOMAIN Levels, Levels[k] = at, i < k
        PROVE  Len(rows'[Levels[i]]) = Len(job.grid)
    <3>1. Levels[i] # at
      <4>1. i # k
        BY <1>2, <2>2, LevelFacts
      <4> QED
        BY <1>2, <2>2, <4>1, LevelFacts
    <3>2. Levels[i] \in DOMAIN rows
      BY DEF SearchInv, InvShape
    <3>3. Len(rows[Levels[i]]) = Len(job.grid)
      BY <1>1, <2>2 DEF SearchInv, InvProgress
    <3> QED
      BY <1>5, <3>1, <3>2, <3>3
  <2>3. Levels' = Levels
    BY <1>9, JobFrame
  <2> QED
    BY <1>1, <1>2, <1>5, <2>1, <2>2, <2>3 DEF InvProgress
<1>12. InvRaised'
  BY <1>1 DEF InvRaised
<1>13. InvLast'
  <2>1. \A t, B : Worthy(t, B)' <=> Worthy(t, B)
    BY <1>9, PointFrame
  <2>2. Unsolvable' = Unsolvable
    BY <1>9, PointFrame
  <2>3. job'.grid[Len(rows'[at'])] = Budget
    BY <1>1, <1>6 DEF Budget
  <2>4. \A t, B : t = Paid(last)' /\ B = job'.grid[Len(rows'[at'])] => Worthy(t, B)'
    <3>1. Paid(last)' = Paid(s)
      BY <1>1 DEF Paid
    <3> QED
      BY <2>1, <2>3, <3>1
  <2> QED
    BY <1>1, <1>6, <1>8, <2>2, <2>4 DEF InvLast
<1>14. InvRows'
  <2>1. Mutual' = Mutual /\ Complete' = Complete
    BY <1>9, JobFrame
  <2>2. \A l, B, r : FullRow(l, B, r)' <=> FullRow(l, B, r)
    <3>1. /\ Answerable' = Answerable /\ \A l, B : Spare(l, B)' = Spare(l, B)
      BY <1>9, JobFrame
    <3>2. \A l, B : BestTotal(l, B)' = BestTotal(l, B)
      BY <1>9, PointFrame
    <3> QED
      BY <3>1, <3>2 DEF FullRow
  <2>3. ASSUME Mutual, Complete, NEW l \in DOMAIN rows', NEW i \in DOMAIN rows'[l]
        PROVE  FullRow(l, job.grid[i], rows'[l][i])
    <3>1. CASE l # at
      BY <1>5, <2>3, <3>1 DEF SearchInv, InvRows
    <3>2. CASE l = at /\ i = n
      BY <1>4, <1>6, <2>3, <3>2
    <3>3. CASE l = at /\ i \in DOMAIN rows[at]
      BY <1>2, <1>6, <2>3, <3>3 DEF SearchInv, InvRows
    <3> QED
      BY <1>7, <2>3, <3>1, <3>2, <3>3
  <2>4. ASSUME Mutual', Complete', NEW l \in DOMAIN rows', NEW i \in DOMAIN rows'[l]
        PROVE  \A B, r : B = job'.grid[i] /\ r = rows'[l][i] => FullRow(l, B, r)'
    BY <1>1, <2>1, <2>2, <2>3, <2>4
  <2> QED
    BY <2>4 DEF InvRows
<1> QED
  BY <1>10, <1>11, <1>12, <1>13, <1>14 DEF SearchInv

\* The command starts with no row.
LEMMA InitSearch == Init => SearchInv
<1> SUFFICES ASSUME Init PROVE SearchInv
  OBVIOUS
<1>1. /\ job \in Jobs /\ phase = "called" /\ last = None
      /\ rows = [l \in { Levels[i] : i \in DOMAIN Levels } |-> << >>]
  BY DEF Init
<1>2. DOMAIN rows = { Levels[i] : i \in DOMAIN Levels }
        /\ \A l \in DOMAIN rows : rows[l] = << >>
  BY <1>1
<1>3. InvShape
  <2>1. << >> \in Seq(Row) /\ Len(<< >>) = 0 /\ DOMAIN << >> = {}
    OBVIOUS
  <2>2. 0 <= Len(job.grid)
    BY <1>1, JobFacts
  <2> QED
    BY <1>1, <1>2, <2>1, <2>2 DEF InvShape
<1>4. InvProgress /\ InvRaised /\ InvLast
  BY <1>1 DEF InvProgress, InvRaised, InvLast
<1>5. InvRows
  BY <1>2 DEF InvRows
<1> QED
  BY <1>3, <1>4, <1>5 DEF SearchInv

\* What a step leaves alone.
LEMMA RowsFrame ==
  ASSUME SearchInv, UNCHANGED <<job, rows>>
  PROVE  /\ (phase' \in {"called", "level", "raised", "written"} => InvShape')
         /\ InvRows'
         /\ \A i : ChosenAt(i)' = ChosenAt(i)
<1>1. UNCHANGED job
  OBVIOUS
<1>2. Levels' = Levels /\ Mutual' = Mutual /\ Complete' = Complete
  BY <1>1, JobFrame
<1>3. phase' \in {"called", "level", "raised", "written"} => InvShape'
  BY <1>2 DEF SearchInv, InvShape
<1>4. \A l, B, r : FullRow(l, B, r)' <=> FullRow(l, B, r)
  <2>1. /\ Answerable' = Answerable /\ \A l, B : Spare(l, B)' = Spare(l, B)
    BY <1>1, JobFrame
  <2>2. \A l, B : BestTotal(l, B)' = BestTotal(l, B)
    BY <1>1, BestTotalFrame
  <2> QED
    BY <2>1, <2>2 DEF FullRow
<1>5. InvRows'
  BY <1>2, <1>4 DEF SearchInv, InvRows
<1>6. \A i : ChosenAt(i)' = ChosenAt(i)
  BY DEF ChosenAt, BetterMean
<1> QED
  BY <1>3, <1>5, <1>6

\* Every step keeps the invariant.
LEMMA NextSearch == SearchInv /\ [Next]_vars => SearchInv'
<1> SUFFICES ASSUME SearchInv, [Next]_vars PROVE SearchInv'
  OBVIOUS
<1>1. CASE AddsRow
  <2>1. Solving /\ \E s : AddRow(s) /\ Worthy(Paid(s), Budget) /\ Counted(s)
    BY <1>1, RowsAreWorthy
  <2> QED
    BY <2>1, AddRowKeeps
<1>2. ASSUME UNCHANGED <<job, rows>>,
             phase' \in {"called", "level", "raised", "written"},
             InvProgress', InvRaised', InvLast'
      PROVE  SearchInv'
  BY <1>2, RowsFrame DEF SearchInv
<1>3. CASE Refuse
  <2>1. /\ phase = "called" /\ NotWired /\ phase' = "raised"
        /\ UNCHANGED <<job, at, rows, last, argmin>>
    BY <1>3 DEF Refuse
  <2>2. NotWired' = NotWired
    BY <2>1, JobFrame
  <2>3. last' = None
    BY <2>1 DEF SearchInv, InvLast
  <2> QED
    BY <1>2, <2>1, <2>2, <2>3 DEF InvProgress, InvRaised, InvLast
<1>4. CASE Begin
  <2>1. /\ phase = "called" /\ ~ NotWired /\ phase' = "level" /\ at' = Levels[1]
        /\ UNCHANGED <<job, rows, last, argmin>>
    BY <1>4 DEF Begin
  <2>2. NotWired' = NotWired
    BY <2>1, JobFrame
  <2>3. last' = None
    BY <2>1 DEF SearchInv, InvLast
  <2>4. job \in Jobs /\ DOMAIN rows = { Levels[i] : i \in DOMAIN Levels } /\ Levels' = Levels
    BY <2>1, JobFrame DEF SearchInv, InvShape
  <2>5. /\ 1 \in DOMAIN Levels /\ (\A i \in DOMAIN Levels : i \in Nat /\ i >= 1)
        /\ \A i, k \in DOMAIN Levels : Levels[i] = Levels[k] => i = k
    BY <2>4, LevelFacts
  <2>6. at' \in DOMAIN rows'
    BY <2>1, <2>4, <2>5
  <2>7. \A i, k \in DOMAIN Levels : ~ (Levels[k] = at' /\ i < k)
    <3>1. \A k \in DOMAIN Levels : Levels[k] = at' => k = 1
      BY <2>1, <2>5
    <3> QED
      BY <2>5, <3>1
  <2>8. InvProgress'
    BY <2>1, <2>2, <2>4, <2>6, <2>7 DEF InvProgress
  <2> QED
    BY <1>2, <2>1, <2>3, <2>8 DEF InvRaised, InvLast
<1>5. CASE Fail
  <2>1. /\ phase = "level" /\ Unsolvable /\ phase' = "raised"
        /\ UNCHANGED <<job, at, rows, last, argmin>>
    BY <1>5 DEF Fail
  <2>2. Unsolvable' = Unsolvable /\ NotWired' = NotWired
    BY <2>1, PointFrame, JobFrame
  <2>3. last' = None
    BY <2>1 DEF SearchInv, InvLast
  <2>4. ~ NotWired /\ at \in {0, 1}
    BY <2>1, AtFacts DEF Unsolvable
  <2> QED
    BY <1>2, <2>1, <2>2, <2>3, <2>4 DEF InvProgress, InvRaised, InvLast
<1>6. CASE NextLevel
  <2>1. /\ phase = "level" /\ ~ More /\ last' = None
        /\ UNCHANGED <<job, phase, rows, argmin>>
    BY <1>6 DEF NextLevel
  <2>2. PICK i \in 1 .. Len(Levels) - 1 : Levels[i] = at /\ at' = Levels[i + 1]
    BY <1>6 DEF NextLevel
  <2>3. NotWired' = NotWired
    BY <2>1, JobFrame
  <2>4. /\ job \in Jobs /\ ~ NotWired /\ job.grid \in Seq(Nat)
        /\ DOMAIN rows = { Levels[k] : k \in DOMAIN Levels }
        /\ Len(rows[at]) = Len(job.grid)
    <3>1. /\ job \in Jobs /\ ~ NotWired /\ Len(rows[at]) \in Nat /\ job.grid \in Seq(Nat)
          /\ at \in DOMAIN rows
      BY <2>1, AtFacts
    <3> QED
      BY <2>1, <3>1 DEF SearchInv, InvShape, More
  <2>5. /\ Levels \in Seq(Nat) /\ Len(Levels) \in Nat
        /\ \A j, k \in DOMAIN Levels : Levels[j] = Levels[k] => j = k
    BY <2>4, LevelFacts
  <2>6. i \in DOMAIN Levels /\ i + 1 \in DOMAIN Levels /\ Levels' = Levels
    BY <2>1, <2>2, <2>5, JobFrame
  <2>7. at' \in DOMAIN rows'
    BY <2>1, <2>2, <2>4, <2>6
  <2>8. ASSUME NEW j \in DOMAIN Levels, NEW k \in DOMAIN Levels, Levels[k] = at', j < k
        PROVE  Len(rows[Levels[j]]) = Len(job.grid)
    <3>1. k = i + 1
      BY <2>2, <2>5, <2>6, <2>8
    <3>2. j = i \/ j < i
      BY <2>2, <2>5, <2>8, <3>1
    <3>3. CASE j = i
      BY <2>2, <2>4, <3>3
    <3>4. CASE j < i
      BY <2>1, <2>2, <2>6, <3>4 DEF SearchInv, InvProgress
    <3> QED
      BY <3>2, <3>3, <3>4
  <2>9. InvProgress'
    BY <2>1, <2>3, <2>4, <2>6, <2>7, <2>8 DEF InvProgress
  <2> QED
    BY <1>2, <2>1, <2>9 DEF InvRaised, InvLast
<1>7. CASE Write
  <2>1. /\ phase = "level" /\ ~ More /\ at = Levels[Len(Levels)] /\ phase' = "written"
        /\ last' = None /\ UNCHANGED <<job, at, rows>>
        /\ argmin' = IF job.kind = "search" THEN << >>
                     ELSE [i \in DOMAIN job.grid |-> ChosenAt(i)]
    BY <1>7 DEF Write
  <2>2. NotWired' = NotWired
    BY <2>1, JobFrame
  <2>3. /\ job \in Jobs /\ ~ NotWired /\ job.grid \in Seq(Nat) /\ at \in DOMAIN rows
        /\ Len(rows[at]) = Len(job.grid)
    <3>1. /\ job \in Jobs /\ ~ NotWired /\ Len(rows[at]) \in Nat /\ job.grid \in Seq(Nat)
          /\ at \in DOMAIN rows
      BY <2>1, AtFacts
    <3> QED
      BY <2>1, <3>1 DEF SearchInv, InvShape, More
  <2>4. \A l \in DOMAIN rows : Len(rows[l]) = Len(job.grid)
    <3>1. DOMAIN rows = { Levels[i] : i \in DOMAIN Levels }
      BY DEF SearchInv, InvShape
    <3>2. Levels \in Seq(Nat) /\ Len(Levels) \in Nat /\ Len(Levels) >= 1
      BY <2>3, LevelFacts
    <3>3. ASSUME NEW i \in DOMAIN Levels PROVE Len(rows[Levels[i]]) = Len(job.grid)
      <4>1. CASE i = Len(Levels)
        BY <2>1, <2>3, <4>1
      <4>2. CASE i # Len(Levels)
        <5>1. Len(Levels) \in DOMAIN Levels /\ i < Len(Levels)
          BY <3>2, <4>2
        <5> QED
          BY <2>1, <5>1 DEF SearchInv, InvProgress
      <4> QED
        BY <4>1, <4>2
    <3> QED
      BY <3>1, <3>3
  <2>5. \A i : ChosenAt(i)' = ChosenAt(i)
    BY <2>1, RowsFrame
  <2>6. /\ job.kind = "search" => argmin' = << >>
        /\ job.kind # "search" => argmin' = [i \in DOMAIN job'.grid |-> ChosenAt(i)']
    BY <2>1, <2>5
  <2>7. InvProgress'
    BY <2>1, <2>2, <2>3, <2>4, <2>6 DEF InvProgress
  <2> QED
    BY <1>2, <2>1, <2>7 DEF InvRaised, InvLast
<1>8. CASE UNCHANGED vars
  <2>1. UNCHANGED <<job, phase, at, rows, last, argmin>>
    BY <1>8 DEF vars
  <2>2. NotWired' = NotWired
    BY <2>1, JobFrame
  <2>3. Unsolvable' = Unsolvable /\ \A s, B : Worthy(s, B)' <=> Worthy(s, B)
    BY <2>1, PointFrame
  <2>4. (\A i : ChosenAt(i)' = ChosenAt(i)) /\ Levels' = Levels
    BY <2>1, RowsFrame, JobFrame
  <2>5. phase' \in {"called", "level", "raised", "written"}
    BY <2>1 DEF SearchInv, InvShape
  <2>6. InvProgress'
    BY <2>1, <2>2, <2>4 DEF SearchInv, InvProgress
  <2>7. InvRaised'
    BY <2>1, <2>2, <2>3 DEF SearchInv, InvRaised
  <2>8. InvLast'
    <3>1. Paid(last)' = Paid(last)
      BY <2>1 DEF Paid
    <3> QED
      BY <2>1, <2>3, <3>1 DEF SearchInv, InvLast
  <2> QED
    BY <1>2, <2>1, <2>5, <2>6, <2>7, <2>8
<1> QED
  BY <1>1, <1>3, <1>4, <1>5, <1>6, <1>7, <1>8 DEF Next, AddsRow, Ended

\* The invariant always holds.
LEMMA SearchInvAlways == Spec => []SearchInv
<1>1. SearchInv /\ [Next]_vars => SearchInv'
  BY NextSearch
<1> QED
  BY InitSearch, <1>1, PTL DEF Spec

-----------------------------------------------------------------------------
(* Properties. *)

\* The rows line up with the grid.
LEMMA InvTypeSearch == SearchInv => TypeOK
<1> SUFFICES ASSUME SearchInv PROVE TypeOK
  OBVIOUS
<1>1. /\ job \in Jobs /\ phase \in {"called", "level", "raised", "written"}
      /\ \A l \in DOMAIN rows : \A i \in DOMAIN rows[l] :
           rows[l][i].budget = job.grid[i] /\ rows[l][i].total >= rows[l][i].of
  BY DEF SearchInv, InvShape
<1>2. ASSUME phase = "written"
      PROVE  /\ \A l \in DOMAIN rows : Len(rows[l]) = Len(job.grid)
             /\ \A i \in DOMAIN argmin : argmin[i] \in DOMAIN rows
  <2>1. /\ \A l \in DOMAIN rows : Len(rows[l]) = Len(job.grid)
        /\ job.kind = "search" => argmin = << >>
        /\ job.kind # "search" => argmin = [i \in DOMAIN job.grid |-> ChosenAt(i)]
    BY <1>2 DEF SearchInv, InvProgress
  <2>2. CASE job.kind = "search"
    <3>1. DOMAIN argmin = {}
      BY <2>1, <2>2
    <3> QED
      BY <2>1, <3>1
  <2>3. CASE job.kind # "search"
    <3>1. DOMAIN rows = {0, 1}
      BY <1>1, <2>3, LevelFacts DEF SearchInv, InvShape
    <3>2. \A i \in DOMAIN argmin : argmin[i] \in {0, 1}
      BY <2>1, <2>3 DEF ChosenAt
    <3> QED
      BY <2>1, <3>1, <3>2
  <2> QED
    BY <2>2, <2>3
<1> QED
  BY <1>1, <1>2 DEF TypeOK

\* The written level of a budget is the one whose total is less.
LEMMA InvCurve == SearchInv => CurveIsBest
<1> SUFFICES ASSUME SearchInv, phase = "written", Mutual, Complete, NEW i \in DOMAIN job.grid,
                    \A l \in {0, 1} : Spare(l, job.grid[i])
             PROVE  /\ rows[argmin[i]][i].of = Cardinality(Answerable)
                    /\ rows[argmin[i]][i].total = Min({ BestTotal(l, job.grid[i]) :
                         l \in {0, 1} })
  BY DEF CurveIsBest, Mutual
<1> DEFINE B == job.grid[i]
           n == Cardinality(Answerable)
           a == rows[0][i]
           b == rows[1][i]
<1>1. /\ job \in Jobs /\ DOMAIN rows = {0, 1} /\ job.grid \in Seq(Nat)
      /\ \A l \in {0, 1} : rows[l] \in Seq(Row) /\ Len(rows[l]) = Len(job.grid)
      /\ argmin[i] = ChosenAt(i)
  <2>1. job \in Jobs /\ job.kind # "search"
    BY DEF SearchInv, InvShape, Mutual
  <2>2. DOMAIN rows = {0, 1}
    BY <2>1, LevelFacts DEF SearchInv, InvShape
  <2>3. /\ \A l \in DOMAIN rows : Len(rows[l]) = Len(job.grid)
        /\ argmin = [k \in DOMAIN job.grid |-> ChosenAt(k)]
    BY <2>1 DEF SearchInv, InvProgress
  <2>4. \A l \in DOMAIN rows : rows[l] \in Seq(Row)
    BY DEF SearchInv, InvShape
  <2> QED
    BY <2>1, <2>2, <2>3, <2>4, JobFacts
<1>2. \A l \in {0, 1} : i \in DOMAIN rows[l]
  BY <1>1
<1>3. \A l \in {0, 1} : FullRow(l, B, rows[l][i])
  BY <1>1, <1>2 DEF SearchInv, InvRows
<1>4. /\ a.of = n /\ b.of = n /\ n \in Nat /\ n > 0
      /\ a.total \in Nat /\ a.total = BestTotal(0, B)
      /\ b.total \in Nat /\ b.total = BestTotal(1, B)
  BY <1>3 DEF FullRow
<1> DEFINE Z == { BestTotal(l, B) : l \in {0, 1} }
<1>5. a.total \in Z /\ b.total \in Z /\ \A z \in Z : z = a.total \/ z = b.total
  BY <1>4
<1>6. BetterMean(b, a) <=> b.total < a.total
  <2> DEFINE u == a.total
             v == b.total
  <2>1. BetterMean(b, a) <=> v * n < u * n
    BY <1>4 DEF BetterMean
  <2>2. u \in Nat /\ v \in Nat /\ n \in Nat /\ n > 0
    BY <1>4
  <2> HIDE DEF u, v, n
  <2>3. v < u => n * v < n * u
    BY <2>2, Weighing
  <2>4. u <= v => n * u <= n * v
    BY <2>2, Weighing
  <2>5. n * u = u * n /\ n * v = v * n /\ n * u \in Nat /\ n * v \in Nat
    BY <2>2
  <2>6. v * n < u * n <=> v < u
    BY <2>2, <2>3, <2>4, <2>5
  <2> QED
    BY <2>1, <2>6 DEF u, v
<1>7. ChosenAt(i) = IF b.total < a.total THEN 1 ELSE 0
  BY <1>6 DEF ChosenAt
<1> HIDE DEF Z
<1>8. Min(Z) = rows[argmin[i]][i].total
  <2>1. CASE b.total < a.total
    <3>1. b.total \in Z /\ \A z \in Z : z \in Int /\ b.total <= z
      BY <1>4, <1>5, <2>1
    <3>2. Min(Z) = b.total
      <4> HIDE DEF b
      <4> QED
        BY <3>1, MinUnique
    <3> QED
      BY <1>1, <1>7, <2>1, <3>2
  <2>2. CASE ~ (b.total < a.total)
    <3>1. a.total \in Z /\ \A z \in Z : z \in Int /\ a.total <= z
      BY <1>4, <1>5, <2>2
    <3>2. Min(Z) = a.total
      <4> HIDE DEF a
      <4> QED
        BY <3>1, MinUnique
    <3> QED
      BY <1>1, <1>7, <2>2, <3>2
  <2> QED
    BY <2>1, <2>2
<1>9. rows[argmin[i]][i].of = n
  BY <1>1, <1>4, <1>7
<1> QED
  BY <1>8, <1>9 DEF Z

\* What is selected on the tables paid for is an affordable deployment, and it serves
\* every query as the row says.
LEMMA InvFits == SearchInv => SelectionFits
<1> DEFINE B == job.grid[Len(rows[at])]
<1> SUFFICES ASSUME SearchInv, last # None, Mutual, Spare(at, B)
             PROVE  /\ IF job.kind = "maint" THEN Seconds(Deployed, at) <= B
                       ELSE RealBytes(Deployed) <= B
                    /\ \A q \in Kept : last.qerr[q] = Serves(Deployed, q, at)
  BY DEF SelectionFits, Mutual
<1>1. Worthy(Paid(last), B)
  BY DEF SearchInv, InvLast
<1>2. BestPoint(Paid(last), B)
  BY <1>1 DEF Worthy
<1>3. RealOf(Paid(last).y) = Deployed /\ Paid(last).qerr = last.qerr
  BY DEF RealOf, Real, Deployed, Paid
<1> HIDE DEF B
<1>4. Deployed \in Affordable(at, B) /\ \A q \in Kept : last.qerr[q] = Serves(Deployed, q, at)
  BY <1>2, <1>3 DEF BestPoint
<1> QED
  BY <1>4 DEF Affordable

\* No table of the best set is idle.
LEMMA InvNoIdle == SearchInv => NoIdleTable
<1> DEFINE B == job.grid[Len(rows[at])]
<1> SUFFICES ASSUME SearchInv, last # None, job.kind = "maint", job.bench = "many", Spare(at, B)
             PROVE  NoIdle(last)
  BY DEF NoIdleTable, NoIdle
<1>1. Worthy(Paid(last), B)
  BY DEF SearchInv, InvLast
<1>2. NoIdle(Paid(last))
  BY <1>1 DEF Worthy
<1> QED
  BY <1>2 DEF NoIdle, Paid

\* Every query is credited by its own fidelity.
LEMMA InvCredited == SearchInv => CreditedByOwnFidelity
<1> DEFINE B == job.grid[Len(rows[at])]
<1> SUFFICES ASSUME SearchInv, last # None, job.kind = "search", OneTable, job.maint = None
             PROVE  Weighed(last.qerr) = Max({ WeighedBy(D) : D \in Affordable(at, B) })
  BY DEF CreditedByOwnFidelity, Weighed, WeighedBy
<1>1. Worthy(Paid(last), B) /\ Paid(last).qerr = last.qerr
  BY DEF SearchInv, InvLast, Paid
<1> QED
  BY <1>1 DEF Worthy

\* A command is refused only what was not measured.
LEMMA InvMeasured == SearchInv => MeasuredGetsItsCurve
<1> SUFFICES ASSUME SearchInv, phase = "raised", Complete, Answerable = Queries,
                    ~ NotWired
             PROVE  /\ job.kind = "maint"
                    /\ \E t \in Tables : \E tab \in {job.file.fixed, job.file.cvar} :
                         \A k \in DOMAIN tab : Lower[k] = t
                           => ~ ({0, 1} \subseteq DOMAIN tab[k])
  BY DEF MeasuredGetsItsCurve, NotWired
<1>1. Unsolvable /\ at \in {0, 1} /\ job \in Jobs
  BY DEF SearchInv, InvShape, InvRaised
<1>2. Kept = Queries /\ Kept # {}
  <2>1. Kept = { q \in Queries : InProblem(q) }
    BY <1>1, KeptFacts
  <2>2. \A q \in Queries : InProblem(q)
    BY <1>1 DEF Answerable, Complete, InProblem
  <2> QED
    BY <2>1, <2>2, SetFacts
<1>3. job.kind = "maint" /\ job.file # None
  BY <1>1, <1>2 DEF Unsolvable, NotWired
<1>4. /\ job.file.fixed \in {job.file.fixed, job.file.cvar}
      /\ job.file.cvar \in {job.file.fixed, job.file.cvar}
  OBVIOUS
<1>5. ASSUME NEW t \in Tables, NEW tab \in {job.file.fixed, job.file.cvar},
             At(FromDict(tab), t) = None
      PROVE  \A k \in DOMAIN tab : Lower[k] = t => ~ ({0, 1} \subseteq DOMAIN tab[k])
  <2>1. \A k \in DOMAIN tab : Lower[k] = t => at \notin DOMAIN tab[k]
    BY <1>1, <1>3, <1>5, EntryFacts
  <2> QED
    BY <1>1, <2>1
<1>6. \E t \in Tables : \E tab \in {job.file.fixed, job.file.cvar} : At(FromDict(tab), t) = None
  <2>1. CASE job.bench = "one"
    <3>1. job.owner \in Tables /\ (Fixed(job.owner) = None \/ CVar(job.owner) = None)
      BY <1>1, <1>2, <1>3, <2>1, JobFacts DEF Unsolvable
    <3> QED
      BY <1>4, <3>1 DEF Fixed, CVar
  <2>2. CASE job.bench = "many"
    <3>1. \/ \E s \in Offered : s[1] # NoTable /\ CVar(s[1]) = None
          \/ \E t \in Measured : Fixed(t) = None
      BY <1>1, <1>2, <1>3, <2>2 DEF Unsolvable
    <3>2. ASSUME NEW s \in Offered, s[1] # NoTable, CVar(s[1]) = None
          PROVE  \E t \in Tables : CVar(t) = None
      BY <1>1, <3>2, OfferedFacts DEF Stats
    <3>3. \A t \in Measured : t \in Tables
      BY <1>1, <1>3, <1>4, EntryFacts DEF Measured
    <3>4. \E t \in Tables : CVar(t) = None \/ Fixed(t) = None
      BY <3>1, <3>2, <3>3
    <3> QED
      BY <1>4, <3>4 DEF Fixed, CVar
  <2> QED
    BY <1>1, <2>1, <2>2, JobFacts
<1> QED
  BY <1>3, <1>5, <1>6

\* TypeOK, for every corpus, file and grid: the rows of the levels line up, budget by
\* budget, and no mean is below one.
THEOREM SearchTypes == Spec => []TypeOK
BY SearchInvAlways, InvTypeSearch, PTL

\* The curve of optimize_sgrid and measure_milp_curve, for every corpus, file, grid and
\* set of tables: at every budget that fixed charges do not use up, the written mean
\* is over all queries with a q-error and is the least that any deployment one can
\* store, or keep refreshed, reaches at any level.
THEOREM CurveAlwaysBest == Spec => []CurveIsBest
BY SearchInvAlways, InvCurve, PTL

\* What a point selects on the tables it pays for fits the bytes of a storage budget, or
\* the seconds of a maintenance budget with the fixed charge of every table it touches,
\* and it alone serves every query as the row says.  The solver may be any that returns
\* an optimum, so it may have created idle statistics of other tables as well: they
\* are in its n_selected, but no query's q-error depends on them.
THEOREM SelectionAlwaysFits == Spec => []SelectionFits
BY SearchInvAlways, InvFits, PTL

\* Over several tables no table is refreshed in vain: combinations() finds the set
\* without it first.
THEOREM NoIdleTableEver == Spec => []NoIdleTable
BY SearchInvAlways, InvNoIdle, PTL

\* search_sgrid credits every query by its own expected sample rows, and no selection
\* within the bytes is worth more by those weights.
THEOREM OwnFidelityAlways == Spec => []CreditedByOwnFidelity
BY SearchInvAlways, InvCredited, PTL

\* Whoever measured every query and every table at both levels gets a curve, however
\* _maint.json spells the tables.
THEOREM MeasuredAlwaysGetsItsCurve == Spec => []MeasuredGetsItsCurve
BY SearchInvAlways, InvMeasured, PTL
=============================================================================
