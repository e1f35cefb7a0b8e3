----------------------------- MODULE MCSolveIlp -----------------------------
(* Four statistics on two tables, one column set at two levels, levels 0 to 2. *)
EXTENDS SolveIlp, TLC

CONSTANTS ab0, ab1, bc2, de0, t1, t2, q1, q2

OnTable == ab0 :> t1 @@ ab1 :> t1 @@ bc2 :> t1 @@ de0 :> t2
OfColumns == ab0 :> {"a", "b"} @@ ab1 :> {"a", "b"} @@ bc2 :> {"b", "c"}
               @@ de0 :> {"d", "e"}
AtLevel == ab0 :> 0 @@ ab1 :> 1 @@ bc2 :> 2 @@ de0 :> 0

\* What was measured: q1 can use three statistics, q2 shares two of them.
Measured == { q1 :> (ab0 :> 3 @@ ab1 :> 2 @@ bc2 :> e @@ de0 :> f)
                @@ q2 :> (ab1 :> g @@ de0 :> 2) : e, f, g \in {1, 4} }

Modes == { [class |-> "sparse", cap |-> 1], [class |-> "sparse", cap |-> None],
           [class |-> "multiplicative", cap |-> None],
           [class |-> "multiplicative", cap |-> 1] }
Ladders == { << >>, t1 :> <<1, 2, 4>>, t1 :> <<1, 2, 4>> @@ t2 :> <<2>>,
             t1 :> <<1, 2>>, t1 :> <<3, 1, 4>> }
\* What build_problem passes, or all that was measured.
WithStats(a) == { a @@ [phys |-> Helpful(a)], a @@ [phys |-> DOMAIN OnTable] }

\* Positive: a budget of zero is taken for no budget at all.
Budgets == {None, 4, 7}

Arguments == UNION { WithStats(a) : a \in
  { [table |-> OnTable, columns |-> OfColumns, level |-> AtLevel,
     class |-> m.class, cap |-> m.cap, err |-> e, ladder |-> l, maint |-> b,
     bytes |-> 4, disjoint |-> d, weight |-> w,
     base |-> q1 :> 4 @@ q2 :> 3,
     cost |-> ab0 :> 1 @@ ab1 :> 2 @@ bc2 :> 1 @@ de0 :> 2,
     var  |-> ab0 :> 1 @@ ab1 :> 1 @@ bc2 :> 2 @@ de0 :> 1] :
    m \in Modes, e \in Measured, l \in Ladders, b \in Budgets,
    d \in BOOLEAN, w \in { q1 :> 1 @@ q2 :> 1, q1 :> 1 @@ q2 :> 3 } } }
=============================================================================
