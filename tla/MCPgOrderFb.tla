---------------------------- MODULE MCPgOrderFb -----------------------------
(* Every preference profile over the statistics, up to renaming of queries: *)
(* queries are numbers, and what they offer is in ascending order.          *)
EXTENDS PgOrderFb

Digit(q, i) == IF i \notin Applicable(q) THEN 0
               ELSE IF offers[q][i] = Unmeasured THEN 1 ELSE 1 + offers[q][i]
Rank(q) == FoldSet(LAMBDA i, r : r + Digit(q, i) * 4 ^ i, 0, Stats)
Ascending == \A q \in Queries : q + 1 \in Queries => Rank(q) <= Rank(q + 1)

AscendingInit == FbInit /\ Ascending
AscendingSpec == AscendingInit /\ [][FbNext]_fbVars /\ WF_fbVars(FbNext)
=============================================================================
