----------------------------- MODULE MCPgOrder ------------------------------
(* Every preference profile of three queries over three statistics. *)
EXTENDS PgOrder, TLC

CONSTANTS q1, q2, q3

AnyQuery == Permutations(Queries)
=============================================================================
