------------------------------ MODULE MCPgJobs ------------------------------
(* Values for the constants of PgJobs that a cfg cannot spell out. *)
EXTENDS PgJobs

CONSTANTS c1, c2, q1, q2, alien, probe0, probe1

TwoLevels == <<0, 1>>
TwoTargets == 0 :> 100 @@ 1 :> 1000
Split == [x \in Queries |-> IF x = q1 THEN Candidates ELSE {c1}]
OneProbe == 0 :> {probe0} @@ 1 :> {probe1}
At0(c) == [cand |-> c, level |-> 0, param |-> 50]
TwoKeeps == { {At0(c1)}, {alien, At0(c2)} }
OneKeep == { {At0(c1)} }
=============================================================================
