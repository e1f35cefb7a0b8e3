---------------------------- MODULE MCOracleJobs ----------------------------
(* Values for the constants of OracleJobs that a cfg cannot spell out. *)
EXTENDS OracleJobs, TLC

CONSTANTS a, b, x

TwoLevels == <<0, 1>>
Ladder == 0 :> 30000 @@ 1 :> 300000
StudyKeeps == << {a}, {a, b}, {b} >>
SomeKeeps == { {a}, {a, x} }
=============================================================================
