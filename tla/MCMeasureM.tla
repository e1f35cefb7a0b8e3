----------------------------- MODULE MCMeasureM -----------------------------
(* Values for the constants of MeasureM that a cfg cannot spell out. *)
EXTENDS MeasureM, TLC

CONSTANTS c1, c2, q1, q2, foreign

DefaultLevels == <<0, 1>>
DefaultLadder == 0 :> 100 @@ 1 :> 1000
Split == [x \in Queries |-> IF x = q1 THEN Candidates ELSE {c1}]
=============================================================================
