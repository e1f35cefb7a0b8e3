------------------------------- MODULE SGrid --------------------------------
(***************************************************************************)
(* The S-grid: the sampling levels and representation parameters that the  *)
(* sample-first measurement enumerates, and their PostgreSQL realisation   *)
(* as a statistics_target.  A level asks for 300 * Ladder[l] sample rows;  *)
(* ANALYZE never reads more than the table has.                            *)
(***************************************************************************)
EXTENDS Integers, Sequences

CONSTANTS
  Queries,      \* queries of the workload
  Candidates,   \* candidate column sets
  CandsOf,      \* [Queries -> SUBSET Candidates]
  LevelSeq,     \* the sampling levels in the order they are measured
  Ladder,       \* level -> statistics_target
  Grid,         \* representation parameters offered at every level
  NumRows,      \* N, the table's row count (pg_class.reltuples)
  MaxTarget     \* the largest statistics_target the server accepts

Targets == 1 .. MaxTarget
Levels == { LevelSeq[i] : i \in DOMAIN LevelSeq }

ASSUME SGridAssumption ==
  /\ Queries # {} /\ Candidates # {} /\ Grid # {}
  /\ CandsOf \in [Queries -> SUBSET Candidates]
  /\ LevelSeq \in Seq(Nat) /\ LevelSeq # << >>
  /\ MaxTarget \in Nat
  /\ Ladder \in [Levels -> Targets]
  /\ Grid \subseteq Targets
  /\ NumRows \in Nat /\ NumRows >= 300

LesserOf(a, b) == IF a <= b THEN a ELSE b

\* The statistics_target that realises level l on this table.
TargetForLevel(l) == LesserOf(Ladder[l], NumRows \div 300)

\* The S_rows the block reports for level l.
SampleRowsAtLevel(l) == LesserOf(300 * Ladder[l], NumRows)

\* What ANALYZE really reads when the deepest target on the table is t.
RowsAt(t) == LesserOf(300 * t, NumRows)

\* One (candidate, level, parameter) triple names one statistic object.
Slots == [cand : Candidates, level : Levels, param : Grid]

\* The slots a query measures at a level: every parameter up to the cap S/300.
SlotsAt(q, l) == { s \in Slots : /\ s.cand \in CandsOf[q]
                                 /\ s.level = l
                                 /\ s.param <= TargetForLevel(l) }
SlotsOf(q) == UNION { SlotsAt(q, l) : l \in Levels }
=============================================================================
