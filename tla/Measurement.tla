---------------------------- MODULE Measurement -----------------------------
(***************************************************************************)
(* What a measurement run promises, whichever protocol carries it out: the *)
(* corpus gains one complete block per query, once and for all, and every  *)
(* number in the block was read in the sampling state of its own level,    *)
(* with no statistic visible (the baseline) or with exactly the one being  *)
(* measured visible (a candidate).                                         *)
(***************************************************************************)
EXTENDS SGrid

CONSTANTS MayBeEmpty, NoFile, NoReading
VARIABLE file

DeepRows(l) == RowsAt(TargetForLevel(l))

\* The baseline: columns at the level's target, at least the level's rows
\* scanned, no extended statistic in sight.
IsBaseline(r, l) ==
  /\ r.single.target = TargetForLevel(l)
  /\ r.single.rows >= DeepRows(l)
  /\ r.live = {}

\* Slot s built by an ANALYZE at its level's depth, as EXPLAIN sees it alone.
Alone(s) == [stat |-> s, payload |-> [param |-> s.param,
                                      rows  |-> DeepRows(s.level)]]

\* A candidate's reading: the level's own columns and only its own payload
\* (which may be missing only if ANALYZE found nothing to store).
IsCandidateReading(r, s) ==
  /\ r.single = [target |-> TargetForLevel(s.level), rows |-> DeepRows(s.level)]
  /\ \/ r.live = {Alone(s)}
     \/ r.live = {} /\ s.cand \in MayBeEmpty

\* The block of query x: every level, every admissible slot, nothing else.
IsBlock(b, x) ==
  /\ \A l \in Levels : b.base[l] # NoReading /\ IsBaseline(b.base[l], l)
  /\ \A s \in Slots :
        IF s \in SlotsOf(x)
        THEN b.reads[s] # NoReading /\ IsCandidateReading(b.reads[s], s)
        ELSE b.reads[s] = NoReading

Init == file = [x \in Queries |-> NoFile]

Record(x) ==
  /\ file[x] = NoFile
  /\ file' = [file EXCEPT ![x] = file'[x]]
  /\ file'[x] # NoFile /\ IsBlock(file'[x], x)

Next == \E x \in Queries : Record(x)

Spec == Init /\ [][Next]_file
=============================================================================
