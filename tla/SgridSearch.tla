---------------------------- MODULE SgridSearch ----------------------------
(***************************************************************************)
(* The choice of a sampling level.  For each level the measured corpus      *)
(* yields one selection problem; the commands solve it under a storage or a *)
(* maintenance budget, for a grid of budgets, and keep the better level:    *)
(*   "search"   optimize_sgrid.search_sgrid, one row per level;             *)
(*   "storage"  measure_milp_curve, budgets in bytes;                       *)
(*   "maint"    measure_milp_curve, budgets in seconds per refresh, on one  *)
(*              table or, choosing the tables to refresh, on several.       *)
(* The inner program is IlpProgram's; q-errors, bytes and seconds are whole. *)
(***************************************************************************)
EXTENDS IlpProgram

CONSTANTS
  Qids,         \* the corpus's queries in the order of their files
  TableOrder,   \* the tables in sorted order
  NoTable,      \* the tag of a statistic, the owner of a query, without a table
  Columns,      \* column sets
  Params,       \* representation parameters
  Lower,        \* the lowercase form of a table's key in _maint.json
  SizeOf,       \* [owner -> columns -> parameter -> bytes]
  Huge,         \* storage budget that excludes nothing
  Jobs          \* commands with the corpus and the parameters they read

Queries == { Qids[i] : i \in DOMAIN Qids }
Tables == { TableOrder[i] : i \in DOMAIN TableOrder }

\* A physical statistic: the table it is tagged with, columns, parameter.
Stats == (Tables \cup {NoTable}) \X Columns \X Params

\* A level of a query with a q-error: its baseline, lambda_q and the readings.
IsSlot(slot) ==
  /\ slot.base \in Nat \ {0} /\ slot.lambda \in Nat \cup {None}
  /\ slot.err \in [Columns -> [Params -> (Nat \ {0}) \cup {None}]]

\* Each table is spelled one way in a file.
IsMaintTable(tab) ==
  /\ IsFiniteSet(DOMAIN tab) /\ DOMAIN tab \subseteq DOMAIN Lower
  /\ \A k \in DOMAIN tab : \A l \in DOMAIN tab[k] : tab[k][l] \in Nat
  /\ \A k, m \in DOMAIN tab : Lower[k] = Lower[m] => k = m

IsJob(j) ==
  /\ j.kind \in {"search", "storage", "maint"} /\ j.bench \in {"one", "many"}
  /\ j.grid \in Seq(Nat) /\ j.tiers \in Seq(Nat) /\ j.tiers # << >>
  \* _meta.json declares a level once
  /\ \A i, k \in DOMAIN j.tiers : j.tiers[i] = j.tiers[k] => i = k
  /\ j.maint \in Nat \cup {None} /\ j.floor \in Nat \cup {None}
  /\ j.owner \in Tables
  \* blocks of a corpus: what is known of the true cardinality, the owner table,
  \* and the measured levels
  /\ \A q \in Queries :
       /\ j.corpus[q].actual \in {"positive", "zero", "unknown"}
       /\ j.corpus[q].owner \in Tables \cup {NoTable}
       /\ j.corpus[q].actual = "positive" =>
            \A l \in DOMAIN j.corpus[q].slot : IsSlot(j.corpus[q].slot[l])
       \* census and dmv have one table
       /\ j.bench = "one" => j.corpus[q].owner = j.owner
  /\ j.file # None => IsMaintTable(j.file.fixed) /\ IsMaintTable(j.file.cvar)

\* The largest size of a statistic on any table.
Largest(s) == Max({ SizeOf[t][s[2]][s[3]] : t \in Tables \cup {NoTable} })

ASSUME SgridSearchAssumption ==
  /\ Qids \in Seq(Queries) /\ Qids # << >> /\ TableOrder \in Seq(Tables)
  /\ IsFiniteSet(Columns) /\ IsFiniteSet(Params) /\ Params \subseteq Nat
  /\ NoTable \notin Tables
  /\ \A k \in DOMAIN Lower : Lower[k] \in Tables
  /\ SizeOf \in [Tables \cup {NoTable} -> [Columns -> [Params -> Nat]]]
  /\ Huge \in Nat /\ SumFunction([s \in Stats |-> Largest(s)]) <= Huge
  /\ \A j \in Jobs : IsJob(j)

VARIABLES
  job,      \* the command and what it reads
  phase,    \* "called", "level", "raised" or "written"
  at,       \* the level being worked on, None before the first
  rows,     \* level -> its rows so far
  last,     \* the solved point of the last row: tables paid for, y, q-errors
  argmin    \* per budget: the level chosen

vars == <<job, phase, at, rows, last, argmin>>

-----------------------------------------------------------------------------
(* build_inner_at_level: one block after the other, in lists that run in     *)
(* step.                                                                     *)

Slot(q) == job.corpus[q].slot[at]

\* A true cardinality of zero, or unknown (a NaN baseline), or no slot: no place
\* in the problem.
InProblem(q) == job.corpus[q].actual = "positive" /\ at \in DOMAIN job.corpus[q].slot

\* The places of its queries in the order of the files.
KeptAt == { i \in DOMAIN Qids : InProblem(Qids[i]) }
Kept == { Qids[i] : i \in KeptAt }

\* Mutant: the weight is appended before the NaN check.
WeightedAt_BeforeNaN ==
  { i \in DOMAIN Qids : job.corpus[Qids[i]].actual # "zero"
                           /\ at \in DOMAIN job.corpus[Qids[i]].slot }

\* The queries whose weights out_weights collects.
WeightedAt == KeptAt

\* The entries of a list up to i: the k-th weight goes to the k-th query.
Upto(S, i) == Cardinality({ j \in S : j <= i })
Partner(i) == CHOOSE j \in WeightedAt : Upto(WeightedAt, j) = Upto(KeptAt, i)

\* min(1, lambda_q / floor), times the floor.
Fidelity(lambda) ==
  IF job.floor \in {None, 0} THEN 1
  ELSE IF lambda = None THEN job.floor
  ELSE Min({lambda, job.floor})

\* Only the maintenance curve over several tables passes qid_table.
Tag(q) == IF job.kind = "maint" /\ job.bench = "many" THEN job.corpus[q].owner ELSE NoTable

\* A query's options: the readings below its baseline, by the statistic they are
\* keyed under.
Helps(q, c, p) == LET e == Slot(q).err[c][p] IN e # None /\ e < Slot(q).base
Readings(q) ==
  LET better == { r \in Columns \X Params : Helps(q, r[1], r[2]) }
  IN  [ s \in { <<Tag(q), r[1], r[2]>> : r \in better } |-> Slot(q).err[s[2]][s[3]] ]
Offered == UNION { DOMAIN Readings(q) : q \in Kept }

\* The first block that offers a statistic gives it its size.
FirstReader(s) == Qids[Min({ i \in KeptAt : s \in DOMAIN Readings(Qids[i]) })]
Cost(s) == SizeOf[job.corpus[FirstReader(s)].owner][s[2]][s[3]]

Weight(q) ==
  IF job.kind # "search" THEN 1
  ELSE LET i == CHOOSE k \in KeptAt : Qids[k] = q
       IN  Fidelity(job.corpus[Qids[Partner(i)]].slot[at].lambda)

\* The queries on the tables S, and the call of solve_ilp for them.  The statistics
\* are those of all queries: one that none of the queries on S can use has no part
\* in the objective, and the solver is free to create it.
Asked(S) == { q \in Kept : Tag(q) \in S }
Call(S, bytes, maint, charge) ==
  [class    |-> "sparse", cap |-> 1, ladder |-> << >>, disjoint |-> FALSE,
   bytes    |-> bytes, maint |-> maint, phys |-> Offered,
   table    |-> [s \in Offered |-> s[1]],
   columns  |-> [s \in Offered |-> {s[2]}],
   level    |-> [s \in Offered |-> s[3]],
   cost     |-> [s \in Offered |-> Cost(s)],
   var      |-> [s \in Offered |-> charge[s[1]]],
   base     |-> [q \in Asked(S) |-> Slot(q).base],
   err      |-> [q \in Asked(S) |-> Readings(q)],
   weight   |-> [q \in Asked(S) |-> Weight(q)]]

\* What a call may return: any optimum of its program, decoded; the other queries
\* keep their baselines.
Solutions(in, S) ==
  { [tables |-> S, y |-> f.y,
     qerr |-> [q \in Kept |-> IF q \in Asked(S) THEN DecodedError(in, f.x, q)
                              ELSE Slot(q).base]] : f \in Optimal(in) }

Total(err) == SumFunction(err)

-----------------------------------------------------------------------------
(* Measured maintenance: _maint.json as from_dict reads it. *)

\* Mutant: the keys as they are written.
FromDict_AsWritten(tab) == tab

FromDict(tab) ==
  [ t \in { Lower[k] : k \in DOMAIN tab } |->
      tab[CHOOSE k \in DOMAIN tab : Lower[k] = t] ]

At(tab, t) == IF t \in DOMAIN tab /\ at \in DOMAIN tab[t] THEN tab[t][at] ELSE None
Fixed(t) == At(FromDict(job.file.fixed), t)
CVar(t) == At(FromDict(job.file.cvar), t)
Measured == DOMAIN FromDict(job.file.cvar)

FixedSum(S) == SumFunction([t \in S |-> Fixed(t)])

\* What a created statistic adds per refresh, by its tag; a constant of the
\* corpus unless measured.
CorpusCharge == [ t \in Tables \cup {NoTable} |-> 1 ]
OwnerCharge == [ t \in Tables \cup {NoTable} |-> CVar(job.owner) ]
TableCharge == [ t \in Tables \cup {NoTable} |-> IF t \in Measured THEN CVar(t) ELSE 1 ]

-----------------------------------------------------------------------------
(* The curve of a level, budget by budget. *)

Levels == IF job.kind = "search" THEN job.tiers ELSE <<0, 1>>

Init ==
  /\ job \in Jobs
  /\ phase = "called" /\ at = None /\ last = None /\ argmin = << >>
  /\ rows = [ l \in { Levels[i] : i \in DOMAIN Levels } |-> << >> ]

\* SystemExit for Oracle, MaintNotMeasuredError without a _maint.json.
NotWired == job.kind = "maint" /\ (job.backend = "oracle" \/ job.file = None)

Refuse ==
  /\ phase = "called" /\ NotWired
  /\ phase' = "raised"
  /\ UNCHANGED <<job, at, rows, last, argmin>>

Begin ==
  /\ phase = "called" /\ ~ NotWired
  /\ phase' = "level" /\ at' = Levels[1]
  /\ UNCHANGED <<job, rows, last, argmin>>

\* The means of no query at all; parameters that were not measured; a query
\* dropped from the problem of several tables, a KeyError in base_by_q.
Unsolvable ==
  /\ job.kind # "search"
  /\ \/ Kept = {}
     \/ job.kind = "maint" /\ job.bench = "one" /\ None \in {Fixed(job.owner), CVar(job.owner)}
     \/ job.kind = "maint" /\ job.bench = "many" /\
          \/ Kept # Queries
          \/ \E s \in Offered : s[1] # NoTable /\ CVar(s[1]) = None
          \/ \E t \in Measured : Fixed(t) = None

Fail ==
  /\ phase = "level" /\ Unsolvable
  /\ phase' = "raised"
  /\ UNCHANGED <<job, at, rows, last, argmin>>

More == Len(rows[at]) < Len(job.grid)
Budget == job.grid[Len(rows[at]) + 1]
Solving == phase = "level" /\ ~ Unsolvable /\ More

AddRow(s) ==
  /\ rows' = [rows EXCEPT ![at] =
       Append(@, [budget |-> Budget, total |-> Total(s.qerr), of |-> Cardinality(Kept)])]
  /\ last' = s
  /\ UNCHANGED <<job, phase, at, argmin>>

StoragePoint ==
  /\ Solving /\ job.kind = "storage"
  /\ \E s \in Solutions(Call({NoTable}, Budget, None, CorpusCharge), {NoTable}) : AddRow(s)

\* search_sgrid's row; without a query it says "no-candidates".
SearchLevel ==
  /\ Solving /\ job.kind = "search" /\ Kept # {}
  /\ \E s \in Solutions(Call({NoTable}, Budget, job.maint, CorpusCharge), {NoTable}) : AddRow(s)

Unchanged ==
  [tables |-> {}, y |-> {}, qerr |-> [q \in Kept |-> Slot(q).base]]

NoCandidates ==
  /\ Solving /\ job.kind = "search" /\ Kept = {}
  /\ AddRow(Unchanged)

\* One table: no refresh fits the budget.
BaselinePoint ==
  /\ Solving /\ job.kind = "maint" /\ job.bench = "one"
  /\ Budget <= Fixed(job.owner)
  /\ AddRow(Unchanged)

\* One table: its fixed charge is paid before anything else.
SinglePoint ==
  /\ Solving /\ job.kind = "maint" /\ job.bench = "one"
  /\ Budget > Fixed(job.owner)
  /\ \E s \in Solutions(Call({NoTable}, Huge, Budget - Fixed(job.owner), OwnerCharge),
                        {NoTable}) : AddRow(s)

\* Several tables: for every set of them that the budget can refresh, the best
\* selection the rest of the budget buys.
\* Mutant: the statistics get the whole budget.
ForStatistics_All(S) == Budget

ForStatistics(S) == Budget - FixedSum(S)

Refreshable == { S \in SUBSET Measured : FixedSum(S) <= Budget }
SubsetCall(S) == Call(S, Huge, ForStatistics(S), TableCharge)

\* Nothing is solved for tables without a query.
SubsetPoints(S) ==
  IF Asked(S) = {} THEN {[Unchanged EXCEPT !.tables = S]} ELSE Solutions(SubsetCall(S), S)
Attained(S) == Total((CHOOSE s \in SubsetPoints(S) : TRUE).qerr)

\* The order of combinations(measured_tables, r) for r = 0, 1, ...
Rank(t) == CHOOSE i \in DOMAIN TableOrder : TableOrder[i] = t
Before(S, T) ==
  \/ Cardinality(S) < Cardinality(T)
  \/ /\ Cardinality(S) = Cardinality(T) /\ S # T
     /\ Min({ Rank(t) : t \in S \ T }) < Min({ Rank(t) : t \in T \ S })

\* Mutant: the last of the best sets is kept.
FirstBest_Last(total) ==
  CHOOSE S \in DOMAIN total : \A T \in DOMAIN total :
    total[S] < total[T] \/ (total[S] = total[T] /\ ~ Before(S, T))

\* Only a strict improvement replaces the set found before.
FirstBest(total) ==
  CHOOSE S \in DOMAIN total : \A T \in DOMAIN total :
    total[S] < total[T] \/ (total[S] = total[T] /\ ~ Before(T, S))

MultiPoint ==
  /\ Solving /\ job.kind = "maint" /\ job.bench = "many"
  /\ LET S == FirstBest([ T \in Refreshable |-> Attained(T) ])
     IN \E s \in SubsetPoints(S) : AddRow(s)

-----------------------------------------------------------------------------
(* The better level, budget by budget. *)

NextLevel ==
  /\ phase = "level" /\ ~ Unsolvable /\ ~ More
  /\ \E i \in 1 .. Len(Levels) - 1 : Levels[i] = at /\ at' = Levels[i + 1]
  /\ last' = None
  /\ UNCHANGED <<job, phase, rows, argmin>>

BetterMean(r, s) == r.total * s.of < s.total * r.of

\* Mutant: totals are compared the wrong way round.
ChosenAt_Worst(i) == IF BetterMean(rows[0][i], rows[1][i]) THEN 1 ELSE 0

\* min() keeps the first level among equals.
ChosenAt(i) == IF BetterMean(rows[1][i], rows[0][i]) THEN 1 ELSE 0

Write ==
  /\ phase = "level" /\ ~ Unsolvable /\ ~ More
  /\ at = Levels[Len(Levels)]
  /\ phase' = "written" /\ last' = None
  /\ argmin' = IF job.kind = "search" THEN << >>
               ELSE [ i \in DOMAIN job.grid |-> ChosenAt(i) ]
  /\ UNCHANGED <<job, at, rows>>

Ended == phase \in {"raised", "written"} /\ UNCHANGED vars

Next ==
  \/ Refuse \/ Begin \/ Fail
  \/ StoragePoint \/ SearchLevel \/ NoCandidates \/ BaselinePoint \/ SinglePoint
  \/ MultiPoint \/ NextLevel \/ Write \/ Ended

Spec == Init /\ [][Next]_vars

-----------------------------------------------------------------------------
(* Properties. *)

\* The rows of the levels line up with the grid: the choice of a level reads
\* them by position.  No q-error is below one.
TypeOK ==
  /\ job \in Jobs
  /\ phase \in {"called", "level", "raised", "written"}
  /\ \A l \in DOMAIN rows : \A i \in DOMAIN rows[l] :
       /\ rows[l][i].budget = job.grid[i]
       /\ rows[l][i].total >= rows[l][i].of
  /\ phase = "written" =>
       /\ \A l \in DOMAIN rows : Len(rows[l]) = Len(job.grid)
       /\ \A i \in DOMAIN argmin : argmin[i] \in DOMAIN rows

\* The reference: real statistics, each on the table it was measured on.
Answerable == { q \in Queries : job.corpus[q].actual = "positive" }
RealStats(l) ==
  { s \in Tables \X Columns \X Params : \E q \in Answerable :
      /\ job.corpus[q].owner = s[1] /\ l \in DOMAIN job.corpus[q].slot
      /\ job.corpus[q].slot[l].err[s[2]][s[3]] # None }
Serves(D, q, l) ==
  LET slot == job.corpus[q].slot[l]
  IN  Min({slot.base} \cup { slot.err[s[2]][s[3]] :
            s \in { d \in D : d[1] = job.corpus[q].owner /\ slot.err[d[2]][d[3]] # None } })
OneParameter(D) == \A s, t \in D : s[1] = t[1] /\ s[2] = t[2] => s = t
RealBytes(D) == SumFunction([s \in D |-> SizeOf[s[1]][s[2]][s[3]]])

\* The seconds a refresh takes that keeps D up to date, by the file.
Entry(tab, t) == tab[CHOOSE k \in DOMAIN tab : Lower[k] = t]
FixedSeconds(S, l) == SumFunction([t \in S |-> Entry(job.file.fixed, t)[l]])
Seconds(D, l) ==
  FixedSeconds({ s[1] : s \in D }, l)
    + SumFunction([s \in D |-> Entry(job.file.cvar, s[1])[l]])
\* The file has the time of every table D touches.
Timed(D, l) ==
  \A s \in D : \A tab \in {job.file.fixed, job.file.cvar} :
    \E k \in DOMAIN tab : Lower[k] = s[1] /\ l \in DOMAIN tab[k]
Affordable(l, B) ==
  { D \in SUBSET RealStats(l) : OneParameter(D) /\
      IF job.kind = "maint" THEN Timed(D, l) /\ Seconds(D, l) <= B ELSE RealBytes(D) <= B }
BestTotal(l, B) ==
  Min({ SumFunction([q \in Answerable |-> Serves(D, q, l)]) : D \in Affordable(l, B) })

\* The fixed charges of no tables use the budget up: what is left of it bounds
\* the statistics, and solve_ilp takes a maintenance budget of nothing for none.
Spare(l, B) ==
  job.kind = "maint" =>
    \A S \in SUBSET { Lower[k] : k \in { m \in DOMAIN job.file.fixed :
                                      l \in DOMAIN job.file.fixed[m] } } :
      S # {} => FixedSeconds(S, l) # B

\* Every level was measured for every query; the untagged statistics are those
\* of one table.
Complete == \A q \in Answerable : {0, 1} \subseteq DOMAIN job.corpus[q].slot
OneTable == \A q \in Queries : job.corpus[q].owner = job.owner

\* "argmin_over_level": at every budget, the written mean is over all queries
\* with a q-error and is the best any deployment at any level reaches.
CurveIsBest ==
  phase = "written" /\ job.kind # "search" /\ Complete
    /\ (job.kind = "storage" => OneTable) =>
    \A i \in DOMAIN job.grid : (\A l \in {0, 1} : Spare(l, job.grid[i])) =>
      /\ rows[argmin[i]][i].of = Cardinality(Answerable)
      /\ rows[argmin[i]][i].total = Min({ BestTotal(l, job.grid[i]) : l \in {0, 1} })

\* The deployment behind a row: what was selected on the tables it pays for.
Deployed ==
  { <<IF s[1] = NoTable THEN job.owner ELSE s[1], s[2], s[3]>> :
      s \in { p \in last.y : p[1] \in last.tables } }

\* What is selected on the tables a row pays for can be stored, or refreshed with
\* the fixed charge of every table it touches, within the budget, and it alone
\* serves every query as the row says: whatever else the solver has switched on,
\* on tables nobody pays for, the row does not depend on it.
SelectionFits ==
  last # None /\ job.kind # "search" /\ (job.kind = "storage" => OneTable) =>
    LET B == job.grid[Len(rows[at])]
    IN Spare(at, B) =>
       /\ IF job.kind = "maint" THEN Seconds(Deployed, at) <= B ELSE RealBytes(Deployed) <= B
       /\ \A q \in Kept : last.qerr[q] = Serves(Deployed, q, at)

\* A table is refreshed only if one of its queries gets better for it.
NoIdleTable ==
  last # None /\ job.kind = "maint" /\ job.bench = "many"
    /\ Spare(at, job.grid[Len(rows[at])]) =>
    \A t \in last.tables : \E q \in Kept :
      job.corpus[q].owner = t /\ last.qerr[q] < Slot(q).base

\* A query's improvement counts by its own number of expected sample rows,
\* min(1, lambda_q / floor), whatever queries were dropped around it.
OwnWeight(q) ==
  LET lambda == Slot(q).lambda
  IN  IF job.floor \in {None, 0} THEN 1
      ELSE IF lambda # None /\ lambda < job.floor THEN lambda ELSE job.floor
CreditedByOwnFidelity ==
  last # None /\ job.kind = "search" /\ OneTable /\ job.maint = None =>
    SumFunction([q \in Kept |-> OwnWeight(q) * (Slot(q).base - last.qerr[q])])
      = Max({ SumFunction([q \in Kept |-> OwnWeight(q) * (Slot(q).base - Serves(D, q, at))]) :
                D \in Affordable(at, job.grid[Len(rows[at])]) })

\* "Table matching is case-insensitive": whoever measured everything gets a
\* curve, however _maint.json spells its tables.
MeasuredGetsItsCurve ==
  phase = "raised" =>
    \/ ~ Complete \/ Answerable # Queries
    \/ job.kind = "maint" /\ job.backend = "oracle"
    \/ job.kind = "maint" /\ job.file = None
    \/ job.kind = "maint" /\ \E t \in Tables : \E tab \in {job.file.fixed, job.file.cvar} :
         \A k \in DOMAIN tab : Lower[k] = t => ~ ({0, 1} \subseteq DOMAIN tab[k])
=============================================================================
