# TLA+ models of extstats2

`extstats2` measures what extended (multi-column) statistics do to a
database's cardinality estimates, decides which of them to deploy under a
storage and a maintenance budget, and works out the order in which PostgreSQL
must create them. This directory holds TLA+ models of that code, the TLC
configurations that model-check them on small instances, and theorems about them
that TLAPS proves for every value of the constants.

Paths are relative to the repository root; `core/` and `backend/` stand for
`src/extstats2/core/` and `src/extstats2/backend/`.

## 1. The system

| Part | State it keeps | Operations | Talks to |
|---|---|---|---|
| Sampling grid (`config.py`, `backend/postgres.py` 643-711) | none; levels 0 and 1 ask for 30000 and 300000 rows | level -> statistics target, level -> reported rows, cap on parameters | protocols, optimizer |
| PostgreSQL backend (`backend/postgres.py`) | the table's extended statistics, their targets and payloads, the columns' targets, the pin cache | create, drop, list, build (ALTER + ANALYZE), batch build, estimate, sampling state, natural state | a live server |
| Catalog mask (`PgPayloadBackup`) | temporary tables with the saved payloads | snapshot, `mask_all_but`, `restore`, `close` | `pg_statistic_ext_data` |
| Oracle backend (`backend/oracle.py`) | column groups, what the last gather left, the dictionary's row count | gather, drop, list; no mask | a live server |
| Isolation (`Backend.isolate` of both engines) | what was on the table when the block was entered | drop, create, yield, undo | its callers, `scratch/oracle_k2_coinstall.py` |
| Protocol-M, Protocol-A (`core/measure_sampling.py`) | the block under construction, the objects it created | per level: sampling state, clean, baseline, create/build/read/drop | backend, corpus |
| Corpus (`core/measure_io.py`) | one JSON file per query, `_meta.json` | write, read, list | protocols, workers, optimizers |
| Workload drivers (`measure_workload_sampling`, `scratch/measure_sgrid.py`, `scratch/measure_*_parallel.py`) | which queries are still to do | skip, measure, catch, resume; parallel workers on mirror databases | protocols, corpus |
| Constrained optimizer (`core/optimize.py`) | none | build the MILP, solve, decode | a problem built from the corpus |
| Choice of the level (`core/optimize_sgrid.py`, `scratch/measure_milp_curve.py`) | the rows so far | build a level's problem, solve it per budget, keep the better level | corpus, `_maint.json`, optimizer |
| Serving order (`core/optimize_pg_order.py`) | none | preference graph, Kahn sort, feedback-arc cut | deployment scripts |
| Maintenance model (`core/maint_model.py`, `maint_fit.py`, `maint_fit_oracle.py`) | fitted parameters in `_maint.json` | time ANALYZE with and without probes, save, load | backend, budget curves |
| Deployment scripts (`scratch/e2e_deploy_*.py`, `deploy_phase2_order.py`, `e2e_stceb_single.py`) | the mirror | drop, create in order, build, EXPLAIN | backend |
| Candidates (`core/candidates.py`, `predicates.py`, `queries.py`) | none | predicate columns, combinations | drivers |

What is hard in it:

* **The database is the shared state.** Every statement autocommits. The
  sampling state, the leftovers of an earlier failure, the pin cache and the
  masks all live on the same table, and what is read depends on all of them.
  Each call may raise, inside or outside a `try`; each `finally` may raise too.
* **Interruption.** A run is killed and started again; temporary tables die with
  the session, the table and the files stay. The next command may be of
  another kind.
* **The promise of a block.** A candidate's q-error means something only
  relative to the baseline of the same sampling state, and only if no other
  statistic was visible while it was read.
* **Combinatorics.** PostgreSQL serves a query by one applicable statistic, the
  one with the lowest OID. Conflicting preferences make the order a feedback-arc
  problem.
* **Lists in lock-step.** Queries are dropped from a problem while weights,
  baselines, options and row numbers travel in lists of their own.

## 2. Modules

| Module | Models |
|---|---|
| `SGrid` | levels, targets, reported and scanned rows, the slots (candidate, level, parameter) of a query |
| `PgTable` | one table: `installed`, `target`, `payload`, `colTarget`, `colStats`; CREATE, DROP, ALTER, ANALYZE and what EXPLAIN sees |
| `MeasureRun` | what both protocols share: the workload loop, skip and resume, the sampling state, the leftovers, the baseline, the file |
| `MeasureM` | Protocol-M: batch build, backup, mask, read, restore, cleanup |
| `MeasureA` | Protocol-A: one object at a time |
| `Measurement` | the abstract measurement both implement |
| `PgSession` | commands against one table, one after the other, and statements with their effect on the creation order |
| `PgIsolate` | `PostgresBackend.isolate` |
| `MaintFitPg` | `measure_table_maintenance_pg` |
| `DeployPg` | the deployment scripts on PostgreSQL |
| `PgJobs` | the four of them composed |
| `OracleTable` | one Oracle table: column groups, gathers, drops that may be lost, the row count |
| `OracleIsolate` | `OracleBackend.isolate` and the co-installation study |
| `OracleCommands` | Protocol-A over column groups, the fit and the deployment on Oracle |
| `OracleJobs` | the three of them composed |
| `Isolation` | what `isolate` promises; both `PgJobs` and `OracleJobs` implement it |
| `Kahn` | the topological sort both order solvers run |
| `PgOffers` | what both order solvers start from: the q-errors of a query's applicable statistics and the best of them |
| `PgOrder`, `PgOrderFb` | `solve_pg_order`, `solve_pg_order_fb` |
| `IlpProgram` | `build_problem` and the integer program of `solve_ilp`: options, rows, objective, optimal answers, as operators of the arguments of a call |
| `SolveIlp` | the call: rejected, or solved (any optimal answer) and decoded |
| `SgridSearch` | `search_sgrid` and the storage and maintenance curves, over `IlpProgram` |
| `Corpus` | the result directory under the commands that write it |
| `PgTableProofs` | lemmas on ANALYZE, slots and what EXPLAIN sees, cited by the next two |
| `MeasureMProofs`, `MeasureAProofs` | theorems about the two protocols |
| `PgOrderProofs` | theorems about both order solvers |
| `PgJobsProofs`, `OracleJobsProofs` | theorems about the command sequences |
| `CorpusProofs` | theorems about the result directory |
| `IlpProofs` | theorems about `solve_ilp` and the choice of the level, with the lemmas on sums over finite sets they rest on |
| `MC*` | values for the constants a `.cfg` cannot spell out |

`MeasureM` and `MeasureA` both extend `MeasureRun`, which extends `PgTable` and
`SGrid`. Each of them instantiates `Measurement` with the same `file` variable:
the refinement mapping is the identity on the corpus and hides everything else.
`PgSession` extends the same `PgTable`; `PgIsolate`, `MaintFitPg` and `DeployPg`
extend `PgSession`, each with variables of its own, and `PgJobs` runs their
actions over the common table. On the Oracle side the modules extend each other
in a row. `PgIsolate` and `OracleIsolate` instantiate `Isolation`. `PgOrder` and
`PgOrderFb` extend `PgOffers`, which extends `Kahn`; the names of the second begin
with `Fb` where both have one, so that one module can reason about both. `SolveIlp` and
`SgridSearch` both extend `IlpProgram`: a call is a record, and `SgridSearch` builds
one per level, budget and set of tables, so that the selection problem of a level is
solved by the same program. The names of `SolveIlp` begin with `Ilp` where both have
one, and `IlpProofs` reasons about both.
`Corpus` takes over where `MeasureRun` stops: it looks at one query as one
`Measure` ... `CloseFile` episode and at the files of many commands and
processes instead.

An operator whose comment begins with *Mutant:* is a deliberately wrong variant
of the definition that follows it. No specification uses it; swapping it in
must break the property it is meant for.

### How the measurement models correspond to the code

* A **statistic object** is a slot: `(cand, level, param)`. Object names are
  injective in that triple. `Foreign` statistics are those somebody else left on
  the table; the first thing the tool does about them is what `DropLeftovers`
  does.
* All regular columns of the table are always ALTERed together, so one value
  `colTarget` stands for their targets and `colStats` for what the last ANALYZE
  stored for them. `_set_all_columns_target` swallows errors of single columns;
  that is not modelled: it sets all of them or raises.
* A **payload** is `[param, rows]`: the target it was built with and the rows
  the ANALYZE scanned. ANALYZE reads `300 * (deepest target on the table)` rows,
  whatever statistic asks for it; a statistic without a target of its own
  follows the columns. A candidate in `MayBeEmpty` may be left with a NULL
  payload because the sample held no MCV item for it.
* A **reading** is what EXPLAIN could see: `colStats` and every non-NULL payload.
  Estimates and q-errors are functions of it, so two readings that agree would
  have given the same numbers.
* **Raising calls** are actions of their own (`...Raises`), enabled while
  `faults < MaxFaults`, and leave the table in any state the call can leave
  behind: targets set but no ANALYZE, some objects dropped and others not, some
  payloads masked. `raising` stands for the exception that travels through the
  `finally` blocks. `Crash` can happen at every step.
* The driver is `scratch/measure_sgrid.py`, whose loop catches a query's
  exception and goes on, and which drops all statistics and restores the natural
  state at its end. `measure_workload_sampling` has the same loop without the
  catch; its runs are the ones here that crash at that point.
* `pinned` is the `_pinned_single` cache: it belongs to the process, so `Resume`
  clears it.

### How the command sequences on PostgreSQL correspond to the code

`job` is the command that runs and `pc` where it is in it; `todo` is what the
loop it is in still has to handle, in any order where the code iterates a set.
`born` lists what is on the table by creation, which is by OID: `create_stat`
drops and creates, so a re-created statistic goes to the end. `Interrupted`
ends a command at any step and leaves the table as it is; only the next command
sees it. What is in a process's memory, the pin cache included, goes with it.

* **isolate**: `Isolate` reads the table, `DropUnkept` and `CreateKept` run before
  the `try`, `LeaveBody` is the end of the block whether it raised or not. The
  rebuild is one batch build of what had been dropped, at the level `list_stats`
  gave it, which is 0.
* **fit**: an *arm* is what the timed ANALYZE maintains and how many rows it reads.
  Seconds are a function of that; the median of the repeats and the quotient by
  the number of probes are arithmetic on them.
* **deployment**: `census`, `order` and `stceb` name the three scripts. They differ
  in whether the sampling state is entered, in what creates and ANALYZEs, and so
  in the target the columns have when the workload is EXPLAINed. `Server` is the
  planner's choice: the first applicable statistic by OID that has data.

### How the Oracle models correspond to the code

A gather re-gathers every group on the table: those it names at SIZE 254, the
others, being columns like any other, at SIZE AUTO. `Depth` is `_percent_for`:
while the dictionary knows no row count the gather reads everything, after that
`s_rows` capped by it. `drop_expression` swallows every exception, so `DropGroup`
may leave the group where it is, up to `MaxLost` times; `intact` remembers
whether that happened to the running command. `caller` is any block under
`isolate`, `k2` the study that reads a query under {A}, {A, B} and {B},
`measure` and `worker` are Protocol-A in place and on a fresh copy of the table,
`fit` and `deploy` what they say.

### How the serving-order models correspond to the code

`offers` is the input: for each query its applicable statistics with the q-error
each was measured to have, or `Unmeasured`. `PopSource` is one iteration of
Kahn's loop with its heap (smallest index first). `PgOrder` appends the rest by
index when the sort stalls. `PgOrderFb` keeps one edge per query that asks for
it (parallel edges), removes one copy of a cheapest edge of the residue and
sorts again; the code breaks ties between edges of equal weight by the iteration
order of a set and of a list, the model by nondeterministic choice. `Served` is
PostgreSQL's rule as both solvers compute it: the applicable statistic created
first.

### How the corpus model corresponds to the code

A file is `Absent`, `Torn` (it exists and does not parse: `write_text` truncates
first) or the set of its `(level, parameter)` cells. A measurement writes those cells of
its levels that are `Admitted`: a parameter above a level's lattice cap (`MaxParam`) is
skipped there, while `_meta.json` declares the whole ladder at any levels. `MCCorpus` has
PostgreSQL's caps, 100 and 1000, over the parameters 50 and 500, so that level 0 leaves out
500. `pad` knows no cap. `driver` is the one command
running; `Skipped` says how each decides that a query is done:

| `driver` | Command | Skips a query if | Exception in a query |
|---|---|---|---|
| `workload` | `measure_workload_sampling` | the file exists | ends the command |
| `sgrid` | `scratch/measure_sgrid.py` | it parses and has all levels | logged; `_meta.json` written again at the end |
| `mirror` | `scratch/measure_dmv_parallel.py`, `measure_census_parallel.py` | it parses and has all levels | logged |
| `stceb` | `scratch/measure_stceb_parallel.py` | never | logged |
| `pad` | `scratch/measure_pad_params.py` | it has the added parameters at each of its levels | ends the command |

`mirror` and `stceb` run one worker process per mirror database; queries are dealt
round robin. `pad` writes a temporary file and renames it, and at its end
declares in `_meta.json` the parameters the files have. A command can be killed
at every step; a single worker of a pool is not killed on its own.
`refresh_sgrid_meta.py` may run beside any command. `Merged`, `FirstStep` and
`Covered` are the decisions the mutants get wrong.

### How the optimizer models correspond to the code

`in` is the record of the arguments of one call of `solve_ilp`; `SolveIlp` keeps its
own in `call`. q-errors are integers: plain ones with the exact
arithmetic objective, logarithms with the multiplicative surrogate, so sums of
`Gain` are the code's sums. `Feasible` lists the 0/1 vectors `y` (created), `x`
(query -> selected), `w` (table reached a level) that satisfy the rows; `Solve`
returns *any* optimal one, because `scipy.optimize.milp` promises no more.
`Decode` is the code after the solver call, including the charge it reads off
`w`. The reference in the properties never mentions rows: it enumerates the
deployments a budget allows, with what each query can make of each.

`SgridSearch` reads a corpus level by level. `KeptAt` and `WeightedAt` are
the places of the files whose entries are in the lists the problem builder appends to,
queries and weights; `Partner` is the place the weight of a query comes from when the
lists are read in step. A query without a positive actual or without the level drops
out of both. A statistic carries the
tag of its query's table only where `qid_table` is passed, and its size is the one
of the first query that offers it. The weights `min(1, lambda / floor)` are scaled
by the floor to stay whole. A row keeps the total and the number of queries of its
mean, so means are compared as `total / of`. Subsets of tables are tried in the
order of `combinations`, and the first strictly best is kept; the solver may
return any optimum for it. Every subset is solved with the statistics of all queries
(`phys`), as the code does: those that none of its queries can use, on tables whose fixed
charge is not paid or on no table, are columns without a coefficient in the objective, and
the model's solver may create them as long as the budget has room. The row pays for
`last.tables` only; what was created elsewhere is in `last.y` and serves nobody.
The reference deploys real statistics, each on the table it was measured on.


## 3. What the runs check

Every property of a passing run has a mutant that breaks it.

| Run | Question | Bounds |
|---|---|---|
| `measure_m` | Does Protocol-M deliver what `Measurement` promises, is a candidate read alone, with its own payload and in its baseline's column state, is a baseline read at the level's depth and its reported rows the scanned ones, is every query measured in the end? | 2 queries, 2 candidates, levels 0 and 1, parameters 50 and 500, N = 150000, so that level 1 reads the whole table; one foreign statistic with or without a target; 2 faults |
| `measure_a` | The same contract for Protocol-A, and never two objects at once | N = 2400000, parameters 50 and 1000, 1 fault |
| `pg_jobs` | Does `isolate` keep its contract, is the fitted charge that of the probes, is a deployment served in the planned order and in the state its statistics were measured in, whatever earlier commands left? | 4 commands, 3 of them cut short; 2 candidates, 2 queries, 1 probe per level, one alien statistic |
| `oracle_jobs` | Does each command on Oracle read, time or deploy exactly what it records, does `isolate` keep its contract? | 4 commands of 6 kinds, 3 faults, 1 lost drop, 3 groups, a table known or not known to the dictionary |
| `pg_order` | Is the order complete, does it serve as promised, is the flag exact? | 3 statistics, 3 queries, errors {1, 2} or none: every input |
| `pg_order_fb` | Does it give up only what was cut, is nothing cut without need, does cutting end with a complete order? | the same inputs; queries are numbers with ascending offers, which leaves one of each set of renamings and, unlike a symmetry set, is sound for liveness |
| `solve_ilp` | Does the integer program select the best deployment the budgets allow, does the cap leave each query its best created statistic, does the reported maintenance cover the deployment? | 4 candidates on 2 tables, 2 queries, the calls in `MCSolveIlp`: both objectives, caps, a ladder, disjointness, weights |
| `search` | Is every point of a curve the best any real deployment at any level reaches, over the same queries; does what it selects on the tables it pays for fit its budget and suffice for its q-errors, does it weigh each query by its own fidelity, refresh no table in vain; does everybody who measured everything get a curve? | 3 queries, 2 column sets at 2 parameters, 2 tables, 2 levels; whole corpora, interrupted ones and ones with queries of zero or unknown cardinality |
| `corpus` | Is a file ever written by two workers, does a command that ends without an error leave every query measured at the declared levels, does resuming lose paid-for cells, does `_meta.json` declare what padding added, does a torn one become readable again, is everything measured in the end? | 2 queries, 2 workers, 2 levels of which one caps a parameter off, 2 faults, all commands but `workload`, refreshes at any time |

Three more runs, `small_table_pairing`, `corpus_workload` and `fit_restart`, expect a
violation and are under *Divergences*. The `TypeOK` of a
module says what its variables range over; `measure_m` checks the one the proofs start from.

The bounds are enough for the interesting cases to happen. Two levels and two
parameters give slots admissible at one level and not at the other; two
candidates give a mask something to hide; two queries with different candidates
give a leftover a later victim; two faults let a failure happen while another
one's consequences are on the table, for instance a crash in a masked state
followed by a raising DROP. Four commands let three be cut short, each over what
the ones before it have left, and a fourth one meet all of it; `isolate`'s contract
holds again for the first block after such a mishap. Three
statistics give the sort a two-cycle with something downstream of it, and three
queries give parallel edges. Three queries give a dropped one a neighbour on
each side in the lists that run in lock-step.

Bounds that carry weight:

* `MaxLost = 1`: with two lost drops in one command, `ReadsExactlyKeep` and
  `DeployedAsSelected` no longer hold. The properties say "at most one".
* `BaselineAtLevelDepth` in `measure_m` speaks of runs in which nothing has failed
  and, at the first level, not of a run's first query: those are scanned before
  the leftovers are dropped. N = 150000 is a multiple of 300.
* The maintenance grid in `search` has a budget, 5, that the fixed charges of some
  files use up exactly. Nothing is then left for the statistics, and a maintenance
  budget of 0 is no budget to `solve_ilp` (below): what it selects is not bounded.
  `CurveIsBest`, `SelectionFits` and `NoIdleTable` except such budgets by name,
  `Spare`; without the exception TLC finds `SelectionFits` violated. The storage
  curve is compared with its reference where all queries are on one table
  (`OneTable`), and the weighted credit of `search_sgrid` where, besides, no additive
  maintenance budget is given, because the reference knows bytes only.
* `SelectionFits` speaks of what is selected on the tables a row pays for. The solver may
  have created more, on tables nobody refreshes; the property adds that the row's
  q-errors are those of the paid part alone, so the rest can be left out.
* `PadDeclaresWhatIsThere` lets `_meta.json` declare, beside what the files have, a
  parameter of the grid above the cap of every level in a file (`CappedOut`): that much
  the code leaves declared (*Divergences*), and nothing else.
* `MarginalIsOfTheProbes` speaks of fits that found no probes of an earlier one
  (PostgreSQL), or lost no drop (Oracle); `fit_restart` shows the other case.
* `DeployedInLevelState` is about `deploy_phase2_order.py`, the one script that enters
  the sampling state and leaves the columns alone.
* `SameDepthPairing` speaks of tables the dictionary knew the size of when the
  command began.

**Fairness.** `FairSpec` of `MeasureM` asks for weak fairness of the workload
and of the protocol: a process that is not killed keeps executing, and an
operator starts an interrupted run again. Faults are bounded and never forced.
`AscendingSpec` of `MCPgOrderFb` asks that a running function keeps running.
`FairSpec` of `Corpus` asks that a command, or a refresh, that is not killed goes
on, and (strong fairness, since commands of other people may always be in the
way) that somebody starts `measure_sgrid` or a mirror run with all levels again
and again. The second is about the operator, not about the code. The other runs
check safety only and assume no fairness; that their commands do not get stuck is
the deadlock check, which is on in all of them.

**Divergences.** Three runs show a place where the code does not do what a
docstring or comment of the repository says:

| Run | What it shows |
|---|---|
| `small_table_pairing` | With N < 30000 the first batch build moves the columns to the pin 100 after the baseline was read at N/300 |
| `corpus_workload` | A file torn by a kill exists, so the resumed run skips it and ends without an error; the same happens to a file of other levels |
| `fit_restart` | The fit does not look for probes of an earlier one; after a kill its "bare" arm maintains them. The table starts without any statistic: with `MaxFaults = 0` the property holds, and in the trace the first fit is killed between CREATE and the timing |

Met while modelling and not run:

* Measurement. Leftovers are dropped after the sampling state's ANALYZE
  (`core/measure_sampling.py` 215), so after a failure they deepen the scan behind
  the next baseline; N/300 is truncated, so with N = 100000 level 1 reads 99900 rows
  and reports 100000. The pin cache makes `restore_natural_stats`
  (`backend/postgres.py` 347, against 342) leave the last level's target.
* Isolation. PostgreSQL's restore gives statistics back at level 0 and the default
  kinds, without the target and payload they had (`backend/postgres.py` 484-485,
  `backend/base.py` 103-104 say "restore exactly"). Oracle's restores each at
  SIZE 254 and the following gathers turn the earlier ones to SIZE AUTO; two kept
  groups are built one by one in the same way, which
  `scratch/e2e_deploy_oracle.py` 112-115 warns against. `Isolation` therefore
  speaks of which statistics are present and not of their contents.
* Oracle. `restore_natural_stats` says SIZE 1 and gathers SIZE AUTO
  (`backend/oracle.py` 322-331). A table that was never gathered is read in full by
  the first gather, so its first baseline and candidates have different depths. The
  co-installation study iterates levels 0, 1 and 2, the ladder has 0 and 1: a
  KeyError at the third, before results are written (the model has two levels).
  The fit drops a deployed group that equals one of its probe pairs.
* Deployment. `e2e_deploy_oracle.py` gathers all chosen groups at once, where its
  docstring (14-15) has one gather per group. `e2e_deploy_census.py` builds in a fresh
  process, whose batch pins the columns to 100 whatever the level, against its docstring
  (12-14).
  `e2e_order_deploy.py` 46 and `e2e_stceb_single.py` pair predictions with queries by
  position although the problem drops queries; the latter (71) resolves a column
  set chosen on two tables to the last one.
* Optimizer. A maintenance budget of 0 without a profile adds no row
  (`core/optimize.py` 471, against 305-306), and `measure_milp_curve.py` (224) passes
  0 for several tables whose fixed charges are exactly the budget. With slack in the
  budget an optimal solution may leave an indicator on, and `total_maint` then exceeds
  what the deployment costs; `ReportCoversMaintenance` states what does hold.
* Curves. Without `qid_table` all statistics share the empty tag, so equal column
  sets of two tables become one statistic with the first one's size; the
  multi-table maintenance curve raises KeyError as soon as a query was dropped, before the
  shifted positions of `opts` and `q_table` (202-221) can do harm;
  levels of an interrupted corpus are compared over different sets of queries; the
  `maint_sec` of a row omits the fixed charge, and with `n_selected` counts what the
  solver created on tables nobody pays for.
* Order. `solve_pg_order_fb` draws no edge to an applicable statistic without a
  q-error, so such a statistic may serve a query although nothing was cut;
  `solve_pg_order` draws those edges. The residue of a stalled sort also holds what
  is downstream of a cycle, so an edge on no cycle may be cut (240-244, against
  231-232); `OnlyCutPreferencesYield` and `CutsIffCyclic` bound what that can do.
* Declared parameters. A pad run declares what was declared before and whatever else some
  file has (`measure_pad_params.py` 213-214), although its comment (195-198) says the
  declaration "should equal the union over every present candidate cell". A measurement
  of level 0 alone makes the difference: it skips the parameters above the level's lattice
  cap (`core/measure_sampling.py` 129-130) and declares all. With `meta.params = Present`
  in the place of the last line of `PadDeclaresWhatIsThere` TLC finds the run:
  `sgrid --levels 0` leaves {50} in the file and {50, 500} declared, and after the pad run
  {10, 50, 500} is declared over {10, 50}.
* Statistics of no table. `maint_multitable` passes the statistics of all queries to the
  solve of every set of tables (225), and an optimal solution may create one that has no
  table, although such statistics are said to be "never selected" (187-189). TLC finds one
  in `last.y` of the `search` run's model. They serve nobody (`SelectionFits`) but enter
  `n_selected` and `total_maint` (230).
* Files. `write_meta` truncates and then writes, so the refresh is not atomic,
  although its docstring says it is; `refresh` in `Corpus` has the two steps.

## 4. What is proved

All theorems are about the specifications as TLC checks them, for any choice
of the constants the named assumptions allow. Those assumptions say no more than
the code does: levels of a grid are distinct and 0 is one of them, statistics and
queries are finite in number, an unmeasured q-error is not a number, a plain q-error
is at least one, `_meta.json` declares a level once, a maintenance file spells a table
one way, and the storage budget that stands for none is at least the bytes of
everything. Each
inductive invariant was checked by TLC on the bounds of its run before it was
proved.

**Protocol-M** (`MeasureMProofs`)

* `TypeCorrect`: `TypeOK` of `MeasureM`.
* `MaskIsolation`: while a candidate is read nothing else is visible. The
  invariant is inductive only together with what the code silently relies on:
  from the baseline on, only objects of this level in `made` are on the table
  (`DropLeftovers` removed everything else), and while a candidate is read every
  payload but its own is NULL. This holds for every fault budget.
* `Pairing`, `UnmaskedReading`, `Refinement`: these need a proviso,
  `PinMatchesFirstLevel`: the pin is the target of the first level, and the grid
  has a parameter at or below it. It is a hypothesis of the theorems and not an
  assumption of the model, because the code does not guarantee it:
  `small_table_pairing` is exactly the case where it fails. The inductive
  invariant `ContractInv` says, position by position in the protocol, what the
  columns' target is, that what is on the table is what `made` says, that the
  backup and the table together hold every payload the batch ANALYZE built, and
  that the part of the block read so far is what `Measurement` asks for. The
  step proof shows that only `WriteQueryMeasure` changes `file`, and that it
  then writes a complete block.
* `BaselineRowsAlways`, `BaselineDepth`: as long as nothing has failed, a baseline is read
  from a scan of exactly 300 rows per unit of the level's target, except at the first
  level of a run's first query. That the *reported* rows are those needs N to be a
  multiple of 300; for every N the report is less than 300 rows too high (lemma
  `ReportedRows`). The invariant `SweptInv` says that, until something fails, no
  statistic is on the table when a later level or query enters its sampling state, so
  that nothing but the columns decides how deep its ANALYZE scans.

**Protocol-A** (`MeasureAProofs`)

* `OneObject`, `Pairing`, `Refinement`: never two objects on the table, each read in its
  baseline's column state, and the files are what `Measurement` asks for. There is no
  proviso here: Protocol-A alters no column between baseline and reading, so the pin
  cannot disturb it. `AloneInv` follows the object from CREATE to DROP: before the
  next one the table is clear, and the readings recorded so far are exactly those of the
  slots handled so far.

**Serving order** (`PgOrderProofs`)

* `CreatesAll`, `SortedServes`, `AcyclicServes`, `FlagExact` about
  `solve_pg_order`, for any number of statistics and queries. The invariant
  behind them relates `indeg` to the edges from statistics not placed yet, the
  heap to the zero in-degrees, and says that along an edge the order never
  places the head before the tail. `FlagExact` uses that a stalled sort leaves a
  set in which everybody waits for somebody in it, and that a set like that has
  no first member in a complete order. `AcyclicServes` is the case of
  `SortedServes` in which everything was placed.
* `FbCreatesAll`, `FbCutsExact`, `FbOnlyCutYield` about `solve_pg_order_fb`. The same
  invariant `KahnInv` holds of every sort between two cuts, on the edges the cuts
  left over; that something was cut implies a cycle, because the first cut found a
  stalled sort on all edges. An edge still in the graph is one the order respects.
  `FbSomethingToCut`: a stalled sort always leaves an edge to cut, so the code's `break`
  without one, and the append behind it, are never reached. That the cutting ends
  is liveness and stays with TLC.

**Command sequences** (`PgJobsProofs`, `OracleJobsProofs`)

* `IsolationKept`, in both: the command sequences
  implement `Isolation`. The invariant `OnTable` says, position by position in
  `isolate`, what is on the table in terms of what was there on entry, what is to be
  kept and what the current loop has still to do. Everything else is framing: no other
  command is ever at one of those positions, so its steps are `Elsewhere`, and a step
  that raises, kills or loses a drop is counted in `mishaps` and abandons the block. On
  Oracle `OnTable` holds only while the block's command has lost no drop (`intact`),
  and the proof also needs that a gather removes no group and adds only those it names.
  The contract is about the set of statistics, not their contents (*Divergences*).
* PostgreSQL: `MarginalHolds`, `DeployedAsOrderedHolds`, `DeployedInLevelStateHolds`, for any
  number of commands, each cut short anywhere. `DeployInv` says what a deployment has
  created so far and in which order it was born, `FitInv` which probes a fit has on
  the table in each arm, `MarginalPart` what the recorded arms maintained, unless
  the fit found probes of an earlier one.
* Oracle: `ReadsExactlyKeepAlways`, `DeployedAsSelectedAlways` (while a command has lost at
  most one drop: with two the code's own second attempt does not make up for them),
  `MeasuredAloneAlways`, `MarginalAlways`, `SameDepthAlways`. The last one excepts a
  co-installation study that lost a drop, because its undo then gathers the group
  again at level 0. The invariant `OracleInv` relates what is on the table to the
  position in the command, to what the loop has still to drop, and to how many drops
  were lost.

**Corpus** (`CorpusProofs`)

* `FilesHaveOneWriter`, `ResumingKeepsFiles`, `CleanEnd`, for any number
  of queries, workers, levels and faults. They rest on one invariant: everybody works
  within his shard, shards are disjoint, and what a worker has in hand is open, or was
  missing a level when he took it and still is, because nobody else touches it.
  `CleanEnd` adds that, as long as nothing has failed, every query is in somebody's
  `todo`, in hand, or has its levels. It has the hypothesis that
  `measure_workload_sampling` is not among the commands; `corpus_workload` shows why.
* `PadDeclares`: after a padding run that ended well `_meta.json` declares every parameter
  some file has, whatever earlier ones were killed in, and in excess only parameters of the
  grid that the cap of every level in a file leaves out. `HonestInv` needs that every file
  has what each of its levels admits of the grid (`PresentOrCapped`: a parameter of the grid
  is in a file or above all caps), that a command which replaces padded files has withdrawn
  the declaration of their pads before, and that the last thing a padding run writes
  covers what it found in the files. That nothing at all is declared in excess is false
  (*Divergences*).

**Optimizer** (`IlpProofs`)

* `SelectsTheBest`: every optimal solution of the program decodes to a selection worth as
  much as the best deployment the budgets admit, for any candidates, workload,
  objective, cap, ladders and weights. The proof compares the program with the
  reference in two steps. *What may be created is what may be deployed*: the
  indicators a deployment switches on are, per table, an unbroken row from level 0 to
  its highest level, their increments telescope to the ladder's price of that level,
  and more indicators charge no less because the ladder was checked to be monotone.
  *What is credited is what it is worth*: no selection beats the best usable set of
  each query, and one selection attains them all. It has one proviso, a maintenance
  budget of 0 without a profile, which the code reads as no budget.
* `ServedByTheBest`: an optimal solution that left a query with a weight short of the best
  created statistic would lose credit, because two sums of which no term falls and one
  rises differ.
* `ReportCoversAlways`: the level `total_maint` reads off the indicators of a table is at
  least the highest created on it, whatever else the solver switched on.
* `IlpTypes`: the decoding subtracts and still stays at or above zero.

The inductive invariant `IlpInv` is short (an answer is one the solver may give to the
call, a result is what it decodes to); the work is in the lemmas about one
call. They need facts about sums over arbitrary finite sets: a sum unfolds at any
member, compares term by term, splits over disjoint rows, telescopes. None of
them is in the libraries. Each is proved by its least counterexample (the smallest
subset, `LeastSubset`, or number, `LeastNat`, that violates it), because an
induction rule takes the statement as a parameter and a well-founded order does not.

**Choice of the level** (`IlpProofs`)

* `CurveAlwaysBest`: at every budget the curve's mean is over all queries with a q-error
  and is the least any deployment reaches at any level, if every query was measured
  at both levels, the fixed charges leave something of the budget (`Spare`) and, for
  the storage curve, all queries are on one table.
* `SelectionAlwaysFits`: what is selected on the tables a row pays for can be stored, or
  refreshed with the fixed charges of every table it touches, within the budget, and it
  alone serves every query as the row says, under the last two of these provisos,
  whatever was measured and whichever optimum the solver returned. The solver sees the
  statistics of all tables; `IdleColumns` shows that one which no query of the call can
  use may be struck from an optimal solution: the rest is feasible, is worth as much, and
  is optimal for the call without such columns. The later lemmas are about that call
  (`PaidCall`), and `InvLast` carries along the run not the row the solver gave but what
  is left of it on the tables paid for (`Paid`).
* `NoIdleTableEver`: over several tables, a table is paid for only if one of its queries
  gets better.
* `OwnFidelityAlways`: `search_sgrid` weighs every query by its own expected sample rows
  and no selection within the bytes is worth more.
* `MeasuredAlwaysGetsItsCurve`: whoever measured every query and every table at both
  levels gets a curve, however `_maint.json` spells the tables.
* `SearchTypes`: `TypeOK` of `SgridSearch`.

They build on the lemmas behind `SelectsTheBest`, once per call. First, the statistics
of a call (untagged, or tagged by table, priced by the first query that offers them)
and the real ones, each on its table, correspond one to one, and bytes, seconds
and what a query makes of them carry over; this is where `OneTable` is used. Hence an
optimal point credits exactly what its deployment serves, and no affordable
deployment serves better. Over several tables the set that is kept is first among the
best in the order of `combinations`, which is a strict order; the set without an idle
table attains the same total and comes earlier. The weights of `search_sgrid` reach
their own queries because both lists drop the same ones (`PartnerIsSelf`). The
invariant `SearchInv` then carries this along the run: the levels before the current
one have all their rows, each row reaches the best total of its level and budget
(`InvRows`), and the last point is worthy of its own (`InvLast`). It is inductive
because what a row is compared with depends on `job` and the level only, and no step
changes `job`. `CurveIsBest` needs all of it: the choice between levels compares rows
by position, written at different times.

`PgTableProofs` holds the lemmas both protocols cite: the deepest demanded target exists
and bounds the scan, the slots of a level, what a reading contains.

**Only model-checked**

* Liveness: `EventuallyMeasured`, `Terminates`, `EventuallyComplete`, `MetaHeals`.

Every safety and action property of a passing run is stated by a theorem, some with
the provisos named above.

## 5. What is not modelled

* More than one table at a time on a server. A query's candidates are all on its own
  table; `e2e_stceb_single.py`'s grouping by table is left out with it.
* A background ANALYZE, or any other session, in the middle of a command. The code
  excludes nobody; every property of the measurement and command models assumes that
  the tool is alone on the table.
* Values: estimates, q-errors of single queries, sizes in bytes, seconds. The
  arithmetic over them (medians, quotients, least squares, the geometric mean and
  the maximum reported beside the mean, the tier-cost model) decides nothing that
  a property is about.
* SQL text, parsing of predicates, naming of objects, candidate generation: pure text
  and set functions without state.
* Driver catalog, capabilities, configuration, command line, loaders of benchmarks:
  declarations and file reading.
* Analysis, plot and probe scripts, which keep no state between calls.
* The solver itself; it is any choice among the optimal solutions.
* `--limit` and `--only`, which make a command look at some queries only, and the
  death of a single worker of a pool.

## 6. Plan

1. **Two tables** on one server, for the deployment scripts that group by table.
2. **A second session** on the table: which properties survive a background ANALYZE at
   which points of a command.
