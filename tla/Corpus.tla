------------------------------- MODULE Corpus -------------------------------
(***************************************************************************)
(* The result directory of one (workload, backend): a JSON file per query  *)
(* and _meta.json, written by one measurement command after another.  The  *)
(* commands differ in how they decide that a query is done, in how many    *)
(* worker processes they start and in what they do about an exception.     *)
(* write_text truncates the file before it writes it; a command may be     *)
(* killed at any point.                                                    *)
(***************************************************************************)
EXTENDS Integers, FiniteSets

CONSTANTS
  NumQueries,   \* the candidate-bearing queries of the benchmark, in order
  NumWorkers,   \* mirror databases
  Levels,       \* the sampling levels there are
  Grid,         \* the representation parameters of the backend
  MaxParam,     \* level -> its lattice cap
  Pads,         \* parameters a later pad run adds
  Drivers,      \* the commands in use
  MaxFaults,    \* bound on failed queries and killed commands
  Absent, Torn  \* no file, and one that does not parse

Queries == 0 .. NumQueries - 1
Workers == 1 .. NumWorkers
Cells == Levels \X (Grid \cup Pads)

ASSUME CorpusAssumption ==
  /\ NumQueries \in Nat /\ NumWorkers \in Nat \ {0} /\ MaxFaults \in Nat
  /\ Drivers \subseteq {"workload", "sgrid", "mirror", "stceb", "pad"}
  /\ {0, 1} \subseteq Levels
  /\ Grid \subseteq Nat
  \* A backend without a cap has one no parameter reaches; no table is so small
  \* that a level has no parameter at all.
  /\ MaxParam \in [Levels -> Nat]
  /\ \A l \in Levels : \E p \in Grid : p <= MaxParam[l]
  /\ Absent # Torn /\ \A f \in SUBSET Cells : f \notin {Absent, Torn}

NoQuery == -1

VARIABLES
  file,      \* query -> Absent, Torn or the (level, parameter) cells in it
  meta,      \* Absent, Torn or what _meta.json declares: levels, parameters
  newMeta,   \* what the main process is going to write there
  driver,    \* the running command, or "none"
  levels,    \* its --levels
  step,      \* where its main process is
  todo,      \* worker -> the part of its shard it has not looked at
  at,        \* worker -> the query in hand
  writing,   \* the workers whose file is open
  clean,     \* the last command came to its end without an error
  refresh,   \* refresh_sgrid_meta.py: "open", or "last" to write _meta.json
  faults

vars == <<file, meta, newMeta, driver, levels, step, todo, at, writing, clean,
          refresh, faults>>
workVars == <<todo, at, writing>>

Readable(f) == f \notin {Absent, Torn}
LevelsIn(f) == { c[1] : c \in f }

\* A parameter above the cap of a level is not measured there.
Admitted(L) == { c \in L \X Grid : c[2] <= MaxParam[c[1]] }
Declaration(L, P) == [levels |-> L, params |-> P]

\* The parameters some file has a cell for.
Present == UNION { { c[2] : c \in file[q] } : q \in { x \in Queries : Readable(file[x]) } }

Idle == [w \in Workers |-> NoQuery]
NoTodo == [w \in Workers |-> {}]

Init ==
  /\ file = [q \in Queries |-> Absent] /\ meta = Absent /\ newMeta = Absent
  /\ driver = "none" /\ levels = {} /\ step = "idle"
  /\ todo = NoTodo /\ at = Idle /\ writing = {}
  /\ clean = FALSE /\ refresh = "none" /\ faults = 0

Fault == faults < MaxFaults /\ faults' = faults + 1

-----------------------------------------------------------------------------
(* The main process. *)

Parallel == {"mirror", "stceb"}

\* Mutant: every worker is given every query.
Shard_All(d, w) == Queries

\* Round robin over the mirrors; the other commands have one worker.
Shard(d, w) ==
  IF d \in Parallel THEN { q \in Queries : (q % NumWorkers) + 1 = w }
  ELSE IF w = 1 THEN Queries ELSE {}

\* Mutant: _meta.json is only written when there is none.
FirstStep_IfMissing(d) == IF d = "pad" \/ meta # Absent THEN "work" ELSE "meta"

\* The measuring commands declare what they are about to do.
FirstStep(d) == IF d = "pad" THEN "work" ELSE "meta"

\* pad looks at the files there are and leaves _meta.json to its end.
Launch(d, L) ==
  /\ driver = "none"
  /\ driver' = d /\ levels' = (IF d = "pad" THEN {} ELSE L)
  /\ newMeta' = (IF d = "pad" THEN Absent ELSE Declaration(L, Grid))
  /\ step' = FirstStep(d)
  /\ todo' = [w \in Workers |->
                { q \in Shard(d, w) : d = "pad" => file[q] # Absent }]
  /\ clean' = TRUE
  /\ UNCHANGED <<file, meta, at, writing, refresh, faults>>

TruncateMeta ==
  /\ step \in {"meta", "lastMeta"}
  /\ meta' = Torn
  /\ step' = (IF step = "meta" THEN "metaOpen" ELSE "lastMetaOpen")
  /\ UNCHANGED <<file, newMeta, driver, levels, workVars, clean, refresh, faults>>

WriteMeta ==
  /\ step \in {"metaOpen", "lastMetaOpen"}
  /\ meta' = newMeta
  /\ IF step = "metaOpen" THEN step' = "work" /\ UNCHANGED driver
                          ELSE step' = "idle" /\ driver' = "none"
  /\ refresh' = (IF refresh = "open" THEN "open" ELSE "none")
  /\ UNCHANGED <<file, newMeta, levels, workVars, clean, faults>>

Abort ==
  /\ driver' = "none" /\ step' = "idle" /\ clean' = FALSE
  /\ todo' = NoTodo /\ at' = Idle /\ writing' = {}
  /\ UNCHANGED <<file, meta, newMeta, levels, refresh>>

End == step' = "idle" /\ driver' = "none" /\ UNCHANGED newMeta

\* Mutant: the declaration becomes what this run was asked to add.
Merged_AddParams(m) == Declaration(m.levels, Pads)

\* The pad run declares every parameter some file has, beside those declared.
Merged(m) == Declaration(m.levels, m.params \cup Present)

Undeclared == driver = "pad" /\ meta # Absent /\ Merged(meta) # meta

\* measure_sgrid writes _meta.json a second time at its end; a pad run only if
\* that changes it.
WorkDone ==
  /\ step = "work" /\ todo = NoTodo /\ at = Idle
  /\ driver = "pad" => meta # Torn
  /\ \/ /\ driver = "sgrid"
        /\ step' = "lastMeta" /\ UNCHANGED <<driver, newMeta>>
     \/ /\ Undeclared
        /\ newMeta' = Merged(meta)
        /\ step' = "lastMeta" /\ UNCHANGED driver
     \/ driver # "sgrid" /\ ~ Undeclared /\ End
  /\ UNCHANGED <<file, meta, levels, workVars, clean, refresh, faults>>

\* It does not expect a declaration that does not parse.
PadEndStumbles ==
  /\ step = "work" /\ driver = "pad" /\ todo = NoTodo /\ at = Idle
  /\ meta = Torn
  /\ Abort /\ UNCHANGED faults

Kill == driver # "none" /\ Fault /\ Abort

-----------------------------------------------------------------------------
(* A worker. *)

\* Mutant: one level in common is enough.
Covered_AnyLevel(q) ==
  Readable(file[q]) /\ LevelsIn(file[q]) \cap levels # {}

\* Mutant: the levels have to be the same.
Covered_Exact(q) == Readable(file[q]) /\ LevelsIn(file[q]) = levels

\* Mutant: a file that does not parse counts as done.
Covered_TornToo(q) == file[q] = Torn \/ (Readable(file[q]) /\ levels \subseteq LevelsIn(file[q]))

\* The file parses and has every requested level.
Covered(q) == Readable(file[q]) /\ levels \subseteq LevelsIn(file[q])

\* What the pad run finds missing in a readable file.
Missing(q) == (LevelsIn(file[q]) \X Pads) \ file[q]

\* measure_workload_sampling goes by the file's existence, stceb by nothing.
Skipped(q) ==
  CASE driver = "workload" -> file[q] # Absent
    [] driver = "stceb"    -> FALSE
    [] driver = "pad"      -> Readable(file[q]) /\ Missing(q) = {}
    [] OTHER               -> Covered(q)

Look(w, q) ==
  /\ step = "work" /\ at[w] = NoQuery
  /\ q \in todo[w] /\ \A x \in todo[w] : q <= x
  /\ todo' = [todo EXCEPT ![w] = todo[w] \ {q}]

Skip(w, q) ==
  /\ Look(w, q) /\ Skipped(q)
  /\ UNCHANGED <<file, meta, newMeta, driver, levels, step, at, writing, clean, refresh,
                 faults>>

Measure(w, q) ==
  /\ Look(w, q) /\ ~ Skipped(q) /\ (driver = "pad" => file[q] # Torn)
  /\ at' = [at EXCEPT ![w] = q]
  /\ UNCHANGED <<file, meta, newMeta, driver, levels, step, writing, clean, refresh, faults>>

\* The pad run does not expect a file that does not parse.
PadStumbles(q) ==
  /\ step = "work" /\ driver = "pad" /\ q \in todo[1] /\ at[1] = NoQuery
  /\ \A x \in todo[1] : q <= x
  /\ file[q] = Torn
  /\ Abort /\ UNCHANGED faults

\* Most commands log a query's exception and go on; the others end with it.
QueryFails(w) ==
  /\ at[w] # NoQuery /\ w \notin writing /\ Fault
  /\ IF driver \in {"workload", "pad"} THEN Abort
     ELSE /\ at' = [at EXCEPT ![w] = NoQuery] /\ clean' = FALSE
          /\ UNCHANGED <<file, meta, newMeta, driver, levels, step, todo, writing, refresh>>

\* write_text opens the file itself, pad a temporary one.
OpenFile(w) ==
  /\ at[w] # NoQuery /\ w \notin writing
  /\ writing' = writing \cup {w}
  /\ file' = (IF driver = "pad" THEN file ELSE [file EXCEPT ![at[w]] = Torn])
  /\ UNCHANGED <<meta, newMeta, driver, levels, step, todo, at, clean, refresh, faults>>

Padded(q) == file[q] \cup Missing(q)

CloseFile(w) ==
  /\ w \in writing
  /\ file' = [file EXCEPT ![at[w]] = IF driver = "pad" THEN Padded(at[w])
                                     ELSE Admitted(levels)]
  /\ writing' = writing \ {w} /\ at' = [at EXCEPT ![w] = NoQuery]
  /\ UNCHANGED <<meta, newMeta, driver, levels, step, todo, clean, refresh, faults>>

-----------------------------------------------------------------------------
(* refresh_sgrid_meta.py, also while a command is running. *)

RefreshOpens ==
  /\ refresh # "open" /\ refresh' = "open"
  /\ meta' = Torn
  /\ UNCHANGED <<file, newMeta, driver, levels, step, workVars, clean, faults>>

RefreshWrites ==
  /\ refresh = "open" /\ refresh' = "last"
  /\ meta' = Declaration({0, 1}, Grid)
  /\ UNCHANGED <<file, newMeta, driver, levels, step, workVars, clean, faults>>

Command ==
  \/ TruncateMeta \/ WriteMeta \/ WorkDone \/ PadEndStumbles
  \/ \E w \in Workers, q \in Queries : Skip(w, q) \/ Measure(w, q)
  \/ \E q \in Queries : PadStumbles(q)
  \/ \E w \in Workers : OpenFile(w) \/ CloseFile(w)

Next ==
  \/ \E d \in Drivers, L \in (SUBSET Levels) \ {{}} : Launch(d, L)
  \/ Command \/ Kill \/ RefreshOpens \/ RefreshWrites
  \/ \E w \in Workers : QueryFails(w)

Spec == Init /\ [][Next]_vars

\* A command that is not killed goes on, and somebody keeps asking for all
\* levels of the grid.
FairSpec ==
  /\ Spec
  /\ WF_vars(Command) /\ WF_vars(RefreshWrites)
  /\ SF_vars(\E d \in Drivers \cap {"sgrid", "mirror"} : Launch(d, Levels))

-----------------------------------------------------------------------------
(* Properties. *)

\* A file holds everything each of its levels admits.
TypeOK ==
  /\ \A q \in Queries : Readable(file[q]) =>
       file[q] \subseteq Cells /\ Admitted(LevelsIn(file[q])) \subseteq file[q]
  /\ \A m \in {meta, newMeta} : Readable(m) =>
       m.levels \subseteq Levels /\ m.params \subseteq Grid \cup Pads
  /\ levels \subseteq Levels
  /\ todo \in [Workers -> SUBSET Queries] /\ at \in [Workers -> Queries \cup {NoQuery}]
  /\ writing \subseteq Workers

\* No two workers ever have the same file in hand.
OneWriter ==
  \A v, w \in Workers : v # w /\ at[v] # NoQuery => at[v] # at[w]

\* "A file is written only after all requested sampling levels complete, so
\* presence of the file means the query is fully measured": when a measuring
\* command has come to its end without an error, each level it
\* was asked for is in every file, and _meta.json declares them unless a refresh
\* overwrote it.
CleanEndIsComplete ==
  driver = "none" /\ clean /\ levels # {} =>
    /\ refresh = "none" => meta = Declaration(levels, Grid)
    /\ \A q \in Queries : Readable(file[q]) /\ levels \subseteq LevelsIn(file[q])

\* "_meta.param_tiers is meant to state which representation params this workload
\* has actually measured": when a pad run has come to its end, whatever earlier
\* ones were killed in, no file has a parameter that _meta.json does not declare,
\* and it declares none in excess but those of the grid above the cap of every
\* level there is in a file.
CappedOut == { p \in Grid : \A q \in Queries : Readable(file[q]) =>
                            \A l \in LevelsIn(file[q]) : MaxParam[l] < p }
PadDeclaresWhatIsThere ==
  driver = "none" /\ clean /\ levels = {} /\ refresh = "none"
    /\ Readable(meta) /\ Present # {} =>
    Present \subseteq meta.params /\ meta.params \subseteq Present \cup CappedOut

\* Resuming costs nothing that was paid for: a file that has the levels asked
\* for never loses a cell.
MeasuredIsKept ==
  [][ driver # "stceb" =>
        \A q \in Queries : Readable(file[q]) /\ levels \subseteq LevelsIn(file[q]) =>
          Readable(file'[q]) /\ file[q] \subseteq file'[q] ]_vars

\* Torn files, failed queries and killed commands are made up for in the end.
EventuallyComplete ==
  <>(\A q \in Queries : Readable(file[q]) /\ LevelsIn(file[q]) = Levels)

\* Whatever a kill or a concurrent refresh does to it, _meta.json becomes
\* readable again.
MetaHeals == meta = Torn ~> Readable(meta)
=============================================================================
