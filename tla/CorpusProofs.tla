---------------------------- MODULE CorpusProofs ----------------------------
(***************************************************************************)
(* What the result directory can be relied on for, whatever commands write *)
(* it, however many workers they start and wherever they are killed.       *)
(***************************************************************************)
EXTENDS Corpus, TLAPS

TypeInv ==
  /\ file \in [Queries -> (SUBSET Cells) \cup {Absent, Torn}]
  /\ levels \subseteq Levels /\ driver \in Drivers \cup {"none"}
  /\ todo \in [Workers -> SUBSET Queries]
  /\ at \in [Workers -> Queries \cup {NoQuery}]
  /\ writing \subseteq Workers /\ \A w \in writing : at[w] # NoQuery

\* Queries are in hand only while the command works.
PositionInv ==
  /\ step \in {"idle", "meta", "metaOpen", "work", "lastMeta", "lastMetaOpen"}
  /\ driver = "none" <=> step = "idle"
  /\ step # "work" => at = Idle /\ writing = {}
  /\ step \in {"idle", "lastMeta", "lastMetaOpen"} => todo = NoTodo

\* Everybody keeps to his shard.
ShardInv ==
  \A w \in Workers :
    /\ todo[w] \subseteq Shard(driver, w)
    /\ at[w] # NoQuery => at[w] \in Shard(driver, w)

HasLevels(q) == Readable(file[q]) /\ levels \subseteq LevelsIn(file[q])

\* What a command has in hand had to be measured: it is open, or lacks a level,
\* unless the command pads it or does not look.
InHandInv ==
  /\ driver = "pad" => \A w \in Workers : \A q \in todo[w] : file[q] # Absent
  /\ \A w \in Workers : at[w] # NoQuery =>
       IF driver = "pad" THEN Readable(file[at[w]])
       ELSE IF w \in writing THEN file[at[w]] = Torn
       ELSE driver = "stceb" \/ ~ HasLevels(at[w])

\* As long as nothing has gone wrong, a query is still to do or has its levels.
ProgressInv ==
  clean /\ levels # {} =>
    \A q \in Queries : \/ HasLevels(q)
                       \/ \E w \in Workers : q \in todo[w] \/ at[w] = q

\* What the command declares is on file, unless a refresh came later.
MetaInv ==
  levels # {} =>
    /\ driver # "pad"
    /\ newMeta = Declaration(levels, Grid)
    /\ refresh = "none" /\ (step \in {"work", "lastMeta"} \/ (step = "idle" /\ clean))
         => meta = newMeta

Base == TypeInv /\ PositionInv

-----------------------------------------------------------------------------
(* The set-up. *)

LEMMA NoQueryIsNone == NoQuery \notin Queries
BY DEF NoQuery, Queries

LEMMA ShardType == ASSUME NEW d, NEW w \in Workers PROVE Shard(d, w) \subseteq Queries
BY DEF Shard

\* Two workers never share a query.
LEMMA ShardsDisjoint ==
  ASSUME NEW d, NEW v \in Workers, NEW w \in Workers, v # w
  PROVE  Shard(d, v) \cap Shard(d, w) = {}
BY DEF Shard

\* Every query is in somebody's shard.
LEMMA ShardsCover ==
  ASSUME NEW d, NEW q \in Queries
  PROVE  \E w \in Workers : q \in Shard(d, w)
<1>1. NumWorkers \in Nat \ {0} /\ q \in Nat
  BY CorpusAssumption DEF Queries
<1>2. (q % NumWorkers) + 1 \in Workers
  BY <1>1 DEF Workers
<1>3. 1 \in Workers
  BY <1>1 DEF Workers
<1> QED
  BY <1>2, <1>3 DEF Shard

\* A block that was just written is readable and has the levels it is for.
LEMMA NewFile ==
  ASSUME levels \subseteq Levels
  PROVE  /\ Admitted(levels) \in SUBSET Cells
         /\ Readable(Admitted(levels))
         /\ LevelsIn(Admitted(levels)) = levels
<1>1. Admitted(levels) \in SUBSET Cells
  BY DEF Admitted, Cells
<1>2. \A l \in levels : \E p \in Grid : <<l, p>> \in Admitted(levels) /\ <<l, p>>[1] = l
  BY CorpusAssumption DEF Admitted
<1>3. \A c \in Admitted(levels) : c[1] \in levels
  BY DEF Admitted
<1>4. LevelsIn(Admitted(levels)) = levels
  BY <1>2, <1>3 DEF LevelsIn
<1> QED
  BY <1>1, <1>4, CorpusAssumption DEF Readable

\* Padding adds cells.
LEMMA PaddedFile ==
  ASSUME NEW q, file[q] \in SUBSET Cells
  PROVE  Padded(q) \in SUBSET Cells /\ file[q] \subseteq Padded(q)
<1>1. \A c \in file[q] : c[1] \in Levels
  BY DEF Cells
<1>2. Missing(q) \subseteq Cells
  BY <1>1 DEF Missing, LevelsIn, Cells
<1> QED
  BY <1>2 DEF Padded

-----------------------------------------------------------------------------
(* Types and positions. *)

LEMMA BaseInit == Init => Base
BY DEF Init, Base, TypeInv, PositionInv, NoTodo, Idle

LEMMA AbortBase == ASSUME Base, Abort PROVE Base'
BY DEF Base, TypeInv, PositionInv, Abort, NoTodo, Idle

\* What a worker closes is a readable file with cells of the grid.
Closed(w) == IF driver = "pad" THEN Padded(at[w]) ELSE Admitted(levels)

LEMMA ClosedFile ==
  ASSUME TypeInv, InHandInv, NEW w \in Workers, CloseFile(w)
  PROVE  /\ at[w] \in Queries /\ at[w] # NoQuery
         /\ Closed(w) \in SUBSET Cells /\ Readable(Closed(w))
         /\ file' = [file EXCEPT ![at[w]] = Closed(w)]
<1>1. at[w] \in Queries /\ at[w] # NoQuery
  BY DEF TypeInv, CloseFile
<1>2. Closed(w) \in SUBSET Cells
  <2>1. CASE driver = "pad"
    <3>1. file[at[w]] \in SUBSET Cells
      BY <1>1, <2>1 DEF TypeInv, InHandInv, Readable
    <3> QED
      BY <2>1, <3>1, PaddedFile DEF Closed
  <2>2. CASE driver # "pad"
    BY <2>2, NewFile DEF Closed, TypeInv
  <2> QED
    BY <2>1, <2>2
<1> QED
  BY <1>1, <1>2, CorpusAssumption DEF Readable, CloseFile, Closed

LEMMA BaseNext == ASSUME Base, InHandInv, [Next]_vars PROVE Base'
<1> USE DEF Base, TypeInv, PositionInv, workVars
<1>1. ASSUME NEW d \in Drivers, NEW L \in (SUBSET Levels) \ {{}}, Launch(d, L) PROVE Base'
  BY <1>1, ShardType, CorpusAssumption DEF Launch, FirstStep
<1>2. CASE TruncateMeta
  BY <1>2 DEF TruncateMeta
<1>3. CASE WriteMeta
  BY <1>3 DEF WriteMeta
<1>4. CASE WorkDone
  BY <1>4 DEF WorkDone, End, Idle
<1>5. CASE PadEndStumbles \/ Kill \/ \E q \in Queries : PadStumbles(q)
  BY <1>5, AbortBase DEF PadEndStumbles, Kill, PadStumbles
<1>6. ASSUME NEW w \in Workers, NEW q \in Queries, Skip(w, q) PROVE Base'
  BY <1>6 DEF Skip, Look
<1>7. ASSUME NEW w \in Workers, NEW q \in Queries, Measure(w, q) PROVE Base'
  BY <1>7, NoQueryIsNone DEF Measure, Look
<1>8. ASSUME NEW w \in Workers, OpenFile(w) PROVE Base'
  BY <1>8 DEF OpenFile, Idle
<1>9. ASSUME NEW w \in Workers, CloseFile(w) PROVE Base'
  <2>1. step = "work"
    BY <1>9 DEF CloseFile, Idle
  <2>2. file' \in [Queries -> (SUBSET Cells) \cup {Absent, Torn}]
    BY <1>9, ClosedFile DEF CloseFile
  <2> QED
    BY <1>9, <2>1, <2>2 DEF CloseFile
<1>10. ASSUME NEW w \in Workers, QueryFails(w) PROVE Base'
  <2>1. CASE Abort
    BY <2>1, AbortBase
  <2>2. CASE ~ Abort
    BY <1>10, <2>2 DEF QueryFails, Idle
  <2> QED
    BY <2>1, <2>2
<1>11. CASE RefreshOpens \/ RefreshWrites \/ UNCHANGED vars
  BY <1>11 DEF RefreshOpens, RefreshWrites, vars
<1> HIDE DEF Base, TypeInv, PositionInv, workVars
<1> QED
  BY <1>1, <1>2, <1>3, <1>4, <1>5, <1>6, <1>7, <1>8, <1>9, <1>10, <1>11
     DEF Next, Command

-----------------------------------------------------------------------------
(* Shards. *)

\* Nobody has anything to do in a step that ends the command.
LEMMA StoppedShards ==
  ASSUME at' = Idle, todo' = NoTodo
  PROVE  ShardInv'
BY DEF ShardInv, Idle, NoTodo

LEMMA ShardNext == ASSUME Base, ShardInv, [Next]_vars PROVE ShardInv'
<1> USE DEF ShardInv, workVars
<1>1. ASSUME NEW d \in Drivers, NEW L \in (SUBSET Levels) \ {{}}, Launch(d, L) PROVE ShardInv'
  BY <1>1 DEF Launch, Base, PositionInv, Idle
<1>2. CASE TruncateMeta \/ RefreshOpens \/ RefreshWrites \/ UNCHANGED vars
  BY <1>2 DEF TruncateMeta, RefreshOpens, RefreshWrites, vars
<1>3. CASE WriteMeta
  <2>1. CASE driver' = driver
    BY <1>3, <2>1 DEF WriteMeta
  <2>2. CASE driver' # driver
    BY <1>3, <2>2, StoppedShards DEF WriteMeta, Base, PositionInv
  <2> QED
    BY <2>1, <2>2
<1>4. CASE WorkDone
  BY <1>4, StoppedShards DEF WorkDone
<1>5. CASE PadEndStumbles \/ Kill \/ \E q \in Queries : PadStumbles(q)
  BY <1>5, StoppedShards DEF PadEndStumbles, Kill, PadStumbles, Abort
<1>6. ASSUME NEW w \in Workers, NEW q \in Queries, Skip(w, q) \/ Measure(w, q) PROVE ShardInv'
  BY <1>6 DEF Skip, Measure, Look, Base, TypeInv
<1>7. ASSUME NEW w \in Workers, OpenFile(w) \/ CloseFile(w) PROVE ShardInv'
  BY <1>7 DEF OpenFile, CloseFile, Base, TypeInv
<1>8. ASSUME NEW w \in Workers, QueryFails(w) PROVE ShardInv'
  <2>1. CASE Abort
    BY <2>1, StoppedShards DEF Abort
  <2>2. CASE ~ Abort
    BY <1>8, <2>2 DEF QueryFails, Base, TypeInv
  <2> QED
    BY <2>1, <2>2
<1> HIDE DEF ShardInv, workVars
<1> QED
  BY <1>1, <1>2, <1>3, <1>4, <1>5, <1>6, <1>7, <1>8 DEF Next, Command

-----------------------------------------------------------------------------
(* Files in hand. *)

\* Shards keep one worker's files out of another's hands.
LEMMA InHandOnce ==
  ASSUME ShardInv, NEW v \in Workers, NEW w \in Workers, v # w, at[v] # NoQuery
  PROVE  at[v] # at[w] /\ at[v] \notin todo[w]
BY ShardsDisjoint DEF ShardInv

LEMMA InHandNext ==
  ASSUME Base, ShardInv, InHandInv, [Next]_vars
  PROVE  InHandInv'
<1> USE DEF InHandInv, HasLevels, Readable, LevelsIn, workVars
<1>0. NoQuery \notin Queries
  BY NoQueryIsNone
<1>1. ASSUME NEW d \in Drivers, NEW L \in (SUBSET Levels) \ {{}}, Launch(d, L) PROVE InHandInv'
  BY <1>1 DEF Launch, Base, PositionInv, Idle
<1>2. CASE TruncateMeta \/ RefreshOpens \/ RefreshWrites \/ UNCHANGED vars
  BY <1>2 DEF TruncateMeta, RefreshOpens, RefreshWrites, vars
<1>3. CASE WriteMeta
  BY <1>3 DEF WriteMeta, Base, PositionInv, Idle
<1>4. CASE WorkDone
  BY <1>4 DEF WorkDone, Idle, NoTodo
<1>5. ASSUME Abort PROVE InHandInv'
  BY <1>5 DEF Abort, Idle, NoTodo
<1>6. CASE PadEndStumbles \/ Kill \/ \E q \in Queries : PadStumbles(q)
  BY <1>5, <1>6 DEF PadEndStumbles, Kill, PadStumbles
<1>7. ASSUME NEW w \in Workers, NEW q \in Queries, Skip(w, q) PROVE InHandInv'
  BY <1>7 DEF Skip, Look, Base, TypeInv
<1>8. ASSUME NEW w \in Workers, NEW q \in Queries, Measure(w, q) PROVE InHandInv'
  BY <1>0, <1>8 DEF Measure, Look, Skipped, Covered, Base, TypeInv
<1>9. ASSUME NEW w \in Workers, OpenFile(w) PROVE InHandInv'
  BY <1>0, <1>9, InHandOnce DEF OpenFile, Base, TypeInv
<1>10. ASSUME NEW w \in Workers, CloseFile(w) PROVE InHandInv'
  <2>1. /\ at[w] \in Queries /\ Closed(w) \notin {Absent, Torn}
        /\ file' = [file EXCEPT ![at[w]] = Closed(w)]
    BY <1>10, ClosedFile DEF Base
  <2>2. \A v \in Workers \ {w} : at'[v] # NoQuery => at'[v] = at[v] /\ at[v] # at[w]
    BY <1>10, InHandOnce DEF CloseFile, Base, TypeInv
  <2> HIDE DEF Readable, LevelsIn
  <2> QED
    BY <1>0, <1>10, <2>1, <2>2 DEF CloseFile, Base, TypeInv, Readable
<1>11. ASSUME NEW w \in Workers, QueryFails(w) PROVE InHandInv'
  <2>1. CASE ~ Abort
    BY <1>11, <2>1 DEF QueryFails, Base, TypeInv
  <2> QED
    BY <1>5, <2>1
<1> HIDE DEF InHandInv, HasLevels, Readable, LevelsIn, workVars
<1> QED
  BY <1>1, <1>2, <1>3, <1>4, <1>6, <1>7, <1>8, <1>9, <1>10, <1>11 DEF Next, Command

-----------------------------------------------------------------------------
(* The theorems for every command. *)

SafeInv == Base /\ ShardInv /\ InHandInv

LEMMA SafeInvHolds == Spec => []SafeInv
<1>1. Init => SafeInv
  BY BaseInit DEF Init, SafeInv, ShardInv, InHandInv, Idle, NoTodo
<1>2. SafeInv /\ [Next]_vars => SafeInv'
  BY BaseNext, ShardNext, InHandNext DEF SafeInv
<1> QED
  BY <1>1, <1>2, PTL DEF Spec

\* No two workers ever have the same file in hand, for any number of workers and
\* queries: the round robin of the parallel drivers is what excludes it.
THEOREM FilesHaveOneWriter == Spec => []OneWriter
<1>1. SafeInv => OneWriter
  BY InHandOnce DEF SafeInv, OneWriter
<1> QED
  BY <1>1, SafeInvHolds, PTL

\* Only stceb gives up cells of a file that has the levels asked for.
LEMMA StepKeepsMeasured ==
  ASSUME SafeInv, [Next]_vars, driver # "stceb", NEW q \in Queries, HasLevels(q)
  PROVE  Readable(file'[q]) /\ file[q] \subseteq file'[q]
<1>1. ASSUME NEW w \in Workers, OpenFile(w) PROVE file'[q] = file[q]
  <2>1. CASE driver = "pad"
    BY <1>1, <2>1 DEF OpenFile
  <2>2. CASE driver # "pad"
    <3>1. ~ HasLevels(at[w])
      BY <1>1, <2>2 DEF OpenFile, SafeInv, InHandInv
    <3>2. file' = [file EXCEPT ![at[w]] = Torn] /\ at[w] # q
      BY <1>1, <2>2, <3>1 DEF OpenFile
    <3> QED
      BY <3>2 DEF SafeInv, Base, TypeInv
  <2> QED
    BY <2>1, <2>2
<1>2. ASSUME NEW w \in Workers, CloseFile(w)
      PROVE  Readable(file'[q]) /\ file[q] \subseteq file'[q]
  <2>1. /\ at[w] \in Queries /\ at[w] # NoQuery /\ Readable(Closed(w))
        /\ file' = [file EXCEPT ![at[w]] = Closed(w)]
    BY <1>2, ClosedFile DEF SafeInv, Base
  <2>2. CASE at[w] # q
    BY <2>1, <2>2 DEF SafeInv, Base, TypeInv, HasLevels
  <2>3. CASE at[w] = q /\ driver # "pad"
    <3>1. file[q] = Torn
      BY <1>2, <2>1, <2>3 DEF CloseFile, SafeInv, InHandInv
    <3> QED
      BY <3>1 DEF HasLevels, Readable
  <2>4. CASE at[w] = q /\ driver = "pad"
    <3>1. file[q] \in SUBSET Cells
      BY DEF SafeInv, Base, TypeInv, HasLevels, Readable
    <3>2. file'[q] = Padded(q) /\ Readable(file'[q])
      BY <2>1, <2>4 DEF Closed, SafeInv, Base, TypeInv
    <3> QED
      BY <3>1, <3>2, PaddedFile
  <2> QED
    BY <2>2, <2>3, <2>4
<1>3. ASSUME file' = file PROVE Readable(file'[q]) /\ file[q] \subseteq file'[q]
  BY <1>3 DEF HasLevels
<1>4. CASE \E w \in Workers : OpenFile(w) \/ CloseFile(w)
  BY <1>1, <1>2, <1>3, <1>4 DEF HasLevels
<1>5. CASE ~ \E w \in Workers : OpenFile(w) \/ CloseFile(w)
  <2>1. file' = file
    BY <1>5 DEF Next, Command, vars, Launch, TruncateMeta, WriteMeta, WorkDone, PadEndStumbles,
       Kill, Abort, Skip, Measure, PadStumbles, QueryFails, RefreshOpens, RefreshWrites
  <2> QED
    BY <1>3, <2>1
<1> QED
  BY <1>4, <1>5

\* Resuming loses no cell of a file that has the levels asked for, wherever
\* the commands before it were killed.
THEOREM ResumingKeepsFiles == Spec => MeasuredIsKept
<1>1. SafeInv /\ [Next]_vars =>
        [ driver # "stceb" =>
            \A q \in Queries : Readable(file[q]) /\ levels \subseteq LevelsIn(file[q]) =>
              Readable(file'[q]) /\ file[q] \subseteq file'[q] ]_vars
  BY StepKeepsMeasured DEF HasLevels
<1> QED
  BY <1>1, SafeInvHolds, PTL DEF Spec, MeasuredIsKept

-----------------------------------------------------------------------------
(* The commands that look into the files. *)

\* Still to do.
Pending(q) == \E w \in Workers : q \in todo[w] \/ at[w] = q

LEMMA ProgressNext ==
  ASSUME "workload" \notin Drivers, SafeInv, MetaInv, ProgressInv, [Next]_vars
  PROVE  ProgressInv'
<1> USE DEF ProgressInv, workVars
<1>0. \A q \in Queries : q # NoQuery
  BY NoQueryIsNone
<1>1. ASSUME NEW d \in Drivers, NEW L \in (SUBSET Levels) \ {{}}, Launch(d, L) PROVE ProgressInv'
  BY <1>1, ShardsCover DEF Launch
<1>2. ASSUME UNCHANGED <<file, levels, todo, at>>, clean' => clean PROVE ProgressInv'
  BY <1>2 DEF HasLevels
<1>3. CASE TruncateMeta \/ WriteMeta \/ WorkDone \/ RefreshOpens \/ RefreshWrites \/ UNCHANGED vars
  BY <1>2, <1>3 DEF TruncateMeta, WriteMeta, WorkDone, RefreshOpens, RefreshWrites, vars
<1>4. CASE PadEndStumbles \/ Kill \/ (\E q \in Queries : PadStumbles(q))
             \/ (\E w \in Workers : QueryFails(w))
  BY <1>4 DEF PadEndStumbles, Kill, PadStumbles, QueryFails, Abort
<1>5. ASSUME NEW w \in Workers, NEW q \in Queries, Skip(w, q), levels # {} PROVE ProgressInv'
  <2>1. HasLevels(q)
    <3>1. driver # "pad" /\ driver # "workload"
      BY <1>5 DEF MetaInv, SafeInv, Base, TypeInv, PositionInv, Skip, Look
    <3> QED
      BY <1>5, <3>1 DEF Skip, Skipped, Covered, HasLevels
  <2>2. \A x \in Queries : Pending(x) => Pending(x)' \/ x = q
    BY <1>5 DEF Skip, Look, Pending, SafeInv, Base, TypeInv
  <2> QED
    BY <1>5, <2>1, <2>2 DEF Skip, HasLevels, Pending
<1>6. ASSUME NEW w \in Workers, NEW q \in Queries, Measure(w, q) PROVE ProgressInv'
  <2>1. \A x \in Queries : Pending(x) => Pending(x)'
    BY <1>0, <1>6 DEF Measure, Look, Pending, SafeInv, Base, TypeInv
  <2>2. UNCHANGED <<file, levels, clean>>
    BY <1>6 DEF Measure
  <2>3. \A x \in Queries : HasLevels(x) => HasLevels(x)'
    BY <2>2 DEF HasLevels
  <2> QED
    BY <2>1, <2>2, <2>3 DEF Pending
<1>7. ASSUME NEW w \in Workers, OpenFile(w) PROVE ProgressInv'
  <2>1. UNCHANGED <<levels, todo, at, clean>>
    BY <1>7 DEF OpenFile
  <2>2. \A x \in Queries : x # at[w] => file'[x] = file[x]
    BY <1>7 DEF OpenFile, SafeInv, Base, TypeInv
  <2>3. \A x \in Queries : x # at[w] /\ HasLevels(x) => HasLevels(x)'
    BY <2>1, <2>2 DEF HasLevels
  <2> QED
    BY <2>1, <2>3
<1>8. ASSUME NEW w \in Workers, CloseFile(w), levels # {} PROVE ProgressInv'
  <2>1. /\ at[w] \in Queries /\ Closed(w) = Admitted(levels)
        /\ file' = [file EXCEPT ![at[w]] = Closed(w)] /\ levels' = levels
    BY <1>8, ClosedFile DEF SafeInv, Base, MetaInv, Closed, CloseFile
  <2>2. \A x \in Queries : x = at[w] => HasLevels(x)'
    BY <2>1, NewFile DEF HasLevels, SafeInv, Base, TypeInv
  <2>3. \A x \in Queries : x # at[w] => /\ HasLevels(x) => HasLevels(x)'
                                        /\ Pending(x) => Pending(x)'
    BY <1>8, <2>1 DEF CloseFile, HasLevels, Pending, SafeInv, Base, TypeInv
  <2> QED
    BY <1>8, <2>1, <2>2, <2>3 DEF CloseFile, Pending
<1>9. CASE levels = {}
  <2>1. levels' = {} \/ \E d \in Drivers, L \in (SUBSET Levels) \ {{}} : Launch(d, L)
    BY <1>9 DEF Next, Command, vars, TruncateMeta, WriteMeta, WorkDone, PadEndStumbles, Kill,
       Abort, Skip, Measure, PadStumbles, QueryFails, OpenFile, CloseFile, RefreshOpens, RefreshWrites
  <2> QED
    BY <1>1, <2>1
<1> HIDE DEF ProgressInv, workVars
<1> QED
  BY <1>1, <1>3, <1>4, <1>5, <1>6, <1>7, <1>8, <1>9 DEF Next, Command

LEMMA MetaNext == ASSUME SafeInv, MetaInv, [Next]_vars PROVE MetaInv'
<1> USE DEF MetaInv, SafeInv, Base, PositionInv, workVars
<1>1. ASSUME NEW d \in Drivers, NEW L \in (SUBSET Levels) \ {{}}, Launch(d, L) PROVE MetaInv'
  BY <1>1 DEF Launch, FirstStep
<1>2. CASE TruncateMeta
  BY <1>2 DEF TruncateMeta
<1>3. CASE WriteMeta
  BY <1>3 DEF WriteMeta
<1>4. CASE WorkDone
  BY <1>4 DEF WorkDone, Undeclared, End
<1>5. CASE PadEndStumbles \/ Kill \/ \E q \in Queries : PadStumbles(q)
  BY <1>5 DEF PadEndStumbles, Kill, PadStumbles, Abort
<1>6. CASE \E w \in Workers, q \in Queries : Skip(w, q) \/ Measure(w, q)
  BY <1>6 DEF Skip, Measure, Look
<1>7. CASE \E w \in Workers : OpenFile(w) \/ CloseFile(w)
  BY <1>7 DEF OpenFile, CloseFile
<1>8. CASE \E w \in Workers : QueryFails(w)
  BY <1>8 DEF QueryFails, Abort
<1>9. CASE RefreshOpens \/ RefreshWrites \/ UNCHANGED vars
  BY <1>9 DEF RefreshOpens, RefreshWrites, vars
<1> HIDE DEF MetaInv, SafeInv, Base, PositionInv, workVars
<1> QED
  BY <1>1, <1>2, <1>3, <1>4, <1>5, <1>6, <1>7, <1>8, <1>9 DEF Next, Command

\* A measuring command that ends without an error leaves every query with all
\* its levels and _meta.json declaring them, unless it goes by the existence of
\* the files (run corpus_workload).
THEOREM CleanEnd ==
  ASSUME "workload" \notin Drivers
  PROVE  Spec => []CleanEndIsComplete
<1>1. Init => MetaInv /\ ProgressInv
  BY DEF Init, MetaInv, ProgressInv
<1>2. SafeInv /\ MetaInv /\ ProgressInv /\ [Next]_vars => MetaInv' /\ ProgressInv'
  BY MetaNext, ProgressNext
<1>3. SafeInv /\ MetaInv /\ ProgressInv => CleanEndIsComplete
  BY NoQueryIsNone DEF CleanEndIsComplete, SafeInv, Base, PositionInv, MetaInv, ProgressInv,
     HasLevels, Idle, NoTodo
<1> QED
  BY <1>1, <1>2, <1>3, SafeInvHolds, PTL DEF Spec

-----------------------------------------------------------------------------
(* The pad runs. *)

\* A file has everything each of its levels admits.
GridInv ==
  \A q \in Queries : Readable(file[q]) => Admitted(LevelsIn(file[q])) \subseteq file[q]

Measuring == driver \notin {"none", "pad"}

\* What a measuring command and a pad run are about to declare.
NewMetaInv ==
  /\ Measuring => newMeta.params = Grid /\ levels # {}
  /\ driver = "pad" => levels = {} /\ step \notin {"meta", "metaOpen"}
  /\ driver = "pad" /\ step \in {"lastMeta", "lastMetaOpen"} =>
       Present \subseteq newMeta.params /\ newMeta.params \subseteq Grid \cup Present

\* _meta.json never declares a pad that no file has: a command that takes pads
\* away from files has withdrawn their declaration before.
DeclaredInv ==
  Readable(meta) =>
    /\ meta.params \subseteq Grid \cup Present
    /\ Measuring /\ step # "meta" => meta.params = Grid

\* A pad run that came to its end has declared all there is.
PadEndInv ==
  driver = "none" /\ clean /\ levels = {} /\ refresh = "none" /\ Readable(meta) =>
    Present \subseteq meta.params

HonestInv == GridInv /\ NewMetaInv /\ DeclaredInv /\ PadEndInv

\* Present, member by member, and what it depends on.
LEMMA PresentIs ==
  \A p : p \in Present <=> \E q \in Queries : Readable(file[q]) /\ \E c \in file[q] : c[2] = p
BY DEF Present

\* It depends on the files alone.
LEMMA PresentSame == ASSUME UNCHANGED file PROVE Present' = Present
BY DEF Present, Readable

\* A parameter of the grid is in a file, or above the cap of all the levels there are.
LEMMA PresentOrCapped ==
  ASSUME TypeInv, GridInv
  PROVE  Grid \subseteq Present \cup CappedOut
<1> SUFFICES ASSUME NEW p \in Grid, p \notin CappedOut PROVE p \in Present
  OBVIOUS
<1>1. PICK q \in Queries : Readable(file[q]) /\ \E l \in LevelsIn(file[q]) : ~ (MaxParam[l] < p)
  BY DEF CappedOut
<1>2. PICK l \in LevelsIn(file[q]) : ~ (MaxParam[l] < p)
  BY <1>1
<1>3. file[q] \subseteq Cells
  BY <1>1 DEF TypeInv, Readable
<1>4. l \in Levels
  BY <1>2, <1>3 DEF LevelsIn, Cells
<1>5. p <= MaxParam[l]
  <2>1. p \in Nat /\ MaxParam[l] \in Nat
    BY <1>4, CorpusAssumption
  <2> QED
    BY <1>2, <2>1
<1>6. <<l, p>> \in file[q] /\ <<l, p>>[2] = p
  BY <1>1, <1>2, <1>5 DEF Admitted, GridInv
<1> QED
  BY <1>1, <1>6, PresentIs

\* Every file keeps what its levels admit.
LEMMA GridNext == ASSUME SafeInv, GridInv, [Next]_vars PROVE GridInv'
<1>1. ASSUME file' = file PROVE GridInv'
  BY <1>1 DEF GridInv, Readable, LevelsIn
<1>2. ASSUME NEW w \in Workers, OpenFile(w) PROVE GridInv'
  <2>1. \A q \in Queries : file'[q] = file[q] \/ file'[q] = Torn
    BY <1>2 DEF OpenFile, SafeInv, Base, TypeInv
  <2> QED
    BY <2>1 DEF GridInv, Readable, LevelsIn
<1>3. ASSUME NEW w \in Workers, CloseFile(w) PROVE GridInv'
  <2>1. /\ at[w] \in Queries /\ at[w] # NoQuery
        /\ file' = [file EXCEPT ![at[w]] = Closed(w)]
    BY <1>3, ClosedFile DEF SafeInv, Base
  <2>2. Admitted(LevelsIn(Closed(w))) \subseteq Closed(w)
    <3>1. CASE driver = "pad"
      <4>1. Readable(file[at[w]])
        BY <2>1, <3>1 DEF SafeInv, InHandInv
      <4>2. Admitted(LevelsIn(file[at[w]])) \subseteq file[at[w]]
        BY <2>1, <4>1 DEF GridInv
      <4>3. \A c \in Missing(at[w]) : c[1] \in LevelsIn(file[at[w]])
        BY DEF Missing
      <4>4. LevelsIn(Padded(at[w])) \subseteq LevelsIn(file[at[w]])
        BY <4>3 DEF LevelsIn, Padded
      <4> QED
        BY <3>1, <4>2, <4>4 DEF Closed, Padded, Admitted
    <3>2. CASE driver # "pad"
      BY <3>2, NewFile DEF Closed, SafeInv, Base, TypeInv
    <3> QED
      BY <3>1, <3>2
  <2>3. \A q \in Queries : file'[q] = IF q = at[w] THEN Closed(w) ELSE file[q]
    BY <2>1 DEF SafeInv, Base, TypeInv
  <2> QED
    BY <2>2, <2>3 DEF GridInv, LevelsIn, Readable
<1>4. CASE ~ \E w \in Workers : OpenFile(w) \/ CloseFile(w)
  <2>1. file' = file
    BY <1>4 DEF Next, Command, vars, Launch, TruncateMeta, WriteMeta, WorkDone, PadEndStumbles,
       Kill, Abort, Skip, Measure, PadStumbles, QueryFails, RefreshOpens, RefreshWrites
  <2> QED
    BY <1>1, <2>1
<1> QED
  BY <1>2, <1>3, <1>4

\* What a pad run does to a file takes no parameter away.
LEMMA PadAddsCells ==
  ASSUME SafeInv, driver = "pad", NEW w \in Workers, OpenFile(w) \/ CloseFile(w)
  PROVE  Present \subseteq Present'
<1>1. CASE OpenFile(w)
  BY <1>1, PresentSame DEF OpenFile
<1>2. CASE CloseFile(w)
  <2>1. /\ at[w] \in Queries /\ at[w] # NoQuery /\ Readable(Closed(w))
        /\ file' = [file EXCEPT ![at[w]] = Closed(w)]
    BY <1>2, ClosedFile DEF SafeInv, Base
  <2>2. file[at[w]] \subseteq Closed(w)
    BY DEF Closed, Padded
  <2>3. \A q \in Queries : file'[q] = IF q = at[w] THEN Closed(w) ELSE file[q]
    BY <2>1 DEF SafeInv, Base, TypeInv
  <2>4. \A q \in Queries : Readable(file[q]) => Readable(file'[q]) /\ file[q] \subseteq file'[q]
    BY <2>1, <2>2, <2>3
  <2> QED
    BY <2>4 DEF Present
<1> QED
  BY <1>1, <1>2

\* The parts that look only at the command, _meta.json and Present.
LEMMA MetaAlike ==
  ASSUME HonestInv, GridInv', Present' = Present, UNCHANGED <<meta, newMeta, driver, levels,
     step>>,
         clean' => clean, refresh' = refresh
  PROVE  HonestInv'
BY DEF HonestInv, NewMetaInv, DeclaredInv, PadEndInv, Measuring, Readable

\* A command cut short declares nothing, and its end is not a clean one.
LEMMA Stopped ==
  ASSUME SafeInv, HonestInv, GridInv', Abort
  PROVE  HonestInv'
<1>1. Present' = Present
  BY PresentSame DEF Abort
<1> QED
  BY <1>1 DEF Abort, HonestInv, NewMetaInv, DeclaredInv, PadEndInv, Measuring, Readable

\* What _meta.json declares, step by step.
LEMMA HonestNext == ASSUME SafeInv, HonestInv, [Next]_vars PROVE HonestInv'
<1>0. GridInv'
  BY GridNext DEF HonestInv
<1> USE <1>0
<1>1. ASSUME NEW d \in Drivers, NEW L \in (SUBSET Levels) \ {{}}, Launch(d, L) PROVE HonestInv'
  <2>1. Present' = Present /\ d # "none"
    BY <1>1, PresentSame, CorpusAssumption DEF Launch
  <2>2. UNCHANGED meta /\ driver' = d /\ step' = FirstStep(d)
    BY <1>1 DEF Launch
  <2>3. CASE d = "pad"
    <3>1. levels' = {} /\ step' = "work"
      BY <1>1, <2>2, <2>3 DEF Launch, FirstStep
    <3> QED
      BY <2>1, <2>2, <2>3, <3>1 DEF HonestInv, NewMetaInv, DeclaredInv, PadEndInv, Measuring,
         Readable
  <2>4. CASE d # "pad"
    <3>1. levels' # {} /\ step' = "meta" /\ newMeta' = Declaration(L, Grid)
      BY <1>1, <2>2, <2>4 DEF Launch, FirstStep
    <3>2. newMeta'.params = Grid
      BY <3>1 DEF Declaration
    <3> QED
      BY <2>1, <2>2, <2>4, <3>1, <3>2 DEF HonestInv, NewMetaInv, DeclaredInv, PadEndInv,
         Measuring, Readable
  <2> QED
    BY <2>3, <2>4
<1>2. CASE TruncateMeta
  <2>1. Present' = Present
    BY <1>2, PresentSame DEF TruncateMeta
  <2> QED
    BY <1>2, <2>1 DEF TruncateMeta, HonestInv, NewMetaInv, DeclaredInv, PadEndInv,
       Measuring, Readable
<1>3. CASE WriteMeta
  <2>1. Present' = Present
    BY <1>3, PresentSame DEF WriteMeta
  <2>2. driver # "none"
    BY <1>3 DEF WriteMeta, SafeInv, Base, PositionInv
  <2> QED
    BY <1>3, <2>1, <2>2 DEF WriteMeta, HonestInv, NewMetaInv, DeclaredInv, PadEndInv,
       Measuring, Readable
<1>4. CASE WorkDone
  <2>1. Present' = Present /\ driver # "none" /\ step = "work"
    BY <1>4, PresentSame DEF WorkDone, SafeInv, Base, PositionInv
  <2>2. CASE driver = "sgrid"
    BY <1>4, <2>1, <2>2 DEF WorkDone, Undeclared, HonestInv, NewMetaInv, DeclaredInv, PadEndInv,
       Measuring, Readable
  <2>3. CASE Undeclared
    <3>1. /\ newMeta' = Merged(meta) /\ step' = "lastMeta" /\ driver = "pad"
          /\ UNCHANGED <<driver, meta, levels>> /\ Readable(meta)
      BY <1>4, <2>3 DEF WorkDone, Undeclared, Readable
    <3>2. newMeta'.params = meta.params \cup Present
      BY <3>1 DEF Merged, Declaration
    <3> QED
      BY <2>1, <3>1, <3>2 DEF HonestInv, NewMetaInv, DeclaredInv, PadEndInv, Measuring, Readable
  <2>4. CASE driver # "sgrid" /\ ~ Undeclared
    <3>1. UNCHANGED <<meta, newMeta, levels, clean,
       refresh>> /\ driver' = "none" /\ step' = "idle"
      BY <1>4, <2>4 DEF WorkDone, End
    <3>2. driver = "pad" /\ Readable(meta) => Present \subseteq meta.params
      BY <2>4 DEF Undeclared, Merged, Declaration, Readable
    <3> QED
      BY <2>1, <3>1, <3>2 DEF HonestInv, NewMetaInv, DeclaredInv, PadEndInv, Measuring, Readable
  <2> QED
    BY <2>2, <2>3, <2>4
<1>5. CASE PadEndStumbles \/ Kill \/ \E q \in Queries : PadStumbles(q)
  BY <1>5, Stopped DEF PadEndStumbles, Kill, PadStumbles
<1>6. ASSUME NEW w \in Workers, NEW q \in Queries, Skip(w, q) \/ Measure(w, q) PROVE HonestInv'
  BY <1>6, PresentSame, MetaAlike DEF Skip, Measure, Look
<1>7. ASSUME NEW w \in Workers, OpenFile(w) \/ CloseFile(w) PROVE HonestInv'
  <2>1. step = "work" /\ driver # "none"
    BY <1>7, NoQueryIsNone DEF OpenFile, CloseFile, SafeInv, Base, TypeInv, PositionInv, Idle
  <2>2. UNCHANGED <<meta, newMeta, driver, levels, step, clean, refresh>>
    BY <1>7 DEF OpenFile, CloseFile
  <2>3. driver = "pad" => Present \subseteq Present'
    BY <1>7, PadAddsCells
  <2> QED
    BY <2>1, <2>2, <2>3 DEF HonestInv, NewMetaInv, DeclaredInv, PadEndInv, Measuring, Readable
<1>8. ASSUME NEW w \in Workers, QueryFails(w) PROVE HonestInv'
  <2>1. CASE Abort
    BY <2>1, Stopped
  <2>2. CASE ~ Abort
    BY <1>8, <2>2, PresentSame, MetaAlike DEF QueryFails
  <2> QED
    BY <2>1, <2>2
<1>9. CASE RefreshOpens
  <2>1. Present' = Present
    BY <1>9, PresentSame DEF RefreshOpens
  <2> QED
    BY <1>9, <2>1 DEF RefreshOpens, HonestInv, NewMetaInv, DeclaredInv, PadEndInv, Measuring,
       Readable
<1>10. CASE RefreshWrites
  <2>1. Present' = Present /\ meta'.params = Grid
    BY <1>10, PresentSame DEF RefreshWrites, Declaration
  <2> QED
    BY <1>10, <2>1 DEF RefreshWrites, HonestInv, NewMetaInv, DeclaredInv, PadEndInv, Measuring,
       Readable
<1>11. CASE UNCHANGED vars
  BY <1>11, PresentSame, MetaAlike DEF vars
<1> QED
  BY <1>1, <1>2, <1>3, <1>4, <1>5, <1>6, <1>7, <1>8, <1>9, <1>10, <1>11 DEF Next, Command

\* After a pad run that came to its end _meta.json declares every parameter some
\* file has, and in excess of them only parameters that no level in the files
\* admits: for every set of commands in use and every lattice cap, wherever
\* earlier ones were killed and whatever refreshes overlapped them.
THEOREM PadDeclares == Spec => []PadDeclaresWhatIsThere
<1>1. Init => HonestInv
  BY DEF Init, HonestInv, GridInv, NewMetaInv, DeclaredInv, PadEndInv, Measuring, Readable
<1>2. SafeInv /\ HonestInv /\ [Next]_vars => HonestInv'
  BY HonestNext
<1>3. SafeInv /\ HonestInv => PadDeclaresWhatIsThere
  BY PresentOrCapped
  DEF SafeInv, Base, HonestInv, DeclaredInv, PadEndInv, PadDeclaresWhatIsThere
<1> QED
  BY <1>1, <1>2, <1>3, SafeInvHolds, PTL DEF Spec
=============================================================================
