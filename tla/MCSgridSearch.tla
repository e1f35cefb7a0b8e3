--------------------------- MODULE MCSgridSearch ---------------------------
(* Three queries, two column sets at two parameters, two tables, two levels. *)
EXTENDS SgridSearch, TLC

CONSTANTS q1, q2, q3, t1, t2, T2, ab, cd

TheQids == <<q1, q2, q3>>
TheTables == <<t1, t2>>
Keys == t1 :> t1 @@ t2 :> t2 @@ T2 :> t2    \* one table in camel case

\* Bytes grow with the parameter; the same column set differs between tables.
Sizes == t1 :> (ab :> <<2, 3>> @@ cd :> <<1, 2>>)
           @@ t2 :> (ab :> <<1, 2>> @@ cd :> <<2, 4>>)
           @@ NoTable :> (ab :> <<1, 1>> @@ cd :> <<1, 1>>)

Read(a1, a2, c1, c2) == ab :> <<a1, a2>> @@ cd :> <<c1, c2>>
Level(base, lambda, err) == [base |-> base, lambda |-> lambda, err |-> err]

\* Level 1 has the better baselines, level 0 some of the better readings.
Slots1(e) == 0 :> Level(6, 1, Read(4, 2, 6, None)) @@ 1 :> Level(5, 2, Read(e, 1, None, None))
Slots2 == 0 :> Level(5, 3, Read(3, None, 2, None)) @@ 1 :> Level(4, 4, Read(4, None, 2, None))
Slots3(e) == 0 :> Level(4, None, Read(None, None, None, e)) @@ 1 :> Level(4, 1, Read(1, None, None, 2))

Block(actual, owner, slots) == [actual |-> actual, owner |-> owner, slot |-> slots]
Corpus(a, o, e) ==
  q1 :> Block(a[1], o[1], Slots1(e)) @@ q2 :> Block(a[2], o[2], Slots2)
    @@ q3 :> Block(a[3], o[3], Slots3(e))

P == "positive"
Whole == { Corpus(<<P, P, P>>, <<t1, t1, o>>, e) : o \in {t1, t2, NoTable}, e \in {1, 3} }
Zeros == { Corpus(a, <<t1, t1, o>>, 1) : o \in {t1, t2},
             a \in { <<"zero", P, P>>, <<"unknown", P, P>>, <<P, "unknown", P>> } }
\* An interrupted measurement: q2 without level 1, or no level 1 at all.
Half == LET from == { Corpus(<<P, P, P>>, <<t1, t1, o>>, 1) : o \in {t1, t2} }
        IN  { [c EXCEPT ![q2].slot = 0 :> @[0]] : c \in from }
          \cup { [q \in {q1, q2, q3} |-> [c[q] EXCEPT !.slot = 0 :> @[0]]] : c \in from }
Owners(c) == { c[q].owner : q \in {q1, q2, q3} }

TwoLevels(a, b) == 0 :> a @@ 1 :> b
Files == { [fixed |-> t1 :> TwoLevels(3, 5) @@ k :> TwoLevels(2, 4),
            cvar  |-> t1 :> TwoLevels(1, 2) @@ k :> TwoLevels(2, 1)] : k \in {t2, T2} }
           \cup { [fixed |-> t1 :> TwoLevels(3, 5) @@ t2 :> (0 :> 2),
                   cvar  |-> t1 :> TwoLevels(1, 2) @@ t2 :> TwoLevels(2, 1)],
                  [fixed |-> t1 :> TwoLevels(3, 5), cvar |-> t1 :> TwoLevels(1, 2)],
                  None }

Job(kind, bench, backend, grid, maint, floor, corpus, file) ==
  [kind |-> kind, bench |-> bench, backend |-> backend, grid |-> grid, maint |-> maint,
   floor |-> floor, corpus |-> corpus, file |-> file, tiers |-> <<0, 1>>, owner |-> t1]

SingleOwner(c) == Owners(c) = {t1}
All == Whole \cup Zeros \cup Half
TheJobs ==
  { Job("storage", IF SingleOwner(c) THEN "one" ELSE "many", b, <<0, 2, 3, 5>>, None, None, c, None) :
      c \in All, b \in {"postgres", "oracle"} }
  \cup { Job("maint", IF SingleOwner(c) THEN "one" ELSE "many", "postgres", <<1, 5, 6, 8, 11>>,
             None, None, c, f) : c \in All, f \in Files }
  \cup { Job("maint", "one", "oracle", <<6>>, None, None, c, None) :
      c \in { d \in Whole : SingleOwner(d) } }
  \cup { Job("search", "one", "postgres", <<B>>, m, k, c, None) :
      B \in {2, 4}, m \in {None, 1}, k \in {None, 0, 2, 3}, c \in { d \in All : SingleOwner(d) } }
=============================================================================
