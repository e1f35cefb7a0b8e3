------------------------------ MODULE MCCorpus ------------------------------
(* PostgreSQL's lattice caps: the statistics target of each level. *)
EXTENDS Corpus, TLC

Caps == 0 :> 100 @@ 1 :> 1000
=============================================================================
