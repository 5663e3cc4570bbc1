------------------------- MODULE MCCorpusActivation -------------------------
(* TLC instance of CorpusActivation: two runs and two corpora, so that a run *)
(* id can come back with other evidence and there is a corpus to roll back   *)
(* to; one command at a time, or two that overlap.                           *)
EXTENDS CorpusActivation, TLC

Symmetry == Permutations(Runs) \cup Permutations(Corpora)
=============================================================================
