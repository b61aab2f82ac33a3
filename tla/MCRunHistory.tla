---------------------------- MODULE MCRunHistory ----------------------------
(* The small instance of RunHistory: two runs, one changing index.          *)
EXTENDS RunHistory, TLC

Symmetry == Permutations(Runs)
=============================================================================
