--------------------------- MODULE MCBaselineStore ---------------------------
(* The small instance of BaselineStore: two handles on one file.            *)
EXTENDS BaselineStore, TLC

Symmetry == Permutations(Handles) \cup Permutations(Fps)
=============================================================================
