-------------------------- MODULE MCIndexCorrelation --------------------------
(* IndexCorrelation for TLC: two names, a narrow and a wide btree, a GIN    *)
(* index, a partial one, one on an expression and that of a constraint.     *)
EXTENDS IndexCorrelation, TLC
Btree(columns) == [columns |-> columns, kind |-> "btree", partial |-> FALSE, expression |-> FALSE,
                   unique |-> FALSE, constraint |-> FALSE, small |-> FALSE]
Interchangeable == Permutations(Names)
MCShapes == {Btree(<<1>>), Btree(<<1, 2>>), [Btree(<<1>>) EXCEPT !.kind = "gin"],
             [Btree(<<1>>) EXCEPT !.partial = TRUE], [Btree(<<1>>) EXCEPT !.expression = TRUE],
             [Btree(<<1>>) EXCEPT !.constraint = TRUE]}
=============================================================================
