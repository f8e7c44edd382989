---------------------------- MODULE MCComparisonMemo ----------------------------
(* Instances of ComparisonMemo for TLC. *)
EXTENDS ComparisonMemo, TLC

CONSTANTS t1, t2, small, large

\* A drawn graph weighs more, and the graph of two large functions too much.
Weights == [w \in Contents \X Contents \X BOOLEAN |->
    CASE ~w[3] -> 1 [] w[1] = large /\ w[2] = large -> 4 [] OTHER -> 2]
Alike == Permutations(Threads)
=============================================================================
