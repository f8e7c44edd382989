------------------------------ MODULE MCResultCache ------------------------------
(* Instances of ResultCache for TLC. *)
EXTENDS ResultCache, TLC

CONSTANTS t1, t2, a, b, long

\* Two ids of the same length, and one that ends in a dash and the first.
Lengths == [j \in Jobs |-> IF j = long THEN 2 ELSE 1]
Ends == {<<j, j>> : j \in Jobs} \cup {<<j, k>> \in Jobs \X Jobs : j = long /\ k = a}
Sizes == [j \in Jobs |-> IF j = a THEN 1 ELSE 2]
Alike == Permutations(Threads)
=============================================================================
