------------------------------ MODULE MCComparePage ------------------------------
(* Instances of ComparePage for TLC: two small functions that share the blocks x and y. *)
EXTENDS ComparePage

\* Each has a loop; the smaller loop of a lies within the larger one.
Functions == [a |-> [blocks |-> {"x", "y"}, edges |-> {<<"x", "y">>, <<"y", "x">>}],
              b |-> [blocks |-> {"x", "y", "z"}, edges |-> {<<"x", "y">>, <<"y", "z">>}]]
CyclesOf == [a |-> <<{"x", "y"}>>, b |-> <<>>]
\* One group names a block that is not drawn.
AnswersOf == [a |-> {<<>>, <<{"x", "y"}, {"y", "z"}>>}, b |-> {<<{"y"}>>}]
Matches == [a |-> [n \in {"x", "y", "z"} |-> IF n = "x" THEN "y" ELSE None],
            b |-> [n \in {"x", "y", "z"} |-> IF n = "y" THEN "x" ELSE None]]
Layout == [n \in {"x", "y", "z"} |-> CASE n = "x" -> 0 [] n = "y" -> 2 [] OTHER -> 4]
Fits == [a |-> 2, b |-> 1]
=============================================================================
