--------------------------- MODULE MCTestGeneration ---------------------------
(***************************************************************************)
(* TestGeneration on the results of three functions: a branch with one     *)
(* return, two returns of which one was not found, and a condition that no *)
(* simple constraint agrees with.                                          *)
(***************************************************************************)
EXTENDS TestGeneration

ResultOf(visited, cond, reads) == [visited |-> visited, cond |-> cond, reads |-> reads]

MCValues == 0 .. 2

\* if x { b } else { c }; d. The first result is of the path through c; one
\* more, which ends at the same node, has an unsatisfiable condition.
OneVariable == {"x"}
OnX(values) == {m \in [OneVariable -> MCValues] : m["x"] \in values}
Branch ==
    [nodes |-> {"a", "b", "c", "d"}, terminals |-> {"d"}, variables |-> OneVariable,
     results |-> <<ResultOf({"a", "c", "d"}, OnX({0}), {"x"}),
                   ResultOf({"a", "b", "c", "d"}, {}, {"x"}),
                   ResultOf({"a", "b", "d"}, OnX({1, 2}), {"x"})>>]

\* Two terminal nodes, of which the results visit one; the condition says
\* nothing of y.
TwoVariables == {"x", "y"}
OnBoth(xs) == {m \in [TwoVariables -> MCValues] : m["x"] \in xs}
Returns ==
    [nodes |-> {"a", "b", "c"}, terminals |-> {"b", "c"}, variables |-> TwoVariables,
     results |-> <<ResultOf({"a", "b"}, OnBoth({1, 2}), {"x"})>>]

\* A condition that excludes what simpleConstraintGenerator asks for.
Guarded ==
    [nodes |-> {"a", "b"}, terminals |-> {"b"}, variables |-> OneVariable,
     results |-> <<ResultOf({"a", "b"}, OnX({2}), {"x"})>>]

MCFunctions == "Branch" :> Branch @@ "Returns" :> Returns @@ "Guarded" :> Guarded

MCConstraints == {{0}, {1}}

\* Larger values are simpler.
PartialModels(vs) == UNION {[d -> MCValues] : d \in SUBSET vs}
MCUgliness == [m \in PartialModels(TwoVariables) |->
                 10 * FoldFunction(LAMBDA a, b : 3 - a + b, 0, m)]
==============================================================================
