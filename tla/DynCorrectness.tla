--------------------------- MODULE DynCorrectness ---------------------------
(***************************************************************************)
(* What the dynamic interpreter is for: its results compared with what the *)
(* interpreted function does on each input (SsaSemantics).                 *)
(***************************************************************************)
EXTENDS DynRefinement, FiniteSetsExt

CONSTANT Fuel  \* bound: the number of blocks and calls of a concrete run

S == INSTANCE SsaSemantics

\* What the function under test does on each input.
Runs == [P \in DOMAIN Programs |-> [i \in Inputs |->
           S!Run(Programs[P].nodes, Programs[P].main, i, Fuel)]]

RunOf(i) == Runs[prog][i]

Returns == {r \in results : r.kind = "return"}
Failures == {r \in results : r.kind = "error" /\ r.what # "Prune"}

(***************************************************************************)
(* A SymbolicReturn is right: an input of its condition on which the       *)
(* function returns makes it return the value of the SymbolicReturn.  The  *)
(* test case that is generated from the result asserts that value.         *)
(***************************************************************************)
ReturnsRight ==
    \A r \in Returns : \A i \in r.cond :
        RunOf(i).how = "return" => RunOf(i).val = r.val[i]

(***************************************************************************)
(* A SymbolicError is real: on each input of its condition the function    *)
(* fails.  Errors by which the interpreter stops a path are no errors of   *)
(* the function (isNodeUseful), and are left out.                          *)
(***************************************************************************)
ErrorsReal ==
    \A r \in Failures : \A i \in r.cond :
        RunOf(i).how \in {"panic", "divisionByZero"}

(***************************************************************************)
(* An input on which the function fails never ends up in a return alone:   *)
(* when the exploration is done, some error has it in its condition.       *)
(***************************************************************************)
FailuresFound ==
    phase = "done" =>
        \A i \in Inputs : RunOf(i).how \in {"panic", "divisionByZero"} =>
            \E r \in results : r.kind = "error" /\ i \in r.cond

(***************************************************************************)
(* Pruning loses no coverage: when the exploration is done, each terminal  *)
(* node that the function reaches on some input was visited by a path with *)
(* a result, whichever order the queue took the paths in, although a path  *)
(* is given up as soon as what it can still reach was found by others.     *)
(***************************************************************************)
ReachedTerminals == (UNION {RunOf(i).seen : i \in Inputs}) \cap Terminals0[prog]

TerminalsCovered ==
    phase = "done" =>
        \A t \in ReachedTerminals : \E r \in results : t \in r.visited

(***************************************************************************)
(* A terminal node that is taken from terminalNodes, so that paths to it   *)
(* are given up, was visited by a path that is still alive or has given a  *)
(* result.                                                                 *)
(***************************************************************************)
FoundTerminalsVisited ==
    phase \in {"run", "done"} =>
        \A t \in Terminals0[prog] \ terminals :
            \/ \E p \in queue : t \in st[p].visited
            \/ \E r \in results : t \in r.visited

-----------------------------------------------------------------------------

(***************************************************************************)
(* The interpretation ends by itself when each loop of the function has a  *)
(* branch: a path is cut at maxExecutionDepth, and only finitely many      *)
(* paths are made before.                                                  *)
(***************************************************************************)
Terminates == <>(phase # "run")

-----------------------------------------------------------------------------

(***************************************************************************)
(* "phi wasn't done before read" and "unreachable phi" are never raised:   *)
(* although exitFunction removes the two newest levels of                  *)
(* instrOnPathStack, whichever these are, a phi that is reached finds the  *)
(* block that control came from, and a node that is read has a value.  It  *)
(* does not hold of a loop whose body is its own predecessor (Increment in *)
(* MCDynInterpreter), where the phi's edge is held by the phi.             *)
(***************************************************************************)
PhisHaveValues == phase # "crashed"
=============================================================================
