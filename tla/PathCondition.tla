--------------------------- MODULE PathCondition ---------------------------
(***************************************************************************)
(* The path condition a Memory keeps, and what the solver answers about    *)
(* it (memory/Memory.kt).                                                  *)
(*                                                                         *)
(* A condition is the set of inputs that satisfy it: an input is one       *)
(* assignment of concrete values to the symbolic constants of the          *)
(* function under test.  Conjunction is \cap, negation is \ from Inputs.   *)
(*                                                                         *)
(* This is the part of Memory the dynamic interpreter uses: it never       *)
(* pushes a solver level (SsaStartBranchNode is made with needToPush =     *)
(* false), so the list pathCond is the conjunction of its elements and the *)
(* solver is the conjunction of its assertions; and the only return a path *)
(* adds leaves returnsStack in the same step, so fullReturnCond is false.  *)
(***************************************************************************)
EXTENDS Naturals, FiniteSets

CONSTANTS Inputs,           \* the inputs of the function under test
          SolverMayTimeout  \* may a check run into SOLVER_TIMEOUT?

ASSUME SolverMayTimeoutAssumption == SolverMayTimeout \in BOOLEAN

Conditions == SUBSET Inputs

(***************************************************************************)
(* path             the conjunction of pathCond                            *)
(* asserted         the conjunction of what the solver was told            *)
(* fullErrorsCond   the condition fullPathCond() excludes                  *)
(* errors           the conditions of the SymbolicErrors of this path      *)
(***************************************************************************)
Memories == [path           : Conditions,
             asserted       : Conditions,
             fullErrorsCond : Conditions,
             errors         : SUBSET Conditions]

NewMemory == [path |-> Inputs, asserted |-> Inputs,
              fullErrorsCond |-> {}, errors |-> {}]

SolverAnswers == {"SAT", "UNSAT", "UNKNOWN"}

\* What solver.check may answer when c is the conjunction it is asked about.
Answers(c) == {IF c = {} THEN "UNSAT" ELSE "SAT"}
                \cup (IF SolverMayTimeout THEN {"UNKNOWN"} ELSE {})

FullPathCond(m) == m.path \ m.fullErrorsCond

\* Mutant: the solver is not told.
AddCondUnasserted(m, c) == [m EXCEPT !.path = @ \cap c]

AddCond(m, c) == [m EXCEPT !.path = @ \cap c, !.asserted = @ \cap c]

(***************************************************************************)
(* addError: sat is the answer about the path condition together with      *)
(* errorCond.  An answer other than UNSAT saves an error; SAT also sets    *)
(* fullErrorsCond, to errorCond \/ (errorCond /\ fullPathCond()), which is *)
(* errorCond: what was there is lost.  The solver always gets the negation.*)
(***************************************************************************)
ErrorAnswers(m, errorCond) ==
    Answers(m.asserted \cap FullPathCond(m) \cap errorCond)

\* Mutant: an error the solver gave no answer about is not saved.
AddErrorIfSat(m, errorCond, sat) ==
    [m EXCEPT !.asserted = @ \ errorCond,
              !.errors = IF sat = "SAT" THEN @ \cup {errorCond \cap FullPathCond(m)}
                         ELSE @,
              !.fullErrorsCond = IF sat = "SAT" THEN errorCond ELSE @]

AddError(m, errorCond, sat) ==
    [m EXCEPT !.asserted = @ \ errorCond,
              !.errors = IF sat = "UNSAT" THEN @
                         ELSE @ \cup {errorCond \cap FullPathCond(m)},
              !.fullErrorsCond = IF sat = "SAT" THEN errorCond ELSE @]

(***************************************************************************)
(* clone: a new solver, given the elements of pathCond and nothing else,   *)
(* and a new Memory, whose fullErrorsCond starts as false.                 *)
(***************************************************************************)
Clone(m) == [m EXCEPT !.asserted = m.path, !.fullErrorsCond = {}]
=============================================================================
