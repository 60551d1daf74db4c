-------------------------- MODULE PathExploration --------------------------
(***************************************************************************)
(* What the dynamic interpreter promises about the inputs of the function  *)
(* under test, whatever the function is: a queue of paths, each with the   *)
(* condition it runs under, and the results collected from them.           *)
(*                                                                         *)
(* A step of the interpreter takes one path from the queue and may find an *)
(* error on it, constrain it, split it in two, or end it (interpretStep    *)
(* and interpretLoop).  Which path is taken is the queue's business and is *)
(* left open here; so is which condition an error or a branch has.         *)
(* DynInterpreter implements this module.                                  *)
(***************************************************************************)
EXTENDS PathCondition

CONSTANTS MaxPaths,  \* bound: the number of states that may be made
          MaxErrors  \* bound: the number of errors one path may save

ASSUME MaxPathsAssumption == MaxPaths \in Nat \ {0}
ASSUME MaxErrorsAssumption == MaxErrors \in Nat

PathIds == 1 .. MaxPaths

VARIABLES created,  \* stateCounter: how many states were made so far
          queue,    \* the states in the queue
          mem,      \* mem[p] the Memory of state p
          pending,  \* pending[p] the condition its SsaStartBranchNode will
                    \* add, Inputs if no such node waits in p
          results,  \* the results collected so far
          dropped,  \* inputs that assume() and the like ruled out (auxiliary)
          phase     \* "run", or how the exploration ended

vars == <<created, queue, mem, pending, results, dropped, phase>>

Kinds == {"return", "error"}
ResultOf(kind, c) == [kind |-> kind, cond |-> c]
ErrorsOf(m) == {ResultOf("error", c) : c \in m.errors}

TypeOK ==
    /\ created \in PathIds
    /\ queue \subseteq 1 .. created
    /\ mem \in [PathIds -> Memories]
    /\ pending \in [PathIds -> Conditions]
    /\ results \subseteq [kind : Kinds, cond : Conditions]
    /\ dropped \in Conditions
    /\ phase \in {"run", "done", "timeout", "crashed"}

\* startFunction puts the initial state in the queue.
Init ==
    /\ created = 1
    /\ queue = {1}
    /\ mem = [p \in PathIds |-> NewMemory]
    /\ pending = [p \in PathIds |-> Inputs]
    /\ results = {}
    /\ dropped = {}
    /\ phase = "run"

Running(p) == phase = "run" /\ p \in queue

\* The path ends: its errors are results, and so is ret if it returned.
End(p, ret) ==
    /\ queue' = queue \ {p}
    /\ results' = results \cup ErrorsOf(mem'[p]) \cup ret

-----------------------------------------------------------------------------

(***************************************************************************)
(* A node checks an error condition c; if the solver then finds the path   *)
(* empty, UnSatPathException ends it.                                      *)
(***************************************************************************)
CheckError(p, c) ==
    /\ Running(p)
    /\ pending[p] = Inputs
    /\ Cardinality(mem[p].errors) < MaxErrors
    /\ \E sat \in ErrorAnswers(mem[p], c) :
          mem' = [mem EXCEPT ![p] = AddError(mem[p], c, sat)]
    /\ \E sat \in Answers(mem[p].asserted \ c) :
          IF sat = "UNSAT" THEN End(p, {}) ELSE UNCHANGED <<queue, results>>
    /\ UNCHANGED <<created, pending, dropped, phase>>

\* assume(), and the constraints put on a new pointer or on an index.
Assume(p, c) ==
    /\ Running(p)
    /\ pending[p] = Inputs
    /\ mem' = [mem EXCEPT ![p] = AddCond(mem[p], c)]
    /\ dropped' = dropped \cup (mem[p].asserted \ c)
    /\ UNCHANGED <<created, queue, pending, results, phase>>

\* Mutant: the clone does not count as a new state.
ForkUncounted(p, c) ==
    /\ Running(p)
    /\ pending[p] = Inputs
    /\ created < MaxPaths
    /\ queue' = queue \cup {created + 1}
    /\ mem' = [mem EXCEPT ![created + 1] = Clone(mem[p])]
    /\ pending' = [pending EXCEPT ![p] = c, ![created + 1] = Inputs \ c]
    /\ UNCHANGED <<created, results, dropped, phase>>

\* Mutant: both states get the condition of the first branch.
ForkSameCond(p, c) ==
    /\ Running(p)
    /\ pending[p] = Inputs
    /\ created < MaxPaths
    /\ created' = created + 1
    /\ queue' = queue \cup {created + 1}
    /\ mem' = [mem EXCEPT ![created + 1] = Clone(mem[p])]
    /\ pending' = [pending EXCEPT ![p] = c, ![created + 1] = c]
    /\ UNCHANGED <<results, dropped, phase>>

(***************************************************************************)
(* SsaBranchControlNode: the state is cloned, both states get an           *)
(* SsaStartBranchNode, and both are in the queue afterwards.               *)
(***************************************************************************)
Fork(p, c) ==
    /\ Running(p)
    /\ pending[p] = Inputs
    /\ created < MaxPaths
    /\ created' = created + 1
    /\ queue' = queue \cup {created + 1}
    /\ mem' = [mem EXCEPT ![created + 1] = Clone(mem[p])]
    /\ pending' = [pending EXCEPT ![p] = c, ![created + 1] = Inputs \ c]
    /\ UNCHANGED <<results, dropped, phase>>

StartBranch(p) ==
    /\ Running(p)
    /\ mem' = [mem EXCEPT ![p] = AddCond(mem[p], pending[p])]
    /\ pending' = [pending EXCEPT ![p] = Inputs]
    /\ UNCHANGED <<created, queue, results, dropped, phase>>

\* Mutant: the path stays in the queue.
ReturnAgain(p) ==
    /\ Running(p)
    /\ pending[p] = Inputs
    /\ results' = results \cup {ResultOf("return", FullPathCond(mem[p]))}
    /\ UNCHANGED <<created, queue, mem, pending, dropped, phase>>

\* The return of the function under test (size 0 in interpretLoop).
Return(p) ==
    /\ Running(p)
    /\ pending[p] = Inputs
    /\ UNCHANGED mem
    /\ End(p, {ResultOf("return", FullPathCond(mem[p]))})
    /\ UNCHANGED <<created, pending, dropped, phase>>

\* A path that no input takes any more is stopped (size -1).
Stop(p) ==
    /\ Running(p)
    /\ pending[p] = Inputs
    /\ mem[p].asserted = {}
    /\ UNCHANGED mem
    /\ End(p, {})
    /\ UNCHANGED <<created, pending, dropped, phase>>

\* Mutant: the queue is thrown away.
TimeoutForgetting ==
    /\ phase = "run"
    /\ queue # {}
    /\ phase' = "timeout"
    /\ queue' = {}
    /\ UNCHANGED <<created, mem, pending, results, dropped>>

\* yield() throws CancellationException: the queue is drained for errors.
Timeout ==
    /\ phase = "run"
    /\ queue # {}
    /\ phase' = "timeout"
    /\ queue' = {}
    /\ results' = results \cup UNION {ErrorsOf(mem[p]) : p \in queue}
    /\ UNCHANGED <<created, mem, pending, dropped>>

\* error() or TODO() in one path leaves startFunction without any result.
Crash ==
    /\ phase = "run"
    /\ queue # {}
    /\ phase' = "crashed"
    /\ queue' = {}
    /\ results' = {}
    /\ UNCHANGED <<created, mem, pending, dropped>>

Finish ==
    /\ phase = "run"
    /\ queue = {}
    /\ phase' = "done"
    /\ UNCHANGED <<created, queue, mem, pending, results, dropped>>

Terminated == phase # "run" /\ UNCHANGED vars

Step(p) ==
    \/ \E c \in Conditions : CheckError(p, c) \/ Assume(p, c) \/ Fork(p, c)
    \/ StartBranch(p)
    \/ Return(p)
    \/ Stop(p)

Next ==
    \/ \E p \in PathIds : Step(p)
    \/ Timeout
    \/ Crash
    \/ Finish
    \/ Terminated

Spec == Init /\ [][Next]_vars

-----------------------------------------------------------------------------

\* The inputs that run along path p, as far as its conditions say.
Inhabitants(p) == mem[p].path \cap pending[p]

Returns == {r \in results : r.kind = "return"}

(***************************************************************************)
(* The solver of a live path was told at least the path's own condition:   *)
(* an UNSAT answer never stops a path whose fullPathCond() says otherwise  *)
(* for an input it did not first report as an error.  addCond tells both,  *)
(* addError and clone tell them different things.                          *)
(***************************************************************************)
SolverKnowsPath ==
    \A p \in queue : mem[p].asserted \subseteq FullPathCond(mem[p])

(***************************************************************************)
(* No input runs along two live paths, even between the clone of a state   *)
(* and the two branch conditions that are added in later steps.            *)
(***************************************************************************)
PathsExclusive ==
    \A p, q \in queue : p # q => Inhabitants(p) \cap Inhabitants(q) = {}

(***************************************************************************)
(* An input returns once: the condition of a SymbolicReturn meets neither  *)
(* a live path nor another SymbolicReturn.                                 *)
(***************************************************************************)
ReturnsExclusive ==
    \A r \in Returns :
        /\ \A p \in queue : r.cond \cap Inhabitants(p) = {}
        /\ \A s \in Returns : r # s => r.cond \cap s.cond = {}

\* Input i is accounted for: it still runs, or some result or error has it.
Alive(i) == \E p \in queue : i \in mem[p].asserted \cap pending[p]
Failed(i) == \E p \in queue : \E c \in mem[p].errors : i \in c
Reported(i) == \E r \in results : i \in r.cond

(***************************************************************************)
(* Unless the exploration was cut short, no input disappears: what the     *)
(* program's own assume() did not rule out is still explored, or is in the *)
(* condition of an error or of a return.                                   *)
(***************************************************************************)
NoInputLost ==
    phase \in {"run", "done"} =>
        \A i \in Inputs : i \in dropped \/ Alive(i) \/ Failed(i) \/ Reported(i)

(***************************************************************************)
(* An error that was found stays found, also when time runs out and the    *)
(* queue is drained; only a crash throws errors away.                      *)
(***************************************************************************)
FoundErrors == (UNION {ErrorsOf(mem[p]) : p \in queue})
                 \cup {r \in results : r.kind = "error"}
ErrorsKept == [][phase' # "crashed" => FoundErrors \subseteq FoundErrors']_vars

(***************************************************************************)
(* What addError's message says of an error it is sure of, by saying it of *)
(* the others only ("saving as an error, but not removing from path"): its *)
(* inputs leave the path.                                                  *)
(***************************************************************************)
ErrorsLeavePath ==
    \A p \in queue : \A c \in mem[p].errors : c \cap FullPathCond(mem[p]) = {}
=============================================================================
