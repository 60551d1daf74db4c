--------------------------- MODULE DynInterpreter ---------------------------
(***************************************************************************)
(* The dynamic interpreter: the two functions translator gives for every   *)
(* node (SsaStaticInterpreter.kt) with the overrides of                    *)
(* SsaDynamicInterpreter.kt, run by interpretStep over the states of the   *)
(* queue.                                                                  *)
(*                                                                         *)
(* waitingNodes and startedNodes are kept as one stack of frames: a        *)
(* started node, the children it still waits for (up to the null that      *)
(* startNodeInterpretation puts after them), and the list its children add *)
(* their results to.  A step starts the first waiting node of the top      *)
(* frame, or, if none waits there, ends the frame.                         *)
(*                                                                         *)
(* A symbolic value is the function from the inputs to the value it has.   *)
(* The operands of an instruction are evaluated in the step of the         *)
(* instruction: their own steps only read and extend the list of results.  *)
(***************************************************************************)
EXTENDS SsaProgram, PathCondition

CONSTANTS Programs,  \* the functions to interpret: Programs[name] is a
                     \* record of the id of the function and all nodes
          MaxPaths,  \* bound: the number of states that may be made
          MaxDepth,  \* maxExecutionDepth
          Dfs        \* the programs that are interpreted with dfsQueue

ASSUME ProgramsAssumption == \A P \in DOMAIN Programs : IsProgram(Programs[P])
ASSUME MaxDepthAssumption == MaxDepth \in Nat
ASSUME DfsAssumption == Dfs \subseteq DOMAIN Programs
ASSUME MaxPathsAssumption == MaxPaths \in Nat \ {0}

PathIds == 1 .. MaxPaths

VARIABLES prog,       \* the name of what is interpreted (never changes)
          created,    \* stateCounter: how many states were made so far
          queue,      \* the states in the queue
          mem,        \* the path condition and the solver of each state
          st,         \* the rest of each state
          terminals,  \* terminalNodes that were not found yet
          results,    \* the results collected so far
          dropped,    \* inputs that assume() ruled out (auxiliary)
          current,    \* the state that made the last step, with dfsQueue
          phase       \* "run", or how the interpretation ended

vars == <<prog, created, queue, mem, st, terminals, results, dropped, current, phase>>

G == Programs[prog].nodes
Main == Programs[prog].main

\* The graph analysis of every program, done before it is interpreted.
Terminals0 == [P \in DOMAIN Programs |->
                 TerminalNodes(Programs[P].nodes, Programs[P].main)]
Distances == [P \in DOMAIN Programs |->
                DistToTerminal(Programs[P].nodes, Programs[P].main)]

NodeWithId(n) ==
    [f \in DOMAIN G[n] \cup {"id"} |-> IF f = "id" THEN n ELSE G[n][f]]

NoValue == <<>>  \* null: no function of the inputs

\* Nodes that are no nodes of the program have id 0.
RootNode == [kind |-> "Root", id |-> NoNode]
StopNode == [kind |-> "Stop", id |-> NoNode]
\* PanicSsaNode("path stopped by interpreter")
PruneNode == [kind |-> "Prune", id |-> NoNode]
KeepResultNode(stop) == [kind |-> "KeepResult", id |-> NoNode, stop |-> stop]
StartFunctionNode(f) == [kind |-> "StartFunction", id |-> NoNode, func |-> f]
ForcePhiNode(n) == [kind |-> "ForcePhi", id |-> NoNode, phi |-> n]
LinkNode(n) == [kind |-> "Link", id |-> NoNode, to |-> n]
BranchControlNode(node) ==
    [kind |-> "BranchControl", id |-> NoNode,
     body |-> node.body, elseBody |-> node.elseBody]
\* Mutant: the condition is forgotten.
StartBranchNodeAlways(body, cond) ==
    [kind |-> "StartBranch", id |-> NoNode, body |-> body, cond |-> Inputs]
StartBranchNode(body, cond) ==
    [kind |-> "StartBranch", id |-> NoNode, body |-> body, cond |-> cond]

(***************************************************************************)
(* The fields of a state:                                                  *)
(*   stack    its frames, the top one last                                 *)
(*   levels   instrOnPathStack, the blocks of it: the newest level first,  *)
(*            and the newest block first in each level                     *)
(*   locals   localVariablesStack, the current function last               *)
(*   visited  visitedNodes                                                 *)
(*   found    the SymbolicErrors of its memory                             *)
(***************************************************************************)
Frame(node, rest, args) == [node |-> node, rest |-> rest, args |-> args]

Top(s) == Last(s.stack)
Waiting(s) == Head(Top(s).rest)
IsWaiting(s) == Top(s).rest # <<>>

\* The waiting node is taken, and added to the visited nodes if it has an id.
Take(s) ==
    [s EXCEPT !.stack[Len(s.stack)].rest = Tail(@),
              !.visited = @ \cup ({Waiting(s).id} \ {NoNode}),
              !.levels = IF Waiting(s).kind = "Block"
                         THEN <<<<Waiting(s).id>> \o Head(@)>> \o Tail(@) ELSE @]

\* The waiting node is started, and its children wait.
Start(s, children, args) ==
    LET t == Take(s)
    IN  [t EXCEPT !.stack = Append(@, Frame(Waiting(s), children, args))]

\* The result of a child is added to what the frame it belongs to collects;
\* what a block collects is never read, and not kept here.
Deliver(s, v) ==
    [s EXCEPT !.stack[Len(s.stack)].args =
       IF Top(s).node.kind = "Block" THEN @ ELSE Append(@, v)]

Pop(s) == [s EXCEPT !.stack = Front(@)]

ErrorResults(s) == {[kind |-> "error", cond |-> e.cond, what |-> e.what,
                     visited |-> e.visited, val |-> NoValue] : e \in s.found}

-----------------------------------------------------------------------------

(* Values *)

(***************************************************************************)
(* The operators on bit vectors, short of overflow.  The quotient, which   *)
(* truncates, and the modulus, which has the sign of the divisor, are      *)
(* defined for a zero divisor too.                                         *)
(***************************************************************************)
Magnitude(a) == IF a < 0 THEN -a ELSE a
Quotient(a, b) == IF b = 0 THEN IF a < 0 THEN 1 ELSE -1
                  ELSE IF (a < 0) = (b < 0) THEN Magnitude(a) \div Magnitude(b)
                  ELSE -(Magnitude(a) \div Magnitude(b))
Modulus(a, b) == IF b = 0 THEN a ELSE IF b > 0 THEN a % b ELSE -((-a) % (-b))

VisitOp(op, a, b) ==
    CASE op = "+" -> a + b
      [] op = "-" -> a - b
      [] op = "*" -> a * b
      [] op = "/" -> Quotient(a, b)
      [] op = "%" -> Modulus(a, b)
      [] op = "<" -> a < b
      [] op = ">" -> a > b
      [] op = "<=" -> a <= b
      [] op = ">=" -> a >= b
      [] op = "==" -> a = b
      [] op = "!=" -> a # b

Operate(op, a, b) == [i \in Inputs |-> VisitOp(op, a[i], b[i])]
Negate(a) == [i \in Inputs |-> -a[i]]

\* Mutant: the branches are swapped.
CondOfElse(v) == {i \in Inputs : v[i] = FALSE}

CondOf(v) == {i \in Inputs : v[i] = TRUE}

\* Mutants: the negation is lost; no input divides by zero.
NonZeroCond(v) == {i \in Inputs : v[i] # 0}
NoZeroCond(v) == {}

ZeroCond(v) == {i \in Inputs : v[i] = 0}

Locals(s) == Last(s.locals)

(***************************************************************************)
(* A link reads the value the node has, and evaluates the node if it has   *)
(* none; a phi that has none is an error.                                  *)
(***************************************************************************)
ReadIn(locals, n) ==
    LET value[m \in DOMAIN G] ==
          IF m \in DOMAIN locals THEN locals[m]
          ELSE CASE G[m].kind = "Const" -> [i \in Inputs |-> G[m].value]
                 [] G[m].kind = "BinOp" ->
                      IF NoValue \in {value[G[m].x], value[G[m].y]} THEN NoValue
                      ELSE Operate(G[m].op, value[G[m].x], value[G[m].y])
                 [] G[m].kind = "UnOp" ->
                      IF value[G[m].x] = NoValue THEN NoValue
                      ELSE Negate(value[G[m].x])
                 [] OTHER -> NoValue
    IN  value[n]

Read(s, n) == ReadIn(Locals(s), n)

\* The value of an operator node computed anew from its operands.
Compute(s, n) == IF G[n].kind = "UnOp" THEN Negate(Read(s, G[n].x))
                 ELSE Operate(G[n].op, Read(s, G[n].x), Read(s, G[n].y))

\* ite: decided by the solver where it can be.
Ite(m, cond, a, b) ==
    IF m.asserted \cap cond = {} THEN b
    ELSE IF m.asserted \ cond = {} THEN a
    ELSE [i \in Inputs |-> IF i \in cond THEN a[i] ELSE b[i]]

WriteValue(s, m, n, v) ==
    LET old == Locals(s)
        new == IF n \in DOMAIN old THEN Ite(m, FullPathCond(m), v, old[n]) ELSE v
    IN  [s EXCEPT !.locals[Len(s.locals)] =
           [k \in DOMAIN old \cup {n} |-> IF k = n THEN new ELSE old[k]]]

-----------------------------------------------------------------------------

(* The initial state, and how a step ends *)

MainArgs == [k \in DOMAIN G[Main].params |->
               [i \in Inputs |-> ParamValue(G[G[Main].params[k]], i[k])]]

InitialState ==
    [stack   |-> <<Frame(RootNode, <<StartFunctionNode(Main)>>, MainArgs)>>,
     levels  |-> <<<<>>>>,
     locals  |-> <<<<>>>>,
     visited |-> {},
     found   |-> {}]

Init ==
    /\ prog \in DOMAIN Programs
    /\ created = 1
    /\ queue = {1}
    /\ mem = [p \in PathIds |-> NewMemory]
    /\ st = [p \in PathIds |-> InitialState]
    /\ terminals = Terminals0[prog]
    /\ results = {}
    /\ dropped = {}
    /\ current = 1
    /\ phase = "run"

Starts(p, kinds) ==
    /\ phase = "run"
    /\ p \in queue
    /\ IsWaiting(st[p])
    /\ Waiting(st[p]).kind \in kinds

Ends(p, kinds) ==
    /\ phase = "run"
    /\ p \in queue
    /\ ~ IsWaiting(st[p])
    /\ Top(st[p]).node.kind \in kinds

\* The state goes back to the queue with s as its new contents.
GoOn(p, s) ==
    /\ st' = [st EXCEPT ![p] = s]
    /\ UNCHANGED <<prog, created, queue, results, phase>>

\* Size -1: the state is forgotten, its errors are kept.
Abandon(p, s) ==
    /\ st' = [st EXCEPT ![p] = s]
    /\ queue' = queue \ {p}
    /\ results' = results \cup ErrorResults(s)
    /\ UNCHANGED <<prog, created, phase>>

\* Mutant: all returns are taken for the same node.
WithoutReturns(n) == {t \in terminals : G[t].kind # "Return"}

\* updateDistancesToTerminal: node n was found.
WithoutTerminal(n) == terminals \ {n}

\* Mutant: a path may be as deep as it likes.
IsNodeUsefulAtAnyDepth(n, s) ==
    n \in DOMAIN Distances[prog] => Distances[prog][n] \cap terminals # {}

(***************************************************************************)
(* isNodeUseful: not too deep, and some terminal node that was not found   *)
(* yet can follow; a node the analysis does not know is taken as useful.   *)
(***************************************************************************)
IsNodeUseful(n, s) ==
    /\ Len(s.levels) <= MaxDepth
    /\ n \in DOMAIN Distances[prog] => Distances[prog][n] \cap terminals # {}

UsefulChildren(n, s, children) ==
    IF IsNodeUseful(n, s) THEN children ELSE <<PruneNode>>

\* The phi's edge is that of the last block on the path that it has one for.
InstrOnPath(s) == FlattenSeq(s.levels)
\* Mutant: the blocks of the current branch only.
PhiBlocksOfBranch(s, n) == SelectSeq(Head(s.levels), LAMBDA b : b \in DOMAIN G[n].edges)

PhiBlocks(s, n) == SelectSeq(InstrOnPath(s), LAMBDA b : b \in DOMAIN G[n].edges)
\* Mutant: the first block on the path.
PhiEdgeOldest(s, n) == G[n].edges[Last(PhiBlocks(s, n))]

PhiEdge(s, n) == G[n].edges[Head(PhiBlocks(s, n))]
IsNested(s, n) ==
    /\ Head(PhiBlocks(s, n)) \in G[n].nested
    /\ IsComputed(G[PhiEdge(s, n)])

\* Some phi holds node n, so that its block has a link to it.
IsHeldByPhi(n) ==
    \E m \in DOMAIN G : /\ G[m].kind = "Phi"
                        /\ \E b \in G[m].nested : G[m].edges[b] = n

(***************************************************************************)
(* The operands that are read in the step that starts the waiting node.    *)
(***************************************************************************)
Operands(s) ==
    LET w == Waiting(s) IN
    CASE w.kind = "If"     -> IF IsNodeUseful(w.id, s) THEN <<w.cond>> ELSE <<>>
      [] w.kind = "Return" -> IF IsNodeUseful(w.id, s) THEN w.res ELSE <<>>
      [] w.kind = "Call"   -> w.args
      [] w.kind = "BinOp"  -> <<w.x, w.y>>
      [] w.kind = "UnOp"   -> <<w.x>>
      [] w.kind = "ForcePhi" -> IF PhiBlocks(s, w.phi) = <<>> THEN <<>>
                                ELSE IF IsNested(s, w.phi) THEN <<>>
                                ELSE <<PhiEdge(s, w.phi)>>
      [] OTHER -> <<>>

OperandValues(s) == [k \in DOMAIN Operands(s) |-> Read(s, Operands(s)[k])]
OperandsReady(s) == NoValue \notin Range(OperandValues(s))

-----------------------------------------------------------------------------

(* The control graph *)

\* A phi of a block is evaluated when the block is entered, by an
\* SsaForcePhiNode of its own; what a phi holds is only linked to.
StartBlock(p) ==
    /\ Starts(p, {"Block"})
    /\ LET s == st[p]
           n == Waiting(s).id
           instr == [k \in DOMAIN G[n].instr |->
                       LET m == G[n].instr[k] IN
                       CASE G[m].kind = "Phi" -> ForcePhiNode(m)
                         [] IsHeldByPhi(m)    -> LinkNode(m)
                         [] OTHER             -> NodeWithId(m)]
       IN  GoOn(p, Start(s, UsefulChildren(n, s, instr), <<>>))
    /\ UNCHANGED <<mem, terminals, dropped>>

StartIf(p) ==
    /\ Starts(p, {"If"})
    /\ OperandsReady(st[p])
    /\ LET s == st[p]
           n == Waiting(s).id
       IN  GoOn(p, Start(s, UsefulChildren(n, s, <<BranchControlNode(G[n])>>),
                         OperandValues(s)))
    /\ UNCHANGED <<mem, terminals, dropped>>

\* startDynamicNodeInterpretation: the clone takes the else branch.
BranchControl(p) ==
    /\ Starts(p, {"BranchControl"})
    /\ created < MaxPaths
    /\ LET s == st[p]
           w == Waiting(s)
           cond == CondOf(Top(s).args[1])
           Branch(body, c) == Start(s, <<StartBranchNode(body, c)>>, <<>>)
       IN  /\ created' = created + 1
           /\ queue' = queue \cup {created + 1}
           /\ mem' = [mem EXCEPT ![created + 1] = Clone(mem[p])]
           /\ st' = [st EXCEPT ![p] = Branch(w.body, cond),
                               ![created + 1] = Branch(w.elseBody, Inputs \ cond)]
    /\ UNCHANGED <<prog, terminals, results, dropped, phase>>

\* A new level of instrOnPathStack, that is never removed by this node.
StartBranch(p) ==
    /\ Starts(p, {"StartBranch"})
    /\ LET s == st[p]
           w == Waiting(s)
           m == AddCond(mem[p], w.cond)
       IN  \E sat \in Answers(m.asserted) :
             LET child == IF sat = "UNSAT" THEN StopNode ELSE NodeWithId(w.body)
             IN  /\ mem' = [mem EXCEPT ![p] = m]
                 /\ GoOn(p, [Start(s, <<child>>, <<>>) EXCEPT
                               !.levels = <<<<>>>> \o @])
    /\ UNCHANGED <<terminals, dropped>>

Stop(p) ==
    /\ Starts(p, {"Stop"})
    /\ Abandon(p, st[p])
    /\ UNCHANGED <<mem, terminals, dropped>>

StartJump(p) ==
    /\ Starts(p, {"Jump"})
    /\ LET s == st[p]
           n == Waiting(s).id
           successor == <<NodeWithId(G[n].successor)>>
       IN  GoOn(p, Start(s, UsefulChildren(n, s, successor), <<>>))
    /\ UNCHANGED <<mem, terminals, dropped>>

StartReturn(p) ==
    /\ Starts(p, {"Return"})
    /\ OperandsReady(st[p])
    /\ LET s == st[p]
       IN  GoOn(p, Start(s, UsefulChildren(Waiting(s).id, s, <<>>), OperandValues(s)))
    /\ UNCHANGED <<mem, terminals, dropped>>

\* Mutant: the unwinding goes on to the first call.
FirstCallFrame(s) == CHOOSE k \in DOMAIN s.stack :
                       /\ s.stack[k].node.kind = "StartFunction"
                       /\ \A j \in DOMAIN s.stack :
                             s.stack[j].node.kind = "StartFunction" => k <= j

(***************************************************************************)
(* finishDynamicReturnInterpretation unwinds the stack to the call of the  *)
(* function, whose frame then ends: exitFunction removes the locals and    *)
(* the two newest levels of instrOnPathStack, whichever these are.         *)
(***************************************************************************)
CallFrame(s) == CHOOSE k \in DOMAIN s.stack :
                  /\ s.stack[k].node.kind = "StartFunction"
                  /\ \A j \in DOMAIN s.stack :
                        s.stack[j].node.kind = "StartFunction" => j <= k

\* Mutant: the locals of the caller go too.
ExitTwoFunctions(s) == [s EXCEPT !.stack = SubSeq(@, 1, CallFrame(s) - 1),
                                 !.levels = Tail(Tail(@)),
                                 !.locals = Front(Front(@))]

ExitFunction(s) == [s EXCEPT !.stack = SubSeq(@, 1, CallFrame(s) - 1),
                             !.levels = Tail(Tail(@)),
                             !.locals = Front(@)]

EndReturn(p) ==
    /\ Ends(p, {"Return"})
    /\ LET s == st[p]
           t == ExitFunction(s)
           value == IF Top(s).args = <<>> THEN NoValue ELSE Top(s).args[1]
           ret == [kind |-> "return", cond |-> FullPathCond(mem[p]),
                   what |-> "return", visited |-> s.visited, val |-> value]
       IN  /\ terminals' = WithoutTerminal(Top(s).node.id)
           /\ IF Len(t.stack) = 1  \* nothing waits any more
              THEN /\ st' = [st EXCEPT ![p] = t]
                   /\ queue' = queue \ {p}
                   /\ results' = results \cup ErrorResults(s) \cup {ret}
                   /\ UNCHANGED <<prog, created, phase>>
              ELSE GoOn(p, Deliver(t, value))
    /\ UNCHANGED <<mem, dropped>>

\* Mutant: an error the solver gave no answer about is not saved.
FoundIfSat(s, sat, error) ==
    IF sat = "SAT" THEN s.found \cup {error} ELSE s.found

Found(s, sat, error) ==
    IF sat = "UNSAT" THEN s.found ELSE s.found \cup {error}

(***************************************************************************)
(* addError, followed by the check that throws UnSatPathException.  The    *)
(* state is t if the path goes on.                                         *)
(***************************************************************************)
CheckError(p, cond, what, s, t) ==
    /\ \E sat \in ErrorAnswers(mem[p], cond) :
         LET error == [cond |-> cond \cap FullPathCond(mem[p]), what |-> what,
                       visited |-> s.visited]
             found == Found(s, sat, error)
         IN  /\ mem' = [mem EXCEPT ![p] = AddError(mem[p], cond, sat)]
             /\ \E after \in Answers(mem[p].asserted \ cond) :
                  IF after = "UNSAT" THEN Abandon(p, [s EXCEPT !.found = found])
                  ELSE GoOn(p, [t EXCEPT !.found = found])
    /\ UNCHANGED <<terminals, dropped>>

StartPanic(p) ==
    /\ Starts(p, {"Panic", "Prune"})
    /\ LET t == Start(st[p], <<>>, <<>>)
       IN  CheckError(p, Inputs, Waiting(st[p]).kind, Take(st[p]), t)

\* finishDynamicPanicInterpretation gives an SsaStopNode.
EndPanic(p) ==
    /\ Ends(p, {"Panic", "Prune"})
    /\ terminals' = WithoutTerminal(Top(st[p]).node.id)
    /\ Abandon(p, st[p])
    /\ UNCHANGED <<mem, dropped>>

-----------------------------------------------------------------------------

(* Calls *)

StartCall(p) ==
    /\ Starts(p, {"Call"})
    /\ OperandsReady(st[p])
    /\ LET s == st[p]
       IN  GoOn(p, Start(s, <<StartFunctionNode(Waiting(s).func)>>, OperandValues(s)))
    /\ UNCHANGED <<mem, terminals, dropped>>

\* The value of a finished node is written under its name, if there is one.
EndCall(p) ==
    /\ Ends(p, {"Call"})
    /\ LET s == st[p]
           value == Last(Top(s).args)
           t == IF value = NoValue THEN s
                ELSE WriteValue(s, mem[p], Top(s).node.id, value)
       IN  GoOn(p, Deliver(Pop(t), value))
    /\ UNCHANGED <<mem, terminals, dropped>>

HasBody(f) == G[f].body # NoNode

\* enterFunction; the arguments are what the call has collected so far.
StartFunction(p) ==
    /\ Starts(p, {"StartFunction"})
    /\ LET s == st[p]
           f == Waiting(s).func
           params == [n \in Range(G[f].params) |->
                        Top(s).args[CHOOSE k \in DOMAIN G[f].params :
                                      G[f].params[k] = n]]
       IN  /\ HasBody(f)
           /\ GoOn(p, [Start(s, <<NodeWithId(G[f].body)>>, <<>>) EXCEPT
                         !.levels = <<<<>>, <<>>>> \o @,
                         !.locals = Append(@, params)])
    /\ UNCHANGED <<mem, terminals, dropped>>

\* The external function assume.
StartAssume(p) ==
    /\ Starts(p, {"StartFunction"})
    /\ LET s == st[p]
           cond == CondOf(Top(s).args[1])
           m == AddCond(mem[p], cond)
       IN  /\ ~ HasBody(Waiting(s).func)
           /\ \E sat \in Answers(m.asserted) :
                /\ mem' = [mem EXCEPT ![p] = m]
                /\ dropped' = dropped \cup (mem[p].asserted \ cond)
                /\ GoOn(p, Start(s, <<KeepResultNode(sat = "UNSAT")>>, <<>>))
    /\ UNCHANGED terminals

\* StopSymbolic, which assume leaves when no input is left, ends the path.
KeepResult(p) ==
    /\ Starts(p, {"KeepResult"})
    /\ IF Waiting(st[p]).stop THEN Abandon(p, st[p])
       ELSE GoOn(p, Deliver(Take(st[p]), NoValue))
    /\ UNCHANGED <<mem, terminals, dropped>>

EndAssume(p) ==
    /\ Ends(p, {"StartFunction"})
    /\ GoOn(p, Deliver(Pop(st[p]), Top(st[p]).args[1]))
    /\ UNCHANGED <<mem, terminals, dropped>>

-----------------------------------------------------------------------------

(* Values *)

\* An operator; a division or a modulus checks its divisor first.
StartBinOp(p) ==
    /\ Starts(p, {"BinOp", "UnOp"})
    /\ OperandsReady(st[p])
    /\ LET s == st[p]
           n == Waiting(s).id
           v == Compute(s, n)
           zero == ZeroCond(Read(s, G[n].y))
           Done(m) == Deliver(WriteValue(Take(s), m, n, v), v)
       IN  IF G[n].op \in {"/", "%"}
           THEN CheckError(p, zero, "divisionByZero", Take(s),
                           Done(AddError(mem[p], zero, "SAT")))
           ELSE /\ GoOn(p, Done(mem[p]))
                /\ UNCHANGED <<mem, terminals, dropped>>

\* A link: a node that has a value is not evaluated again.
StartLink(p) ==
    /\ Starts(p, {"Link"})
    /\ LET s == st[p]
           n == Waiting(s).to
       IN  GoOn(p, IF n \in DOMAIN Locals(s) THEN Deliver(Take(s), Read(s, n))
                   ELSE [s EXCEPT !.stack[Len(s.stack)].rest =
                           <<NodeWithId(n)>> \o Tail(@)])
    /\ UNCHANGED <<mem, terminals, dropped>>

\* SsaForcePhiNode: an edge that holds an operator or a call evaluates it anew.
StartForcePhi(p) ==
    /\ Starts(p, {"ForcePhi"})
    /\ OperandsReady(st[p])
    /\ LET s == st[p]
           n == Waiting(s).phi
       IN  /\ PhiBlocks(s, n) # <<>>
           /\ GoOn(p, Start(s, IF IsNested(s, n) THEN <<NodeWithId(PhiEdge(s, n))>>
                               ELSE <<>>, OperandValues(s)))
    /\ UNCHANGED <<mem, terminals, dropped>>

\* The value is written under the name of the phi, if there is one.
EndForcePhi(p) ==
    /\ Ends(p, {"ForcePhi"})
    /\ LET s == st[p]
           v == Last(Top(s).args)
           t == IF v = NoValue THEN s ELSE WriteValue(s, mem[p], Top(s).node.phi, v)
       IN  GoOn(p, Deliver(Pop(t), v))
    /\ UNCHANGED <<mem, terminals, dropped>>

-----------------------------------------------------------------------------

(* The end of the interpretation *)

(***************************************************************************)
(* error(): a phi without an edge for the path ("unreachable phi"), or an  *)
(* operand that has no value ("phi wasn't done before read").  The         *)
(* exception leaves startFunction, and the function has no results.        *)
(***************************************************************************)
Crash(p) ==
    /\ phase = "run"
    /\ p \in queue
    /\ IsWaiting(st[p])
    /\ \/ ~ OperandsReady(st[p])
       \/ /\ Waiting(st[p]).kind = "ForcePhi"
          /\ PhiBlocks(st[p], Waiting(st[p]).phi) = <<>>
    /\ phase' = "crashed"
    /\ queue' = {}
    /\ results' = {}
    /\ UNCHANGED <<prog, created, mem, st, terminals, dropped>>

\* Mutant: the queue is thrown away.
TimeoutForgetting ==
    /\ phase = "run"
    /\ queue # {}
    /\ phase' = "timeout"
    /\ queue' = {}
    /\ UNCHANGED <<prog, created, mem, st, terminals, results, dropped, current>>

\* withTimeout cancels the interpreter at the yield() before a step.
Timeout ==
    /\ phase = "run"
    /\ queue # {}
    /\ phase' = "timeout"
    /\ queue' = {}
    /\ results' = results \cup UNION {ErrorResults(st[p]) : p \in queue}
    /\ UNCHANGED <<prog, created, mem, st, terminals, dropped, current>>

Finish ==
    /\ phase = "run"
    /\ queue = {}
    /\ phase' = "done"
    /\ UNCHANGED <<prog, created, queue, mem, st, terminals, results, dropped, current>>

Terminated == phase # "run" /\ UNCHANGED vars

Step(p) ==
    \/ StartBlock(p) \/ StartIf(p) \/ BranchControl(p) \/ StartBranch(p)
    \/ Stop(p) \/ StartJump(p) \/ StartReturn(p) \/ EndReturn(p)
    \/ StartPanic(p) \/ EndPanic(p)
    \/ StartCall(p) \/ EndCall(p)
    \/ StartFunction(p) \/ StartAssume(p) \/ KeepResult(p) \/ EndAssume(p)
    \/ StartBinOp(p) \/ StartLink(p) \/ StartForcePhi(p) \/ EndForcePhi(p)
    \/ Crash(p)

(***************************************************************************)
(* queue.get(): dfsQueue goes on with the state it got last, and with the  *)
(* newest one when that has left (NewestForkFirst of InterpreterQueue);    *)
(* the random queues may give any state.                                   *)
(***************************************************************************)
IsNext(p) ==
    prog \in Dfs => p = IF current \in queue THEN current
                         ELSE CHOOSE newest \in queue : \A q \in queue : q <= newest

InterpretStep(p) ==
    /\ p \in queue
    /\ IsNext(p)
    /\ Step(p)
    /\ current' = IF prog \in Dfs THEN p ELSE current

Next ==
    \/ \E p \in PathIds : InterpretStep(p)
    \/ Timeout
    \/ Finish
    \/ Terminated

Spec == Init /\ [][Next]_vars

(***************************************************************************)
(* interpretLoop takes a step as long as the queue has a state; it does    *)
(* not rely on the timeout.                                                *)
(***************************************************************************)
Fairness ==
    /\ WF_vars(\E p \in PathIds : InterpretStep(p))
    /\ WF_vars(Finish)

FairSpec == Spec /\ Fairness
=============================================================================
