------------------------ MODULE DynRefinement_proofs ------------------------
(***************************************************************************)
(* Proofs about the dynamic interpreter, for all programs and inputs,      *)
(* every bound, and a solver that may or may not run into its timeout: the *)
(* state has its type, and the interpreter implements PathExploration.     *)
(***************************************************************************)
EXTENDS DynRefinement, PathCondition_proofs, FiniteSetTheorems, SequenceTheorems, TLAPS

IsSeq(q) == q \in Seq(Range(q))

NodesOf(P) == Programs[P].nodes

\* Nodes that are started at once, by the step after the one that made them.
Transient == {"StartBranch", "Stop", "KeepResult"}

OwnKinds == Transient \cup {"Root", "Prune", "StartFunction", "ForcePhi",
                            "Link", "BranchControl"}
ProgramKinds == {"Func", "Block", "If", "Jump", "Return", "Panic", "Call",
                 "BinOp", "UnOp", "Const", "Param", "Phi"}

BodyOf(P, f) == NodesOf(P)[f].body

\* What a node that is started or waits refers to is in the program.
NodeOk(P, w) ==
    LET N == DOMAIN NodesOf(P) IN
    /\ w.kind \in OwnKinds \cup ProgramKinds
    /\ w.id \in N \cup {NoNode}
    /\ w.kind \in ProgramKinds => /\ w.id \in N
                                  /\ w.kind = NodesOf(P)[w.id].kind
    /\ w.kind \in {"Call", "StartFunction"} => /\ w.func \in N
                                               /\ NodesOf(P)[w.func].kind = "Func"
    /\ w.kind = "Link" => w.to \in N
    /\ w.kind = "ForcePhi" => w.phi \in N /\ NodesOf(P)[w.phi].kind = "Phi"
    /\ w.kind = "BranchControl" => /\ w.body \in N /\ w.elseBody \in N
                                   /\ NodesOf(P)[w.body].kind = "Block"
                                   /\ NodesOf(P)[w.elseBody].kind = "Block"
    /\ w.kind = "StartBranch" => /\ w.body \in N
                                 /\ NodesOf(P)[w.body].kind = "Block"
                                 /\ w.cond \in Conditions

IsCall(P, w) == w.kind = "StartFunction" /\ BodyOf(P, w.func) # NoNode

FrameOk(P, f) ==
    /\ f = Frame(f.node, f.rest, f.args)
    /\ IsSeq(f.rest)
    /\ NodeOk(P, f.node)
    /\ \A j \in 1 .. Len(f.rest) :
         /\ NodeOk(P, f.rest[j])
         /\ f.rest[j].kind \in Transient => Len(f.rest) = 1
         /\ f.node.kind = "StartFunction" =>
              f.rest[j].kind = IF IsCall(P, f.node) THEN "Block" ELSE "KeepResult"
         /\ f.node.kind = "Root" => f.rest[j].kind = "StartFunction"
    /\ f.node.kind \in {"Panic", "Prune"} => f.rest = <<>>

\* A frame f with a frame on top of it, whose node is above.
Settled(P, f, above) ==
    /\ \A j \in 1 .. Len(f.rest) : f.rest[j].kind \notin Transient
    /\ f.node.kind \notin {"Panic", "Prune"}
    /\ f.node.kind = "StartFunction" => IsCall(P, f.node) /\ above.kind = "Block"
    /\ f.node.kind = "Root" => above.kind = "StartFunction"

(***************************************************************************)
(* The stack of a path: the frame of the root is the first, and the frame  *)
(* of a call is under a block of the function until it returns.            *)
(***************************************************************************)
StackOk(P, stack) ==
    /\ IsSeq(stack)
    /\ stack # <<>>
    /\ stack[1].node.kind = "Root"
    /\ \A k \in 1 .. Len(stack) : FrameOk(P, stack[k])
    /\ \A k \in 1 .. Len(stack) - 1 : Settled(P, stack[k], stack[k + 1].node)

(***************************************************************************)
(* The top frame f of a path with memory m: a path that is about to stop   *)
(* has no input left, as far as the solver was told.                       *)
(***************************************************************************)
TopOk(P, f, m) ==
    /\ f.node.kind \in {"Panic", "Prune"} => m.asserted = {}
    /\ IsCall(P, f.node) => f.rest # <<>>
    /\ f.rest # <<>> =>
         /\ Head(f.rest).kind = "Stop" => m.asserted = {}
         /\ Head(f.rest).kind = "KeepResult" /\ Head(f.rest).stop => m.asserted = {}

CallsOn(P, stack) == {k \in 1 .. Len(stack) : IsCall(P, stack[k].node)}

\* exitFunction removes two levels and the locals of one function.
CountsOk(P, s) ==
    /\ s.levels \in Seq(Seq(DOMAIN NodesOf(P)))
    /\ Len(s.levels) >= 1 + 2 * Cardinality(CallsOn(P, s.stack))
    /\ IsSeq(s.locals)
    /\ Len(s.locals) = 1 + Cardinality(CallsOn(P, s.stack))

StateOf(stack, levels, locals, visited, found) ==
    [stack |-> stack, levels |-> levels, locals |-> locals,
     visited |-> visited, found |-> found]

IsState(s) == s = StateOf(s.stack, s.levels, s.locals, s.visited, s.found)

\* A state that goes on, apart from its top frame.
BodyOk(P, s, m) ==
    /\ IsState(s)
    /\ StackOk(P, s.stack)
    /\ CountsOk(P, s)
    /\ s.visited \subseteq DOMAIN NodesOf(P)
    /\ {e.cond : e \in s.found} = m.errors
    /\ \A e \in s.found : e.what \in Causes

PathOk(P, s, m) == BodyOk(P, s, m) /\ TopOk(P, Top(s), m)

ResultOk(r) == r.kind \in Kinds /\ r.what \in Causes /\ r.cond \in Conditions

IInv ==
    /\ prog \in DOMAIN Programs
    /\ created \in PathIds
    /\ queue \subseteq 1 .. created
    /\ mem \in [PathIds -> Memories]
    /\ st = [p \in PathIds |-> st[p]]
    /\ \A p \in queue : PathOk(prog, st[p], mem[p])
    /\ terminals \subseteq Terminals0[prog]
    /\ \A r \in results : ResultOk(r)
    /\ dropped \in Conditions
    /\ phase \in {"run", "done", "timeout", "crashed"}

-----------------------------------------------------------------------------

(* Sequences of anything *)

LEMMA SeqIsSeq == ASSUME NEW T, NEW q \in Seq(T) PROVE IsSeq(q)
BY SeqOfRange DEF IsSeq

LEMMA FunctionIsSeq ==
    ASSUME NEW n \in Nat, NEW q, q = [k \in 1 .. n |-> q[k]]
    PROVE  IsSeq(q) /\ Len(q) = n
<1> DEFINE T == {q[k] : k \in 1 .. n}
<1>1. q \in [1 .. n -> T]
  OBVIOUS
<1> HIDE DEF T
<1>2. q \in Seq(T) /\ Len(q) = n
  BY <1>1
<1> QED
  BY <1>2, SeqIsSeq

LEMMA IsSeqFacts ==
    ASSUME NEW q, IsSeq(q)
    PROVE  /\ Len(q) \in Nat
           /\ DOMAIN q = 1 .. Len(q)
           /\ q = <<>> <=> Len(q) = 0
BY LenProperties, EmptySeq DEF IsSeq

LEMMA EmptyIsSeq == IsSeq(<<>>) /\ Len(<<>>) = 0
BY EmptySeq, SeqIsSeq

LEMMA OneIsSeq ==
    ASSUME NEW e
    PROVE  IsSeq(<<e>>) /\ Len(<<e>>) = 1 /\ <<e>>[1] = e /\ Head(<<e>>) = e /\ <<e>> # <<>>
<1>1. <<e>> \in Seq({e})
  OBVIOUS
<1>2. IsSeq(<<e>>)
  BY <1>1, SeqIsSeq
<1> QED
  BY <1>2

Pushed(q, e) == Append(q, e)

LEMMA PushedFacts ==
    ASSUME NEW q, IsSeq(q), NEW e
    PROVE  /\ IsSeq(Pushed(q, e))
           /\ Pushed(q, e) # <<>>
           /\ Len(Pushed(q, e)) = Len(q) + 1
           /\ \A k \in 1 .. Len(q) : Pushed(q, e)[k] = q[k]
           /\ Pushed(q, e)[Len(q) + 1] = e
<1> DEFINE T == Range(q) \cup {e}
<1>1. q \in Seq(T)
  BY SeqMonotonic DEF IsSeq
<1>2. e \in T
  OBVIOUS
<1> HIDE DEF T
<1>3. /\ Append(q, e) \in Seq(T)
      /\ Append(q, e) # <<>>
      /\ Len(Append(q, e)) = Len(q) + 1
      /\ \A k \in 1 .. Len(q) : Append(q, e)[k] = q[k]
      /\ Append(q, e)[Len(q) + 1] = e
  BY <1>1, <1>2, AppendProperties
<1>4. IsSeq(Append(q, e))
  BY <1>3, SeqIsSeq
<1> QED
  BY <1>3, <1>4 DEF Pushed

LEMMA TailFacts ==
    ASSUME NEW q, IsSeq(q), q # <<>>
    PROVE  /\ Head(q) = q[1]
           /\ IsSeq(Tail(q))
           /\ Len(Tail(q)) = Len(q) - 1
           /\ \A k \in 1 .. Len(q) - 1 : Tail(q)[k] = q[k + 1]
<1>1. q \in Seq(Range(q))
  BY DEF IsSeq
<1>2. /\ Tail(q) \in Seq(Range(q))
      /\ Len(Tail(q)) = Len(q) - 1
      /\ \A k \in 1 .. Len(Tail(q)) : Tail(q)[k] = q[k + 1]
  BY <1>1, HeadTailProperties
<1>3. IsSeq(Tail(q))
  BY <1>2, SeqIsSeq
<1>4. Head(q) = q[1]
  BY <1>1
<1> QED
  BY <1>2, <1>3, <1>4

FirstOf(q, n) == SubSeq(q, 1, n)

LEMMA FirstOfFacts ==
    ASSUME NEW q, IsSeq(q), NEW n \in 0 .. Len(q)
    PROVE  /\ IsSeq(FirstOf(q, n))
           /\ Len(FirstOf(q, n)) = n
           /\ \A k \in 1 .. n : FirstOf(q, n)[k] = q[k]
<1>1. q \in Seq(Range(q)) /\ Len(q) \in Nat
  BY IsSeqFacts DEF IsSeq
<1>2. \A i \in 1 .. n : q[i] \in Range(q)
  BY <1>1, ElementOfSeq
<1>3. /\ SubSeq(q, 1, n) \in Seq(Range(q))
      /\ Len(SubSeq(q, 1, n)) = IF 1 <= n THEN n - 1 + 1 ELSE 0
      /\ \A i \in 1 .. n - 1 + 1 : SubSeq(q, 1, n)[i] = q[1 + i - 1]
  BY <1>1, <1>2, SubSeqProperties
<1>4. Len(SubSeq(q, 1, n)) = n
  BY <1>1, <1>3
<1>5. ASSUME NEW k \in 1 .. n PROVE SubSeq(q, 1, n)[k] = q[k]
  <2>1. k \in 1 .. n - 1 + 1 /\ 1 + k - 1 = k
    BY <1>1
  <2> QED
    BY <1>3, <2>1
<1> QED
  BY <1>3, <1>4, <1>5, SeqIsSeq DEF FirstOf

SetAt(q, k, e) == [q EXCEPT ![k] = e]

LEMMA SetAtFacts ==
    ASSUME NEW q, IsSeq(q), NEW k \in 1 .. Len(q), NEW e
    PROVE  /\ IsSeq(SetAt(q, k, e))
           /\ Len(SetAt(q, k, e)) = Len(q)
           /\ SetAt(q, k, e)[k] = e
           /\ \A j \in 1 .. Len(q) : j # k => SetAt(q, k, e)[j] = q[j]
<1> DEFINE T == Range(q) \cup {e}
<1>1. q \in Seq(T)
  BY SeqMonotonic DEF IsSeq
<1>2. e \in T
  OBVIOUS
<1> HIDE DEF T
<1>3. [q EXCEPT ![k] = e] \in Seq(T)
  BY <1>1, <1>2, ExceptSeq
<1>4. IsSeq([q EXCEPT ![k] = e])
  BY <1>3, SeqIsSeq, Zenon
<1> QED
  BY <1>1, <1>2, <1>3, <1>4, ExceptSeq, LenProperties DEF SetAt

-----------------------------------------------------------------------------

(* What the operations on states do to their fields *)

LEMMA FrameFacts ==
    ASSUME NEW w, NEW r, NEW a
    PROVE  /\ Frame(w, r, a).node = w
           /\ Frame(w, r, a).rest = r
           /\ Frame(w, r, a).args = a
BY DEF Frame

LEMMA SetRest ==
    ASSUME NEW f, f = Frame(f.node, f.rest, f.args), NEW r
    PROVE  [f EXCEPT !.rest = r] = Frame(f.node, r, f.args)
BY DEF Frame

LEMMA StateFacts ==
    ASSUME NEW a, NEW b, NEW c, NEW d, NEW e
    PROVE  /\ IsState(StateOf(a, b, c, d, e))
           /\ StateOf(a, b, c, d, e).stack = a
           /\ StateOf(a, b, c, d, e).levels = b
           /\ StateOf(a, b, c, d, e).locals = c
           /\ StateOf(a, b, c, d, e).visited = d
           /\ StateOf(a, b, c, d, e).found = e
BY DEF IsState, StateOf

LEMMA SetFields ==
    ASSUME NEW s, IsState(s), NEW x
    PROVE  /\ [s EXCEPT !.stack = x] = StateOf(x, s.levels, s.locals, s.visited, s.found)
           /\ [s EXCEPT !.levels = x] = StateOf(s.stack, x, s.locals, s.visited, s.found)
           /\ [s EXCEPT !.locals = x] = StateOf(s.stack, s.levels, x, s.visited, s.found)
           /\ [s EXCEPT !.visited = x] = StateOf(s.stack, s.levels, s.locals, x, s.found)
           /\ [s EXCEPT !.found = x] = StateOf(s.stack, s.levels, s.locals, s.visited, x)
<1>1. [s EXCEPT !.stack = x] = StateOf(x, s.levels, s.locals, s.visited, s.found)
  BY SMT DEF IsState, StateOf
<1>2. [s EXCEPT !.levels = x] = StateOf(s.stack, x, s.locals, s.visited, s.found)
  BY SMT DEF IsState, StateOf
<1>3. [s EXCEPT !.locals = x] = StateOf(s.stack, s.levels, x, s.visited, s.found)
  BY SMT DEF IsState, StateOf
<1>4. [s EXCEPT !.visited = x] = StateOf(s.stack, s.levels, s.locals, x, s.found)
  BY SMT DEF IsState, StateOf
<1>5. [s EXCEPT !.found = x] = StateOf(s.stack, s.levels, s.locals, s.visited, x)
  BY SMT DEF IsState, StateOf
<1> QED
  BY <1>1, <1>2, <1>3, <1>4, <1>5, Zenon

LEMMA SetTwoFields ==
    ASSUME NEW s, IsState(s), NEW x, NEW y
    PROVE  [s EXCEPT !.levels = x, !.locals = y] =
             StateOf(s.stack, x, y, s.visited, s.found)
<1> DEFINE t == [s EXCEPT !.levels = x]
<1>1. t = StateOf(s.stack, x, s.locals, s.visited, s.found)
  BY SetFields, Zenon
<1>2. [s EXCEPT !.levels = x, !.locals = y] = [t EXCEPT !.locals = y]
  BY DEF IsState, StateOf
<1> HIDE DEF t
<1>3. IsState(t) /\ t.stack = s.stack /\ t.levels = x /\ t.visited = s.visited
      /\ t.found = s.found
  BY <1>1, StateFacts
<1>4. [t EXCEPT !.locals = y] = StateOf(t.stack, t.levels, y, t.visited, t.found)
  BY <1>3, SetFields, Zenon
<1> QED
  BY <1>2, <1>3, <1>4

TakeWith(s, x, y, z) == [s EXCEPT !.stack = x, !.visited = y, !.levels = z]
ExitWith(s, x, y, z) == [s EXCEPT !.stack = x, !.levels = y, !.locals = z]

LEMMA SetThreeFields ==
    ASSUME NEW s, IsState(s), NEW x, NEW y, NEW z
    PROVE  /\ TakeWith(s, x, y, z) = StateOf(x, z, s.locals, y, s.found)
           /\ ExitWith(s, x, z, y) = StateOf(x, z, y, s.visited, s.found)
<1> DEFINE t == [s EXCEPT !.stack = x]
<1>1. t = StateOf(x, s.levels, s.locals, s.visited, s.found)
  BY SetFields, Zenon
<1>2. /\ TakeWith(s, x, y, z) = [[t EXCEPT !.visited = y] EXCEPT !.levels = z]
      /\ ExitWith(s, x, z, y) = [t EXCEPT !.levels = z, !.locals = y]
  BY DEF IsState, StateOf, TakeWith, ExitWith
<1> HIDE DEF t
<1>3. IsState(t) /\ t.stack = x /\ t.levels = s.levels /\ t.locals = s.locals
      /\ t.visited = s.visited /\ t.found = s.found
  BY <1>1, StateFacts
<1> DEFINE u == [t EXCEPT !.visited = y]
<1>4. u = StateOf(t.stack, t.levels, t.locals, y, t.found)
  BY <1>3, SetFields, Zenon
<1>5. [t EXCEPT !.levels = z, !.locals = y] = StateOf(t.stack, z, y, t.visited, t.found)
  BY <1>3, SetTwoFields, Zenon
<1>6. TakeWith(s, x, y, z) = [u EXCEPT !.levels = z]
  BY <1>2
<1> HIDE DEF u
<1>7. IsState(u) /\ u.stack = x /\ u.locals = s.locals /\ u.visited = y
      /\ u.found = s.found
  BY <1>3, <1>4, StateFacts
<1>8. [u EXCEPT !.levels = z] = StateOf(u.stack, z, u.locals, u.visited, u.found)
  BY <1>7, SetFields, Zenon
<1> QED
  BY <1>2, <1>3, <1>5, <1>6, <1>7, <1>8

\* The top frame of s with its first waiting node taken.
TakenTop(s) == Frame(Top(s).node, Tail(Top(s).rest), Top(s).args)

IsTop(s) == /\ IsState(s)
            /\ IsSeq(s.stack)
            /\ s.stack # <<>>
            /\ Top(s) = Frame(Top(s).node, Top(s).rest, Top(s).args)

SetTop(s, f) == SetAt(s.stack, Len(s.stack), f)

TakenVisited(s) == s.visited \cup ({Waiting(s).id} \ {NoNode})
TakenLevels(s) == IF Waiting(s).kind = "Block"
                  THEN <<<<Waiting(s).id>> \o Head(s.levels)>> \o Tail(s.levels)
                  ELSE s.levels

LEMMA TopIsLast ==
    ASSUME NEW s, IsTop(s)
    PROVE  /\ Len(s.stack) \in Nat
           /\ Len(s.stack) \in 1 .. Len(s.stack)
           /\ Len(s.stack) \in DOMAIN s.stack
           /\ Top(s) = s.stack[Len(s.stack)]
BY IsSeqFacts DEF Top, Last, IsTop

LEMMA TakeIs ==
    ASSUME NEW s, IsTop(s)
    PROVE  Take(s) = StateOf(SetTop(s, TakenTop(s)), TakenLevels(s), s.locals,
                             TakenVisited(s), s.found)
<1>1. DOMAIN s = {"stack", "levels", "locals", "visited", "found"}
  BY DEF IsTop, IsState, StateOf
<1>2. [Top(s) EXCEPT !.rest = Tail(Top(s).rest)] = TakenTop(s)
  BY SetRest, Zenon DEF IsTop, TakenTop
<1>3. Take(s) = [s EXCEPT !.stack = [s.stack EXCEPT ![Len(s.stack)] =
                                      [Top(s) EXCEPT !.rest = Tail(Top(s).rest)]],
                          !.visited = TakenVisited(s),
                          !.levels = TakenLevels(s)]
  BY <1>1, TopIsLast DEF Take, TakenVisited, TakenLevels
<1>4. Take(s) = TakeWith(s, SetTop(s, TakenTop(s)), TakenVisited(s), TakenLevels(s))
  BY <1>2, <1>3 DEF SetTop, SetAt, TakeWith
<1> QED
  BY <1>4, SetThreeFields, Zenon DEF IsTop

LEMMA StartIs ==
    ASSUME NEW s, IsTop(s), NEW children, NEW args
    PROVE  Start(s, children, args) =
             StateOf(Pushed(SetTop(s, TakenTop(s)), Frame(Waiting(s), children, args)),
                     TakenLevels(s), s.locals, TakenVisited(s), s.found)
<1> DEFINE t == Take(s)
<1>1. /\ IsState(t)
      /\ t.stack = SetTop(s, TakenTop(s))
      /\ t.levels = TakenLevels(s)
      /\ t.locals = s.locals
      /\ t.visited = TakenVisited(s)
      /\ t.found = s.found
  BY TakeIs, StateFacts
<1>2. Start(s, children, args) =
        [t EXCEPT !.stack = Pushed(t.stack, Frame(Waiting(s), children, args))]
  BY <1>1 DEF Start, Pushed
<1> HIDE DEF t
<1>3. [t EXCEPT !.stack = Pushed(t.stack, Frame(Waiting(s), children, args))] =
        StateOf(Pushed(t.stack, Frame(Waiting(s), children, args)),
                t.levels, t.locals, t.visited, t.found)
  BY <1>1, SetFields, Zenon
<1> QED
  BY <1>1, <1>2, <1>3

LEMMA DeliverIs ==
    ASSUME NEW s, IsTop(s), NEW v
    PROVE  \E a : Deliver(s, v) =
             StateOf(SetTop(s, Frame(Top(s).node, Top(s).rest, a)),
                     s.levels, s.locals, s.visited, s.found)
<1> DEFINE a == IF Top(s).node.kind = "Block" THEN Top(s).args ELSE Append(Top(s).args, v)
<1>1. [Top(s) EXCEPT !.args = a] = Frame(Top(s).node, Top(s).rest, a)
  BY DEF IsTop, Frame
<1>2. DOMAIN s = {"stack", "levels", "locals", "visited", "found"}
  BY DEF IsTop, IsState, StateOf
<1>3. Deliver(s, v) = [s EXCEPT !.stack =
           [s.stack EXCEPT ![Len(s.stack)] = [Top(s) EXCEPT !.args = a]]]
  BY <1>2, TopIsLast DEF Deliver
<1> HIDE DEF a
<1>4. Deliver(s, v) = [s EXCEPT !.stack = SetTop(s, Frame(Top(s).node, Top(s).rest, a))]
  BY <1>1, <1>3 DEF SetTop, SetAt
<1>5. IsState(s)
  BY DEF IsTop
<1>6. Deliver(s, v) = StateOf(SetTop(s, Frame(Top(s).node, Top(s).rest, a)),
                              s.levels, s.locals, s.visited, s.found)
  BY <1>4, <1>5, SetFields, Zenon
<1> QED
  BY <1>6

LEMMA PopIs ==
    ASSUME NEW s, IsState(s)
    PROVE  Pop(s) = StateOf(FirstOf(s.stack, Len(s.stack) - 1),
                            s.levels, s.locals, s.visited, s.found)
<1>1. Pop(s) = [s EXCEPT !.stack = FirstOf(s.stack, Len(s.stack) - 1)]
  BY DEF Pop, Front, FirstOf
<1> QED
  BY <1>1, SetFields, Zenon

LEMMA WriteIs ==
    ASSUME NEW s, IsState(s), IsSeq(s.locals), s.locals # <<>>, NEW m, NEW n, NEW v
    PROVE  \E locals : /\ IsSeq(locals)
                       /\ Len(locals) = Len(s.locals)
                       /\ WriteValue(s, m, n, v) =
                            StateOf(s.stack, s.levels, locals, s.visited, s.found)
<1>1. DOMAIN s = {"stack", "levels", "locals", "visited", "found"}
  BY DEF IsState, StateOf
<1>2. PICK e : WriteValue(s, m, n, v) = [s EXCEPT !.locals[Len(s.locals)] = e]
  BY DEF WriteValue
<1>3. WriteValue(s, m, n, v) = [s EXCEPT !.locals = SetAt(s.locals, Len(s.locals), e)]
  BY <1>1, <1>2 DEF SetAt
<1>4. Len(s.locals) \in 1 .. Len(s.locals)
  BY IsSeqFacts
<1>5. /\ IsSeq(SetAt(s.locals, Len(s.locals), e))
      /\ Len(SetAt(s.locals, Len(s.locals), e)) = Len(s.locals)
  BY <1>4, SetAtFacts
<1>6. WriteValue(s, m, n, v) =
        StateOf(s.stack, s.levels, SetAt(s.locals, Len(s.locals), e), s.visited, s.found)
  BY <1>3, SetFields, Zenon
<1> QED
  BY <1>5, <1>6

LEMMA ExitIs ==
    ASSUME NEW s, IsState(s)
    PROVE  ExitFunction(s) =
             StateOf(FirstOf(s.stack, CallFrame(s) - 1), Tail(Tail(s.levels)),
                     FirstOf(s.locals, Len(s.locals) - 1), s.visited, s.found)
<1>1. DOMAIN s = {"stack", "levels", "locals", "visited", "found"}
  BY DEF IsState, StateOf
<1>2. ExitFunction(s) = ExitWith(s, FirstOf(s.stack, CallFrame(s) - 1),
                                 Tail(Tail(s.levels)),
                                 FirstOf(s.locals, Len(s.locals) - 1))
  BY <1>1 DEF ExitFunction, Front, ExitWith, FirstOf
<1> QED
  BY <1>2, SetThreeFields, Zenon

-----------------------------------------------------------------------------

(* Stacks *)

LEMMA StackFacts ==
    ASSUME NEW P, NEW stack, StackOk(P, stack)
    PROVE  /\ Len(stack) \in Nat \ {0}
           /\ Len(stack) \in 1 .. Len(stack)
           /\ FrameOk(P, stack[Len(stack)])
           /\ IsSeq(stack) /\ stack # <<>>
           /\ stack[1].node.kind = "Root"
BY IsSeqFacts DEF StackOk

\* The frame on top is changed, but not its node.
LEMMA SetTopOk ==
    ASSUME NEW P, NEW stack, StackOk(P, stack), NEW f, FrameOk(P, f),
           f.node = stack[Len(stack)].node
    PROVE  /\ StackOk(P, SetAt(stack, Len(stack), f))
           /\ CallsOn(P, SetAt(stack, Len(stack), f)) = CallsOn(P, stack)
           /\ Len(SetAt(stack, Len(stack), f)) = Len(stack)
           /\ SetAt(stack, Len(stack), f)[Len(stack)] = f
<1> DEFINE n == Len(stack)
           new == SetAt(stack, n, f)
<1>1. n \in Nat \ {0} /\ n \in 1 .. n /\ IsSeq(stack)
  BY StackFacts
<1>2. /\ IsSeq(new)
      /\ Len(new) = n
      /\ new[n] = f
      /\ \A j \in 1 .. n : j # n => new[j] = stack[j]
  BY <1>1, SetAtFacts
<1> HIDE DEF new
<1>3. \A k \in 1 .. n : new[k].node = stack[k].node
  BY <1>2
<1>4. CallsOn(P, new) = CallsOn(P, stack)
  BY <1>2, <1>3 DEF CallsOn
<1>5. new # <<>>
  BY <1>1, <1>2, IsSeqFacts
<1>6. new[1].node.kind = "Root"
  BY <1>1, <1>3 DEF StackOk
<1>7. \A k \in 1 .. n : FrameOk(P, new[k])
  BY <1>1, <1>2 DEF StackOk
<1>8. ASSUME NEW k \in 1 .. n - 1 PROVE Settled(P, new[k], new[k + 1].node)
  <2>1. k \in 1 .. n /\ k # n /\ k + 1 \in 1 .. n
    BY <1>1
  <2>2. new[k] = stack[k] /\ new[k + 1].node = stack[k + 1].node
    BY <1>2, <1>3, <2>1
  <2> QED
    BY <2>2 DEF StackOk
<1> QED
  BY <1>2, <1>4, <1>5, <1>6, <1>7, <1>8 DEF StackOk, new

\* A frame is put on top.
LEMMA PushOk ==
    ASSUME NEW P, NEW stack, StackOk(P, stack), NEW f, FrameOk(P, f),
           Settled(P, stack[Len(stack)], f.node)
    PROVE  /\ StackOk(P, Pushed(stack, f))
           /\ CallsOn(P, Pushed(stack, f)) =
                CallsOn(P, stack) \cup (IF IsCall(P, f.node) THEN {Len(stack) + 1} ELSE {})
           /\ Len(Pushed(stack, f)) = Len(stack) + 1
           /\ Pushed(stack, f)[Len(stack) + 1] = f
<1> DEFINE n == Len(stack)
           new == Pushed(stack, f)
<1>1. n \in Nat \ {0} /\ n \in 1 .. n /\ IsSeq(stack)
  BY StackFacts
<1>2. /\ IsSeq(new)
      /\ new # <<>>
      /\ Len(new) = n + 1
      /\ \A j \in 1 .. n : new[j] = stack[j]
      /\ new[n + 1] = f
  BY <1>1, PushedFacts
<1> HIDE DEF new
<1>3. CallsOn(P, new) =
        CallsOn(P, stack) \cup (IF IsCall(P, f.node) THEN {n + 1} ELSE {})
  <2>1. 1 .. Len(new) = 1 .. n \cup {n + 1}
    BY <1>1, <1>2
  <2> QED
    BY <1>1, <1>2, <2>1 DEF CallsOn
<1>4. new[1].node.kind = "Root"
  BY <1>1, <1>2 DEF StackOk
<1>5. \A k \in 1 .. n + 1 : FrameOk(P, new[k])
  BY <1>1, <1>2 DEF StackOk
<1>6. ASSUME NEW k \in 1 .. n PROVE Settled(P, new[k], new[k + 1].node)
  <2>1. CASE k = n
    BY <1>1, <1>2, <2>1
  <2>2. CASE k # n
    <3>1. k \in 1 .. n - 1 /\ k + 1 \in 1 .. n
      BY <1>1, <2>2
    <3> QED
      BY <1>2, <3>1 DEF StackOk
  <2> QED
    BY <2>1, <2>2
<1>7. 1 .. Len(new) - 1 = 1 .. n
  BY <1>1, <1>2
<1> QED
  BY <1>2, <1>3, <1>4, <1>5, <1>6, <1>7 DEF StackOk, new

\* Frames are taken from the top.
LEMMA CutOk ==
    ASSUME NEW P, NEW stack, StackOk(P, stack), NEW n \in 1 .. Len(stack) - 1
    PROVE  /\ StackOk(P, FirstOf(stack, n))
           /\ CallsOn(P, FirstOf(stack, n)) = CallsOn(P, stack) \cap 1 .. n
           /\ Len(FirstOf(stack, n)) = n
           /\ FirstOf(stack, n)[n] = stack[n]
           /\ Settled(P, stack[n], stack[n + 1].node)
<1> DEFINE new == FirstOf(stack, n)
<1>1. /\ Len(stack) \in Nat \ {0}
      /\ n \in 0 .. Len(stack)
      /\ n \in 1 .. n
      /\ IsSeq(stack)
  BY StackFacts
<1>2. /\ IsSeq(new)
      /\ Len(new) = n
      /\ \A j \in 1 .. n : new[j] = stack[j]
  BY <1>1, FirstOfFacts
<1> HIDE DEF new
<1>3. 1 .. n \subseteq 1 .. Len(stack)
  BY <1>1
<1>4. CallsOn(P, new) = CallsOn(P, stack) \cap 1 .. n
  BY <1>2, <1>3 DEF CallsOn
<1>5. new # <<>>
  BY <1>1, <1>2, IsSeqFacts
<1>6. new[1].node.kind = "Root"
  BY <1>1, <1>2 DEF StackOk
<1>7. \A k \in 1 .. n : FrameOk(P, new[k])
  BY <1>2, <1>3 DEF StackOk
<1>8. ASSUME NEW k \in 1 .. n - 1 PROVE Settled(P, new[k], new[k + 1].node)
  <2>1. k \in 1 .. Len(stack) - 1 /\ k \in 1 .. n /\ k + 1 \in 1 .. n
    BY <1>1
  <2> QED
    BY <1>2, <2>1 DEF StackOk
<1>9. Settled(P, stack[n], stack[n + 1].node)
  BY DEF StackOk
<1> QED
  BY <1>1, <1>2, <1>4, <1>5, <1>6, <1>7, <1>8, <1>9 DEF StackOk, new

LEMMA CallsAreFinite ==
    ASSUME NEW P, NEW stack, StackOk(P, stack)
    PROVE  /\ IsFiniteSet(CallsOn(P, stack))
           /\ Cardinality(CallsOn(P, stack)) \in Nat
           /\ CallsOn(P, stack) \subseteq 1 .. Len(stack)
           /\ 1 \notin CallsOn(P, stack)
<1>1. Len(stack) \in Nat /\ stack[1].node.kind = "Root"
  BY StackFacts
<1>2. IsFiniteSet(1 .. Len(stack))
  BY <1>1, FS_Interval
<1>3. CallsOn(P, stack) \subseteq 1 .. Len(stack)
  BY DEF CallsOn
<1>4. IsFiniteSet(CallsOn(P, stack))
  BY <1>2, <1>3, FS_Subset
<1> QED
  BY <1>1, <1>3, <1>4, FS_CardinalityType DEF CallsOn, IsCall

-----------------------------------------------------------------------------

(* States of paths *)

LEMMA BodyIsTop ==
    ASSUME NEW P, NEW m, NEW s, BodyOk(P, s, m)
    PROVE  /\ IsTop(s)
           /\ IsState(s)
           /\ Top(s) = s.stack[Len(s.stack)]
           /\ FrameOk(P, Top(s))
           /\ StackOk(P, s.stack)
<1>1. Top(s) = s.stack[Len(s.stack)]
  BY DEF Top, Last
<1>2. FrameOk(P, Top(s)) /\ IsSeq(s.stack) /\ s.stack # <<>>
  BY <1>1, StackFacts DEF BodyOk
<1> QED
  BY <1>1, <1>2 DEF BodyOk, IsTop, FrameOk

LEMMA LevelPushed ==
    ASSUME NEW N, NEW levels \in Seq(Seq(N)), NEW level \in Seq(N)
    PROVE  /\ <<level>> \o levels \in Seq(Seq(N))
           /\ Len(<<level>> \o levels) = Len(levels) + 1
OBVIOUS

LEMMA LevelPopped ==
    ASSUME NEW N, NEW levels \in Seq(Seq(N)), Len(levels) > 0
    PROVE  /\ Head(levels) \in Seq(N)
           /\ Tail(levels) \in Seq(Seq(N))
           /\ Len(Tail(levels)) = Len(levels) - 1
<1>1. levels # <<>>
  BY EmptySeq
<1> QED
  BY <1>1, HeadTailProperties

\* The node that waits, and the frame without it.
LEMMA WaitingFacts ==
    ASSUME NEW P, NEW f, FrameOk(P, f), f.rest # <<>>
    PROVE  /\ NodeOk(P, Head(f.rest))
           /\ f.node.kind \notin {"Panic", "Prune"}
           /\ f.node.kind = "StartFunction" =>
                Head(f.rest).kind = IF IsCall(P, f.node) THEN "Block" ELSE "KeepResult"
           /\ f.node.kind = "Root" => Head(f.rest).kind = "StartFunction"
           /\ \A a : FrameOk(P, Frame(f.node, Tail(f.rest), a))
           /\ \A j \in 1 .. Len(Tail(f.rest)) : Tail(f.rest)[j].kind \notin Transient
<1> DEFINE r == f.rest
<1>1. IsSeq(r) /\ r # <<>> /\ Len(r) \in Nat \ {0}
  BY IsSeqFacts DEF FrameOk
<1>2. /\ Head(r) = r[1]
      /\ IsSeq(Tail(r))
      /\ Len(Tail(r)) = Len(r) - 1
      /\ \A k \in 1 .. Len(r) - 1 : Tail(r)[k] = r[k + 1]
  BY <1>1, TailFacts
<1>3. 1 \in 1 .. Len(r)
  BY <1>1
<1>4. /\ NodeOk(P, Head(f.rest))
      /\ f.node.kind \notin {"Panic", "Prune"}
      /\ f.node.kind = "StartFunction" =>
           Head(f.rest).kind = IF IsCall(P, f.node) THEN "Block" ELSE "KeepResult"
      /\ f.node.kind = "Root" => Head(f.rest).kind = "StartFunction"
  BY <1>1, <1>2, <1>3 DEF FrameOk
<1>5. ASSUME NEW j \in 1 .. Len(Tail(r))
      PROVE  /\ j + 1 \in 1 .. Len(r)
             /\ Tail(r)[j] = r[j + 1]
             /\ Tail(r)[j].kind \notin Transient
  <2>1. j + 1 \in 1 .. Len(r) /\ Tail(r)[j] = r[j + 1] /\ Len(r) # 1
    BY <1>1, <1>2
  <2> QED
    BY <2>1 DEF FrameOk
<1>6. ASSUME NEW a PROVE FrameOk(P, Frame(f.node, Tail(r), a))
  <2> DEFINE g == Frame(f.node, Tail(r), a)
  <2>1. g.node = f.node /\ g.rest = Tail(r) /\ g.args = a
    BY FrameFacts
  <2>2. g = Frame(g.node, g.rest, g.args)
    BY <2>1
  <2> HIDE DEF g
  <2>3. \A j \in 1 .. Len(g.rest) :
           /\ NodeOk(P, g.rest[j])
           /\ g.rest[j].kind \notin Transient
           /\ g.node.kind = "StartFunction" =>
                g.rest[j].kind = IF IsCall(P, g.node) THEN "Block" ELSE "KeepResult"
           /\ g.node.kind = "Root" => g.rest[j].kind = "StartFunction"
    BY <1>5, <2>1 DEF FrameOk
  <2>4. NodeOk(P, g.node)
    BY <2>1 DEF FrameOk
  <2> QED
    BY <1>2, <1>4, <2>1, <2>2, <2>3, <2>4 DEF FrameOk, g
<1> QED
  BY <1>4, <1>5, <1>6

LEMMA TakeBody ==
    ASSUME NEW P, NEW m, NEW s, BodyOk(P, s, m), IsWaiting(s)
    PROVE  /\ BodyOk(P, Take(s), m)
           /\ Top(Take(s)) = TakenTop(s)
           /\ Take(s).locals = s.locals
           /\ Take(s).found = s.found
           /\ TakenLevels(s) \in Seq(Seq(DOMAIN NodesOf(P)))
           /\ Len(TakenLevels(s)) = Len(s.levels)
           /\ TakenVisited(s) \subseteq DOMAIN NodesOf(P)
<1> DEFINE N == DOMAIN NodesOf(P)
           t == Take(s)
<1>1. IsTop(s) /\ FrameOk(P, Top(s)) /\ Top(s) = s.stack[Len(s.stack)] /\ Top(s).rest # <<>>
  BY BodyIsTop DEF IsWaiting
<1>2. FrameOk(P, TakenTop(s)) /\ TakenTop(s).node = Top(s).node /\ NodeOk(P, Waiting(s))
  BY <1>1, WaitingFacts, FrameFacts DEF TakenTop, Waiting
<1>3. /\ IsState(t)
      /\ t.stack = SetTop(s, TakenTop(s))
      /\ t.levels = TakenLevels(s)
      /\ t.locals = s.locals
      /\ t.visited = TakenVisited(s)
      /\ t.found = s.found
  BY <1>1, TakeIs, StateFacts
<1>4. /\ StackOk(P, t.stack)
      /\ CallsOn(P, t.stack) = CallsOn(P, s.stack)
      /\ t.stack[Len(t.stack)] = TakenTop(s)
  BY <1>1, <1>2, <1>3, SetTopOk DEF BodyOk, SetTop
<1>5. TakenVisited(s) \subseteq N
  BY <1>2 DEF TakenVisited, NodeOk, BodyOk
<1>6. Len(s.levels) \in Nat /\ Len(s.levels) > 0 /\ s.levels \in Seq(Seq(N))
  <2>1. s.levels \in Seq(Seq(N)) /\ Len(s.levels) >= 1 + 2 * Cardinality(CallsOn(P, s.stack))
    BY DEF BodyOk, CountsOk
  <2>2. Cardinality(CallsOn(P, s.stack)) \in Nat
    BY CallsAreFinite DEF BodyOk
  <2> QED
    BY <2>1, <2>2, LenProperties
<1>7. TakenLevels(s) \in Seq(Seq(N)) /\ Len(TakenLevels(s)) = Len(s.levels)
  <2>1. CASE Waiting(s).kind = "Block"
    <3>1. Waiting(s).id \in N
      BY <1>2, <2>1 DEF NodeOk, ProgramKinds
    <3>2. /\ Head(s.levels) \in Seq(N)
          /\ Tail(s.levels) \in Seq(Seq(N))
          /\ Len(Tail(s.levels)) = Len(s.levels) - 1
      BY <1>6, LevelPopped
    <3>3. <<Waiting(s).id>> \o Head(s.levels) \in Seq(N)
      BY <3>1, <3>2
    <3> HIDE DEF N
    <3>4. /\ <<<<Waiting(s).id>> \o Head(s.levels)>> \o Tail(s.levels) \in Seq(Seq(N))
          /\ Len(<<<<Waiting(s).id>> \o Head(s.levels)>> \o Tail(s.levels)) = Len(s.levels)
      BY <1>6, <3>2, <3>3, LevelPushed
    <3> QED
      BY <2>1, <3>4 DEF TakenLevels
  <2>2. CASE Waiting(s).kind # "Block"
    BY <1>6, <2>2 DEF TakenLevels
  <2> QED
    BY <2>1, <2>2
<1>8. Top(t) = t.stack[Len(t.stack)]
  BY DEF Top, Last
<1> HIDE DEF t
<1>9. CountsOk(P, t)
  BY <1>3, <1>4, <1>7 DEF BodyOk, CountsOk
<1>10. BodyOk(P, t, m)
  BY <1>3, <1>4, <1>5, <1>9 DEF BodyOk
<1> QED
  BY <1>3, <1>4, <1>5, <1>7, <1>8, <1>10 DEF t

LEMMA DeliverBody ==
    ASSUME NEW P, NEW m, NEW s, BodyOk(P, s, m), NEW v
    PROVE  /\ BodyOk(P, Deliver(s, v), m)
           /\ Top(Deliver(s, v)).node = Top(s).node
           /\ Top(Deliver(s, v)).rest = Top(s).rest
<1> DEFINE t == Deliver(s, v)
<1>1. IsTop(s) /\ FrameOk(P, Top(s)) /\ Top(s) = s.stack[Len(s.stack)]
  BY BodyIsTop
<1>2. PICK a : t = StateOf(SetTop(s, Frame(Top(s).node, Top(s).rest, a)),
                           s.levels, s.locals, s.visited, s.found)
  BY <1>1, DeliverIs
<1> DEFINE f == Frame(Top(s).node, Top(s).rest, a)
<1>3. f.node = Top(s).node /\ f.rest = Top(s).rest /\ f.args = a
  BY FrameFacts
<1>4. f = Frame(f.node, f.rest, f.args)
  BY <1>3
<1> HIDE DEF f
<1>5. FrameOk(P, f)
  BY <1>1, <1>3, <1>4 DEF FrameOk
<1>6. /\ IsState(t)
      /\ t.stack = SetTop(s, f)
      /\ t.levels = s.levels
      /\ t.locals = s.locals
      /\ t.visited = s.visited
      /\ t.found = s.found
  BY <1>2, StateFacts DEF f
<1>7. /\ StackOk(P, t.stack)
      /\ CallsOn(P, t.stack) = CallsOn(P, s.stack)
      /\ t.stack[Len(t.stack)] = f
  BY <1>1, <1>3, <1>5, <1>6, SetTopOk DEF BodyOk, SetTop
<1>8. Top(t) = t.stack[Len(t.stack)]
  BY DEF Top, Last
<1> HIDE DEF t
<1>9. BodyOk(P, t, m)
  BY <1>6, <1>7 DEF BodyOk, CountsOk
<1> QED
  BY <1>3, <1>7, <1>8, <1>9 DEF t

LEMMA WriteBody ==
    ASSUME NEW P, NEW m, NEW s, BodyOk(P, s, m), NEW m2, NEW n, NEW v
    PROVE  /\ BodyOk(P, WriteValue(s, m2, n, v), m)
           /\ Top(WriteValue(s, m2, n, v)) = Top(s)
           /\ WriteValue(s, m2, n, v).found = s.found
<1> DEFINE t == WriteValue(s, m2, n, v)
<1>1. IsState(s) /\ IsSeq(s.locals) /\ s.locals # <<>>
  <2>1. Cardinality(CallsOn(P, s.stack)) \in Nat
    BY CallsAreFinite DEF BodyOk
  <2> QED
    BY <2>1, IsSeqFacts DEF BodyOk, CountsOk
<1>2. PICK locals : /\ IsSeq(locals)
                    /\ Len(locals) = Len(s.locals)
                    /\ t = StateOf(s.stack, s.levels, locals, s.visited, s.found)
  BY <1>1, WriteIs
<1>3. /\ IsState(t)
      /\ t.stack = s.stack
      /\ t.levels = s.levels
      /\ t.locals = locals
      /\ t.visited = s.visited
      /\ t.found = s.found
  BY <1>2, StateFacts
<1>4. Top(t) = Top(s)
  BY <1>3 DEF Top
<1> HIDE DEF t
<1>5. BodyOk(P, t, m)
  BY <1>2, <1>3 DEF BodyOk, CountsOk
<1> QED
  BY <1>3, <1>4, <1>5 DEF t

\* A bounded set of positive numbers has a greatest member.
LEMMA GreatestNumber ==
    ASSUME NEW n \in Nat, NEW S \in SUBSET (1 .. n), S # {}
    PROVE  \E k \in S : \A j \in S : j <= k
<1> DEFINE Bounds == {b \in Nat : \A j \in S : j <= b}
<1>1. n \in Bounds
  OBVIOUS
<1>2. PICK b \in Bounds : \A c \in Bounds : ~ (<<c, b>> \in OpToRel(<, Nat))
  BY <1>1, NatLessThanWellFounded, WFMin
<1>3. ASSUME b \notin S PROVE FALSE
  <2>1. \A j \in S : j <= b - 1
    BY <1>3
  <2>2. b - 1 \in Nat
    <3>1. PICK j \in S : TRUE
      OBVIOUS
    <3>2. j \in Nat /\ j >= 1 /\ j <= b - 1
      BY <2>1
    <3> QED
      BY <3>2
  <2>3. b - 1 \in Bounds
    BY <2>1, <2>2
  <2>4. <<b - 1, b>> \in OpToRel(<, Nat)
    BY <2>2 DEF OpToRel
  <2> QED
    BY <1>2, <2>3, <2>4
<1> QED
  BY <1>3

\* The frame of the call that a return leaves.
LEMMA CallFrameFacts ==
    ASSUME NEW P, NEW m, NEW s, BodyOk(P, s, m), Top(s).node.kind = "Return"
    PROVE  LET c == CallFrame(s) IN
           /\ c - 1 \in 1 .. Len(s.stack) - 1
           /\ c \in CallsOn(P, s.stack)
           /\ CallsOn(P, s.stack) \cap 1 .. c - 1 = CallsOn(P, s.stack) \ {c}
           /\ s.stack[c].node.kind = "StartFunction"
<1> DEFINE n == Len(s.stack)
           S == {k \in 1 .. n : s.stack[k].node.kind = "StartFunction"}
<1>1. /\ StackOk(P, s.stack)
      /\ n \in Nat \ {0}
      /\ s.stack[1].node.kind = "Root"
      /\ s.stack[n].node.kind = "Return"
      /\ DOMAIN s.stack = 1 .. n
  BY BodyIsTop, StackFacts, IsSeqFacts
<1>2. 2 \in S
  <2>1. n # 1 /\ 1 \in 1 .. n - 1
    BY <1>1
  <2>2. s.stack[1 + 1].node.kind = "StartFunction"
    BY <1>1, <2>1 DEF StackOk, Settled
  <2> QED
    BY <1>1, <2>1, <2>2
<1>3. PICK c \in S : \A j \in S : j <= c
  BY <1>1, <1>2, GreatestNumber
<1>4. \A k \in DOMAIN s.stack :
         /\ s.stack[k].node.kind = "StartFunction"
         /\ \A j \in DOMAIN s.stack :
               s.stack[j].node.kind = "StartFunction" => j <= k
         => k = c
  BY <1>1, <1>3
<1>5. CallFrame(s) = c
  BY <1>1, <1>3, <1>4 DEF CallFrame
<1>6. c \in 1 .. n - 1 /\ c - 1 \in 1 .. n - 1
  BY <1>1, <1>3
<1>7. IsCall(P, s.stack[c].node)
  BY <1>1, <1>3, <1>6 DEF StackOk, Settled
<1>8. c \in CallsOn(P, s.stack)
  BY <1>3, <1>7 DEF CallsOn
<1>9. CallsOn(P, s.stack) \subseteq S
  BY DEF CallsOn, IsCall
<1>10. CallsOn(P, s.stack) \cap 1 .. c - 1 = CallsOn(P, s.stack) \ {c}
  BY <1>1, <1>3, <1>9
<1> QED
  BY <1>3, <1>5, <1>6, <1>8, <1>10

\* A top frame f of which a path goes on, whatever its memory is.
Quiet(P, f) ==
    /\ f.node.kind \notin {"Panic", "Prune"}
    /\ IsCall(P, f.node) => f.rest # <<>>
    /\ f.rest # <<>> => Head(f.rest).kind \notin Transient

LEMMA QuietGoesOn ==
    ASSUME NEW P, NEW m, NEW s, BodyOk(P, s, m), Quiet(P, Top(s))
    PROVE  PathOk(P, s, m) /\ PendingOf(s) = Inputs
BY DEF PathOk, TopOk, Quiet, PendingOf, IsWaiting, Waiting, Transient

LEMMA QuietSame ==
    ASSUME NEW P, NEW f, Quiet(P, f), NEW g, g.node = f.node, g.rest = f.rest
    PROVE  Quiet(P, g)
BY DEF Quiet

\* What is under the top frame, when that is not of a block.
LEMMA Uncovered ==
    ASSUME NEW P, NEW f, FrameOk(P, f), NEW above, Settled(P, f, above),
           above.kind # "Block"
    PROVE  Quiet(P, f)
<1>1. IsSeq(f.rest)
  BY DEF FrameOk
<1>2. f.rest # <<>> => 1 \in 1 .. Len(f.rest) /\ Head(f.rest) = f.rest[1]
  BY <1>1, IsSeqFacts, TailFacts
<1> QED
  BY <1>2 DEF Settled, IsCall, Quiet

\* The rest of a frame, when no block is taken from it.
LEMMA TakenIsQuiet ==
    ASSUME NEW P, NEW m, NEW s, BodyOk(P, s, m), IsWaiting(s), Waiting(s).kind # "Block"
    PROVE  Quiet(P, Top(Take(s)))
<1>1. FrameOk(P, Top(s)) /\ Top(s).rest # <<>> /\ Top(Take(s)) = TakenTop(s)
  BY BodyIsTop, TakeBody DEF IsWaiting
<1> DEFINE r == Tail(Top(s).rest)
<1>2. IsSeq(r)
  BY <1>1, TailFacts DEF FrameOk
<1>3. r # <<>> => 1 \in 1 .. Len(r) /\ Head(r) = r[1]
  BY <1>2, IsSeqFacts, TailFacts
<1>4. r # <<>> => Head(r).kind \notin Transient
  BY <1>1, <1>3, WaitingFacts
<1>5. ~ IsCall(P, Top(s).node) /\ Top(s).node.kind \notin {"Panic", "Prune"}
  BY <1>1, WaitingFacts DEF IsCall, Waiting
<1>6. TakenTop(s).node = Top(s).node /\ TakenTop(s).rest = r
  BY FrameFacts DEF TakenTop
<1> QED
  BY <1>1, <1>4, <1>5, <1>6 DEF Quiet

\* The top frame ends, and it is not the frame of a call with a body.
LEMMA PopBody ==
    ASSUME NEW P, NEW m, NEW s, BodyOk(P, s, m), ~ IsCall(P, Top(s).node),
           Top(s).node.kind \notin {"Root", "Block"}
    PROVE  BodyOk(P, Pop(s), m) /\ Quiet(P, Top(Pop(s)))
<1> DEFINE n == Len(s.stack)
           t == Pop(s)
<1>1. /\ StackOk(P, s.stack)
      /\ n \in Nat \ {0}
      /\ s.stack[1].node.kind = "Root"
      /\ s.stack[n] = Top(s)
  BY BodyIsTop, StackFacts
<1>2. n - 1 \in 1 .. n - 1 /\ n - 1 + 1 = n
  <2>1. n # 1
    BY <1>1
  <2> QED
    BY <1>1, <2>1
<1>3. /\ IsState(t)
      /\ t.stack = FirstOf(s.stack, n - 1)
      /\ t.levels = s.levels
      /\ t.locals = s.locals
      /\ t.visited = s.visited
      /\ t.found = s.found
  <2>1. IsState(s)
    BY BodyIsTop
  <2>2. t = StateOf(FirstOf(s.stack, n - 1), s.levels, s.locals, s.visited, s.found)
    BY <2>1, PopIs, Zenon
  <2> QED
    BY <2>2, StateFacts
<1>4. /\ StackOk(P, t.stack)
      /\ CallsOn(P, t.stack) = CallsOn(P, s.stack) \cap 1 .. n - 1
      /\ Len(t.stack) = n - 1
      /\ t.stack[n - 1] = s.stack[n - 1]
      /\ Settled(P, s.stack[n - 1], s.stack[n].node)
  BY <1>1, <1>2, <1>3, CutOk
<1>5. CallsOn(P, t.stack) = CallsOn(P, s.stack)
  <2>1. n \notin CallsOn(P, s.stack) /\ CallsOn(P, s.stack) \subseteq 1 .. n
    BY <1>1 DEF CallsOn
  <2> QED
    BY <1>1, <1>4, <2>1
<1>6. Top(t) = t.stack[Len(t.stack)]
  BY DEF Top, Last
<1> HIDE DEF t
<1>7. BodyOk(P, t, m)
  BY <1>3, <1>4, <1>5 DEF BodyOk, CountsOk
<1>8. FrameOk(P, Top(t))
  BY <1>7, BodyIsTop
<1>9. Quiet(P, Top(t))
  BY <1>1, <1>4, <1>6, <1>8, Uncovered
<1> QED
  BY <1>7, <1>9 DEF t

\* The call that a return leaves ends.
LEMMA ExitBody ==
    ASSUME NEW P, NEW m, NEW s, BodyOk(P, s, m), Top(s).node.kind = "Return"
    PROVE  LET t == ExitFunction(s) IN
           /\ BodyOk(P, t, m)
           /\ Quiet(P, Top(t))
           /\ t.found = s.found
<1> DEFINE c == CallFrame(s)
           t == ExitFunction(s)
           calls == CallsOn(P, s.stack)
<1>1. /\ StackOk(P, s.stack)
      /\ Len(s.stack) \in Nat
      /\ c - 1 \in 1 .. Len(s.stack) - 1
      /\ c \in calls
      /\ calls \cap 1 .. c - 1 = calls \ {c}
      /\ s.stack[c].node.kind = "StartFunction"
  BY BodyIsTop, CallFrameFacts, StackFacts
<1>2. c \in Int /\ c - 1 + 1 = c
  BY <1>1, CallsAreFinite
<1>3. /\ IsState(t)
      /\ t.stack = FirstOf(s.stack, c - 1)
      /\ t.levels = Tail(Tail(s.levels))
      /\ t.locals = FirstOf(s.locals, Len(s.locals) - 1)
      /\ t.visited = s.visited
      /\ t.found = s.found
  <2>1. IsState(s)
    BY BodyIsTop
  <2>2. t = StateOf(FirstOf(s.stack, c - 1), Tail(Tail(s.levels)),
                    FirstOf(s.locals, Len(s.locals) - 1), s.visited, s.found)
    BY <2>1, ExitIs, Zenon
  <2> QED
    BY <2>2, StateFacts
<1> HIDE DEF c
<1>4. /\ StackOk(P, t.stack)
      /\ CallsOn(P, t.stack) = calls \ {c}
      /\ t.stack[Len(t.stack)] = s.stack[c - 1]
      /\ Settled(P, s.stack[c - 1], s.stack[c].node)
  BY <1>1, <1>2, <1>3, CutOk
<1>5. /\ Cardinality(calls) \in Nat \ {0}
      /\ Cardinality(calls \ {c}) = Cardinality(calls) - 1
  <2>1. IsFiniteSet(calls) /\ Cardinality(calls) \in Nat
    BY <1>1, CallsAreFinite
  <2>2. Cardinality(calls \ {c}) = Cardinality(calls) - 1 /\ IsFiniteSet(calls \ {c})
    BY <1>1, <2>1, FS_RemoveElement
  <2>3. Cardinality(calls \ {c}) \in Nat
    BY <2>2, FS_CardinalityType
  <2> QED
    BY <2>1, <2>2, <2>3
<1>6. /\ s.levels \in Seq(Seq(DOMAIN NodesOf(P)))
      /\ Len(s.levels) >= 1 + 2 * Cardinality(calls)
      /\ IsSeq(s.locals)
      /\ Len(s.locals) = 1 + Cardinality(calls)
  BY DEF BodyOk, CountsOk
<1> DEFINE N == DOMAIN NodesOf(P)
<1> HIDE DEF N, calls
<1>7. /\ Tail(Tail(s.levels)) \in Seq(Seq(N))
      /\ Len(Tail(Tail(s.levels))) = Len(s.levels) - 2
  <2>1. s.levels \in Seq(Seq(N)) /\ Len(s.levels) \in Nat /\ Len(s.levels) > 1
    BY <1>5, <1>6, LenProperties DEF N
  <2>2. Tail(s.levels) \in Seq(Seq(N)) /\ Len(Tail(s.levels)) = Len(s.levels) - 1
    BY <2>1, LevelPopped
  <2>3. \A levels \in Seq(Seq(N)) :
           Len(levels) > 0 => /\ Tail(levels) \in Seq(Seq(N))
                              /\ Len(Tail(levels)) = Len(levels) - 1
    BY LevelPopped
  <2>4. /\ Tail(Tail(s.levels)) \in Seq(Seq(N))
        /\ Len(Tail(Tail(s.levels))) = Len(Tail(s.levels)) - 1
    <3>1. Len(Tail(s.levels)) > 0
      BY <2>1, <2>2
    <3> QED
      BY <2>2, <2>3, <3>1, Zenon
  <2> QED
    BY <2>1, <2>2, <2>4
<1>8. Len(s.levels) - 2 >= 1 + 2 * (Cardinality(calls) - 1)
  <2>1. Len(s.levels) \in Nat
    BY <1>6, LenProperties
  <2> QED
    BY <1>5, <1>6, <2>1
<1>9. IsSeq(t.locals) /\ Len(t.locals) = 1 + (Cardinality(calls) - 1)
  <2>1. Len(s.locals) - 1 \in 0 .. Len(s.locals)
    BY <1>5, <1>6
  <2> QED
    BY <1>3, <1>5, <1>6, <2>1, FirstOfFacts
<1>10. Top(t) = t.stack[Len(t.stack)]
  BY DEF Top, Last
<1> HIDE DEF t
<1>11. CountsOk(P, t)
  BY <1>3, <1>4, <1>5, <1>7, <1>8, <1>9 DEF CountsOk, N
<1>12. BodyOk(P, t, m)
  BY <1>3, <1>4, <1>11 DEF BodyOk
<1>13. FrameOk(P, Top(t))
  BY <1>12, BodyIsTop
<1>14. Quiet(P, Top(t))
  BY <1>1, <1>4, <1>10, <1>13, Uncovered
<1> QED
  BY <1>3, <1>12, <1>14 DEF t

\* A node is started: its frame is put on top.
LEMMA PushFacts ==
    ASSUME NEW P, NEW m, NEW s, BodyOk(P, s, m), IsWaiting(s),
           Waiting(s).kind # "KeepResult",
           NEW f, FrameOk(P, f), f.node = Waiting(s)
    PROVE  LET new == Pushed(SetTop(s, TakenTop(s)), f) IN
           /\ StackOk(P, new)
           /\ new[Len(new)] = f
           /\ Cardinality(CallsOn(P, new)) =
                Cardinality(CallsOn(P, s.stack)) + (IF IsCall(P, Waiting(s)) THEN 1 ELSE 0)
<1> DEFINE old == SetTop(s, TakenTop(s))
           new == Pushed(old, f)
           calls == CallsOn(P, s.stack)
<1>1. IsTop(s) /\ FrameOk(P, Top(s)) /\ Top(s) = s.stack[Len(s.stack)] /\ Top(s).rest # <<>>
  BY BodyIsTop DEF IsWaiting
<1>2. FrameOk(P, TakenTop(s)) /\ TakenTop(s).node = Top(s).node
  BY <1>1, WaitingFacts, FrameFacts DEF TakenTop
<1>3. StackOk(P, s.stack)
  BY BodyIsTop
<1>4. /\ StackOk(P, old)
      /\ CallsOn(P, old) = calls
      /\ old[Len(old)] = TakenTop(s)
  BY <1>1, <1>2, <1>3, SetTopOk DEF SetTop
<1>5. Settled(P, TakenTop(s), f.node)
  <2>1. \A j \in 1 .. Len(TakenTop(s).rest) : TakenTop(s).rest[j].kind \notin Transient
    <3>1. TakenTop(s).rest = Tail(Top(s).rest)
      BY FrameFacts DEF TakenTop
    <3>2. \A j \in 1 .. Len(Tail(Top(s).rest)) : Tail(Top(s).rest)[j].kind \notin Transient
      BY <1>1, WaitingFacts
    <3> QED
      BY <3>1, <3>2
  <2> QED
    BY <1>1, <1>2, <2>1, WaitingFacts DEF Settled, Waiting
<1> HIDE DEF old, calls
<1>6. /\ StackOk(P, new)
      /\ CallsOn(P, new) = calls \cup (IF IsCall(P, f.node) THEN {Len(old) + 1} ELSE {})
      /\ Len(new) = Len(old) + 1
      /\ new[Len(old) + 1] = f
  BY <1>4, <1>5, PushOk
<1>7. /\ IsFiniteSet(calls)
      /\ Cardinality(calls) \in Nat
      /\ Len(old) + 1 \notin calls
  <2>1. IsFiniteSet(calls) /\ Cardinality(calls) \in Nat
    BY <1>3, CallsAreFinite DEF calls
  <2>2. calls \subseteq 1 .. Len(old) /\ Len(old) \in Nat
    BY <1>4, CallsAreFinite, StackFacts
  <2> QED
    BY <2>1, <2>2
<1>8. Cardinality(calls \cup {Len(old) + 1}) = Cardinality(calls) + 1
  BY <1>7, FS_AddElement
<1>9. Cardinality(CallsOn(P, new)) =
        Cardinality(calls) + (IF IsCall(P, Waiting(s)) THEN 1 ELSE 0)
  <2>1. CASE IsCall(P, Waiting(s))
    BY <1>6, <1>8, <2>1
  <2>2. CASE ~ IsCall(P, Waiting(s))
    <3>1. CallsOn(P, new) = calls
      BY <1>6, <2>2
    <3> QED
      BY <1>7, <2>2, <3>1
  <2> QED
    BY <2>1, <2>2
<1> QED
  BY <1>6, <1>9 DEF old, calls

LEMMA CountsAdd ==
    ASSUME NEW old \in Nat, NEW k \in Nat, NEW new, new = old + k,
           NEW a \in Nat, a >= 1 + 2 * old, NEW b \in Nat, b >= a + 2 * k
    PROVE  b >= 1 + 2 * new /\ (1 + old) + k = 1 + new
OBVIOUS

\* A state with new levels and locals after the start of a node.
LEMMA StartedBody ==
    ASSUME NEW P, NEW m, NEW s, BodyOk(P, s, m), IsWaiting(s),
           Waiting(s).kind # "KeepResult",
           NEW f, FrameOk(P, f), f.node = Waiting(s),
           NEW levels \in Seq(Seq(DOMAIN NodesOf(P))), NEW locals, IsSeq(locals),
           NEW k \in {0, 1}, k = IF IsCall(P, Waiting(s)) THEN 1 ELSE 0,
           Len(levels) >= Len(s.levels) + 2 * k,
           Len(locals) = Len(s.locals) + k,
           NEW t, t = StateOf(Pushed(SetTop(s, TakenTop(s)), f), levels, locals,
                              TakenVisited(s), s.found)
    PROVE  /\ BodyOk(P, t, m)
           /\ Top(t) = f
           /\ t.found = s.found
<1>1. /\ IsState(t)
      /\ t.stack = Pushed(SetTop(s, TakenTop(s)), f)
      /\ t.levels = levels
      /\ t.locals = locals
      /\ t.visited = TakenVisited(s)
      /\ t.found = s.found
  BY StateFacts
<1>2. /\ StackOk(P, t.stack)
      /\ t.stack[Len(t.stack)] = f
      /\ Cardinality(CallsOn(P, t.stack)) = Cardinality(CallsOn(P, s.stack)) + k
  BY <1>1, PushFacts
<1>3. Top(t) = f
  BY <1>2 DEF Top, Last
<1>4. TakenVisited(s) \subseteq DOMAIN NodesOf(P)
  BY TakeBody
<1>5. CountsOk(P, t)
  <2>1. /\ Len(s.levels) >= 1 + 2 * Cardinality(CallsOn(P, s.stack))
        /\ Len(s.locals) = 1 + Cardinality(CallsOn(P, s.stack))
        /\ s.levels \in Seq(Seq(DOMAIN NodesOf(P)))
    BY DEF BodyOk, CountsOk
  <2>2. Cardinality(CallsOn(P, s.stack)) \in Nat
    BY CallsAreFinite DEF BodyOk
  <2>3. Len(s.levels) \in Nat /\ Len(levels) \in Nat
    BY <2>1, LenProperties
  <2>4. /\ Len(levels) >= 1 + 2 * Cardinality(CallsOn(P, t.stack))
        /\ Len(locals) = 1 + Cardinality(CallsOn(P, t.stack))
    <3> DEFINE calls == Cardinality(CallsOn(P, s.stack))
               newCalls == Cardinality(CallsOn(P, t.stack))
               levelsLen == Len(levels)
               oldLen == Len(s.levels)
    <3>1. /\ newCalls = calls + k
          /\ calls \in Nat /\ levelsLen \in Nat /\ oldLen \in Nat /\ k \in Nat
          /\ levelsLen >= oldLen + 2 * k
          /\ oldLen >= 1 + 2 * calls
          /\ Len(locals) = (1 + calls) + k
      BY <1>2, <2>1, <2>2, <2>3
    <3> HIDE DEF calls, newCalls, levelsLen, oldLen
    <3>2. levelsLen >= 1 + 2 * newCalls /\ (1 + calls) + k = 1 + newCalls
      BY <3>1, CountsAdd
    <3> QED
      BY <3>1, <3>2 DEF newCalls, levelsLen
  <2> QED
    BY <1>1, <2>4 DEF CountsOk
<1> QED
  BY <1>1, <1>2, <1>3, <1>4, <1>5 DEF BodyOk

LEMMA OldCounts ==
    ASSUME NEW P, NEW m, NEW s, BodyOk(P, s, m)
    PROVE  /\ IsSeq(s.locals)
           /\ s.locals # <<>>
           /\ Len(s.levels) \in Nat
           /\ Len(s.levels) > 0
           /\ Len(s.locals) \in Nat
<1>1. /\ Len(s.levels) >= 1 + 2 * Cardinality(CallsOn(P, s.stack))
      /\ Len(s.locals) = 1 + Cardinality(CallsOn(P, s.stack))
      /\ s.levels \in Seq(Seq(DOMAIN NodesOf(P)))
      /\ IsSeq(s.locals)
  BY DEF BodyOk, CountsOk
<1>2. Cardinality(CallsOn(P, s.stack)) \in Nat
  BY CallsAreFinite DEF BodyOk
<1>3. Len(s.levels) \in Nat
  BY <1>1, LenProperties
<1> QED
  BY <1>1, <1>2, <1>3, IsSeqFacts

LEMMA StartBody ==
    ASSUME NEW P, NEW m, NEW s, BodyOk(P, s, m), IsWaiting(s),
           Waiting(s).kind # "KeepResult", ~ IsCall(P, Waiting(s)),
           NEW children, NEW args, FrameOk(P, Frame(Waiting(s), children, args))
    PROVE  /\ BodyOk(P, Start(s, children, args), m)
           /\ Top(Start(s, children, args)) = Frame(Waiting(s), children, args)
           /\ Start(s, children, args).found = s.found
<1> DEFINE f == Frame(Waiting(s), children, args)
           t == Start(s, children, args)
<1>1. t = StateOf(Pushed(SetTop(s, TakenTop(s)), f), TakenLevels(s), s.locals,
                  TakenVisited(s), s.found)
  BY BodyIsTop, StartIs
<1>2. /\ TakenLevels(s) \in Seq(Seq(DOMAIN NodesOf(P)))
      /\ Len(TakenLevels(s)) = Len(s.levels)
  BY TakeBody
<1>3. f.node = Waiting(s) /\ FrameOk(P, f)
  BY FrameFacts
<1>4. Len(TakenLevels(s)) >= Len(s.levels) + 2 * 0 /\ Len(s.locals) = Len(s.locals) + 0
  BY <1>2, OldCounts
<1> HIDE DEF f, t
<1>5. /\ BodyOk(P, t, m)
      /\ Top(t) = f
      /\ t.found = s.found
  BY <1>1, <1>2, <1>3, <1>4, OldCounts, StartedBody
<1> QED
  BY <1>5 DEF f, t

StartedBranch(s, children, args) ==
    [Start(s, children, args) EXCEPT !.levels = <<<<>>>> \o @]

Entered(s, children, args, params) ==
    [Start(s, children, args) EXCEPT !.levels = <<<<>>, <<>>>> \o @,
                                     !.locals = Append(@, params)]

\* A branch is started: the blocks on it get a level of their own.
LEMMA BranchBody ==
    ASSUME NEW P, NEW m, NEW s, BodyOk(P, s, m), IsWaiting(s),
           Waiting(s).kind # "KeepResult", ~ IsCall(P, Waiting(s)),
           NEW children, NEW args, FrameOk(P, Frame(Waiting(s), children, args))
    PROVE  LET t == StartedBranch(s, children, args) IN
           /\ BodyOk(P, t, m)
           /\ Top(t) = Frame(Waiting(s), children, args)
           /\ t.found = s.found
<1> DEFINE f == Frame(Waiting(s), children, args)
           u == Start(s, children, args)
           levels == <<<<>>>> \o TakenLevels(s)
           t == [u EXCEPT !.levels = <<<<>>>> \o @]
<1>1. u = StateOf(Pushed(SetTop(s, TakenTop(s)), f), TakenLevels(s), s.locals,
                  TakenVisited(s), s.found)
  BY BodyIsTop, StartIs
<1>2. /\ IsState(u)
      /\ u.stack = Pushed(SetTop(s, TakenTop(s)), f)
      /\ u.levels = TakenLevels(s)
      /\ u.locals = s.locals
      /\ u.visited = TakenVisited(s)
      /\ u.found = s.found
  BY <1>1, StateFacts
<1>3. t = [u EXCEPT !.levels = levels]
  BY <1>2
<1>4. /\ TakenLevels(s) \in Seq(Seq(DOMAIN NodesOf(P)))
      /\ Len(TakenLevels(s)) = Len(s.levels)
  BY TakeBody
<1>5. <<>> \in Seq(DOMAIN NodesOf(P))
  BY EmptySeq
<1>6. levels \in Seq(Seq(DOMAIN NodesOf(P))) /\ Len(levels) = Len(s.levels) + 1
  BY <1>4, <1>5, LevelPushed
<1>7. f.node = Waiting(s) /\ FrameOk(P, f)
  BY FrameFacts
<1> HIDE DEF f, levels, u, t
<1>8. t = StateOf(Pushed(SetTop(s, TakenTop(s)), f), levels, s.locals,
                  TakenVisited(s), s.found)
  <2>1. t = StateOf(u.stack, levels, u.locals, u.visited, u.found)
    BY <1>2, <1>3, SetFields, Zenon
  <2> QED
    BY <1>2, <2>1
<1>9. Len(levels) >= Len(s.levels) + 2 * 0 /\ Len(s.locals) = Len(s.locals) + 0
  BY <1>6, OldCounts
<1>10. /\ BodyOk(P, t, m)
       /\ Top(t) = f
       /\ t.found = s.found
  BY <1>6, <1>7, <1>8, <1>9, OldCounts, StartedBody
<1> QED
  BY <1>10 DEF f, t, u, StartedBranch

\* A function is entered: two levels, and the locals of the function.
LEMMA EnterBody ==
    ASSUME NEW P, NEW m, NEW s, BodyOk(P, s, m), IsWaiting(s),
           IsCall(P, Waiting(s)),
           NEW children, NEW args, FrameOk(P, Frame(Waiting(s), children, args)),
           NEW params
    PROVE  LET t == Entered(s, children, args, params) IN
           /\ BodyOk(P, t, m)
           /\ Top(t) = Frame(Waiting(s), children, args)
           /\ t.found = s.found
<1> DEFINE f == Frame(Waiting(s), children, args)
           u == Start(s, children, args)
           levels == <<<<>>, <<>>>> \o TakenLevels(s)
           locals == Pushed(s.locals, params)
           t == [u EXCEPT !.levels = <<<<>>, <<>>>> \o @, !.locals = Append(@, params)]
<1>1. u = StateOf(Pushed(SetTop(s, TakenTop(s)), f), TakenLevels(s), s.locals,
                  TakenVisited(s), s.found)
  BY BodyIsTop, StartIs
<1>2. /\ IsState(u)
      /\ u.stack = Pushed(SetTop(s, TakenTop(s)), f)
      /\ u.levels = TakenLevels(s)
      /\ u.locals = s.locals
      /\ u.visited = TakenVisited(s)
      /\ u.found = s.found
  BY <1>1, StateFacts
<1>3. t = [u EXCEPT !.levels = levels, !.locals = locals]
  <2>1. DOMAIN u = {"stack", "levels", "locals", "visited", "found"}
    BY <1>1 DEF StateOf
  <2> QED
    BY <1>2, <2>1 DEF Pushed
<1>4. /\ TakenLevels(s) \in Seq(Seq(DOMAIN NodesOf(P)))
      /\ Len(TakenLevels(s)) = Len(s.levels)
  BY TakeBody
<1>5. levels \in Seq(Seq(DOMAIN NodesOf(P))) /\ Len(levels) = Len(s.levels) + 2
  <2>1. <<<<>>, <<>>>> \in Seq(Seq(DOMAIN NodesOf(P)))
    BY EmptySeq
  <2>2. Len(<<<<>>, <<>>>>) = 2
    OBVIOUS
  <2> QED
    BY <1>4, <2>1, <2>2, OldCounts, ConcatProperties
<1>6. IsSeq(locals) /\ Len(locals) = Len(s.locals) + 1
  BY OldCounts, PushedFacts
<1>7. f.node = Waiting(s) /\ FrameOk(P, f) /\ Waiting(s).kind # "KeepResult"
  BY FrameFacts DEF IsCall
<1> HIDE DEF f, levels, locals, u
<1>8. t = StateOf(Pushed(SetTop(s, TakenTop(s)), f), levels, locals,
                  TakenVisited(s), s.found)
  <2>1. t = StateOf(u.stack, levels, locals, u.visited, u.found)
    BY <1>2, <1>3, SetTwoFields, Zenon
  <2> QED
    BY <1>2, <2>1
<1>9. Len(levels) >= Len(s.levels) + 2 * 1 /\ Len(locals) = Len(s.locals) + 1
  BY <1>5, <1>6, OldCounts
<1> HIDE DEF t
<1>10. /\ BodyOk(P, t, m)
       /\ Top(t) = f
       /\ t.found = s.found
  BY <1>5, <1>6, <1>7, <1>8, <1>9, OldCounts, StartedBody
<1> QED
  BY <1>10 DEF f, t, u, Entered

-----------------------------------------------------------------------------

(* Nodes *)

LEMMA ClassFacts ==
    ASSUME prog \in DOMAIN Programs, NEW n \in DOMAIN G
    PROVE  /\ n # NoNode
           /\ "kind" \in DOMAIN G[n] /\ "id" \notin DOMAIN G[n]
           /\ G[n].kind \in ProgramKinds
           /\ G[n].kind = "Call" => /\ "func" \in DOMAIN G[n]
                                    /\ G[n].func \in DOMAIN G
                                    /\ G[G[n].func].kind = "Func"
           /\ G[n].kind = "Func" /\ G[n].body # NoNode =>
                G[n].body \in DOMAIN G /\ G[G[n].body].kind = "Block"
           /\ G[n].kind = "Block" => /\ IsSeq(G[n].instr)
                                     /\ \A k \in 1 .. Len(G[n].instr) :
                                          G[n].instr[k] \in DOMAIN G
           /\ G[n].kind = "If" => /\ G[n].body \in DOMAIN G
                                  /\ G[G[n].body].kind = "Block"
                                  /\ G[n].elseBody \in DOMAIN G
                                  /\ G[G[n].elseBody].kind = "Block"
           /\ G[n].kind = "Jump" => /\ G[n].successor \in DOMAIN G
                                    /\ G[G[n].successor].kind = "Block"
           /\ G[n].kind = "Phi" => /\ \A b \in DOMAIN G[n].edges : G[n].edges[b] \in DOMAIN G
                                   /\ G[n].nested \subseteq DOMAIN G[n].edges
<1> DEFINE Nodes == DOMAIN G
           Blocks == {k \in Nodes : G[k].kind = "Block"}
           Funcs == {k \in Nodes : G[k].kind = "Func"}
<1>1. /\ NoNode \notin Nodes
      /\ \/ G[n] \in [kind : {"Func"}, name : STRING, params : Seq(Nodes),
                      body : Blocks \cup {NoNode}]
         \/ G[n] \in [kind : {"Block"}, instr : Seq(Nodes)]
         \/ G[n] \in [kind : {"If"}, cond : Nodes, body : Blocks, elseBody : Blocks]
         \/ G[n] \in [kind : {"Jump"}, successor : Blocks]
         \/ G[n] \in [kind : {"Return"}, res : Seq(Nodes), fn : Funcs]
         \/ G[n] \in [kind : {"Panic"}, fn : Funcs]
         \/ G[n] \in [kind : {"Call"}, func : Funcs, args : Seq(Nodes)]
         \/ G[n] \in [kind : {"BinOp"}, op : STRING, x : Nodes, y : Nodes]
         \/ G[n] \in [kind : {"UnOp"}, op : STRING, x : Nodes]
         \/ G[n].kind = "Const" /\ G[n] = ConstNode(G[n].value)
         \/ G[n] \in [kind : {"Param"}, type : {"int", "bool"}]
         \/ /\ G[n].kind = "Phi"
            /\ G[n] = PhiNode(G[n].edges, G[n].nested)
            /\ Range(G[n].edges) \subseteq Nodes
            /\ G[n].nested \subseteq DOMAIN G[n].edges
  BY ProgramsAssumption DEF IsProgram, G
<1>2. \A b \in Blocks : b \in Nodes /\ G[b].kind = "Block"
  OBVIOUS
<1>3. \A b \in Funcs : b \in Nodes /\ G[b].kind = "Func"
  OBVIOUS
<1>4. n # NoNode
  BY <1>1
<1> HIDE DEF Blocks, Funcs
<1>5. CASE G[n] \in [kind : {"Func"}, name : STRING, params : Seq(Nodes),
                     body : Blocks \cup {NoNode}]
  BY <1>2, <1>4, <1>5 DEF ProgramKinds
<1>6. CASE G[n] \in [kind : {"Block"}, instr : Seq(Nodes)]
  <2>1. G[n].instr \in Seq(Nodes)
    BY <1>6
  <2>2. IsSeq(G[n].instr) /\ \A k \in 1 .. Len(G[n].instr) : G[n].instr[k] \in Nodes
    BY <2>1, SeqIsSeq, ElementOfSeq
  <2> QED
    BY <1>4, <1>6, <2>2 DEF ProgramKinds
<1>7. CASE G[n] \in [kind : {"If"}, cond : Nodes, body : Blocks, elseBody : Blocks]
  BY <1>2, <1>4, <1>7 DEF ProgramKinds
<1>8. CASE G[n] \in [kind : {"Jump"}, successor : Blocks]
  BY <1>2, <1>4, <1>8 DEF ProgramKinds
<1>9. CASE \/ G[n] \in [kind : {"Return"}, res : Seq(Nodes), fn : Funcs]
           \/ G[n] \in [kind : {"Panic"}, fn : Funcs]
  BY <1>4, <1>9 DEF ProgramKinds
<1>10. CASE G[n] \in [kind : {"Call"}, func : Funcs, args : Seq(Nodes)]
  BY <1>3, <1>4, <1>10 DEF ProgramKinds
<1>11. CASE \/ G[n] \in [kind : {"BinOp"}, op : STRING, x : Nodes, y : Nodes]
            \/ G[n] \in [kind : {"UnOp"}, op : STRING, x : Nodes]
            \/ G[n].kind = "Const" /\ G[n] = ConstNode(G[n].value)
            \/ G[n] \in [kind : {"Param"}, type : {"int", "bool"}]
  BY <1>4, <1>11 DEF ProgramKinds, ConstNode
<1>12. CASE /\ G[n].kind = "Phi"
            /\ G[n] = PhiNode(G[n].edges, G[n].nested)
            /\ Range(G[n].edges) \subseteq Nodes
            /\ G[n].nested \subseteq DOMAIN G[n].edges
  <2>1. DOMAIN G[n] = {"kind", "edges", "nested"}
    BY <1>12 DEF PhiNode
  <2>2. \A b \in DOMAIN G[n].edges : G[n].edges[b] \in Nodes
    BY <1>12 DEF Range
  <2> QED
    BY <1>4, <1>12, <2>1, <2>2 DEF ProgramKinds
<1> QED
  BY <1>1, <1>5, <1>6, <1>7, <1>8, <1>9, <1>10, <1>11, <1>12

LEMMA MainIsFunc ==
    ASSUME prog \in DOMAIN Programs
    PROVE  Main \in DOMAIN G /\ G[Main].kind = "Func"
BY ProgramsAssumption DEF IsProgram, G, Main

LEMMA NodeWithIdFacts ==
    ASSUME prog \in DOMAIN Programs, NEW n \in DOMAIN G
    PROVE  /\ NodeOk(prog, NodeWithId(n))
           /\ NodeWithId(n).kind = G[n].kind
           /\ NodeWithId(n).kind \notin OwnKinds
<1>1. /\ "kind" \in DOMAIN G[n] /\ "id" \notin DOMAIN G[n]
      /\ G[n].kind \in ProgramKinds
      /\ G[n].kind = "Call" => /\ "func" \in DOMAIN G[n]
                               /\ G[n].func \in DOMAIN G
                               /\ G[G[n].func].kind = "Func"
  BY ClassFacts
<1> DEFINE w == NodeWithId(n)
<1>2. /\ w.id = n
      /\ w.kind = G[n].kind
      /\ "func" \in DOMAIN G[n] => w.func = G[n].func
  BY <1>1 DEF NodeWithId
<1> HIDE DEF w
<1>3. DOMAIN G = DOMAIN NodesOf(prog) /\ G = NodesOf(prog)
  BY DEF G, NodesOf
<1>4. w.kind \notin OwnKinds
  BY <1>1, <1>2 DEF ProgramKinds, OwnKinds, Transient
<1>5. NodeOk(prog, w)
  BY <1>1, <1>2, <1>3, <1>4 DEF NodeOk, OwnKinds, Transient
<1> QED
  BY <1>2, <1>4, <1>5 DEF w

LEMMA OwnNodesFacts ==
    ASSUME NEW P
    PROVE  /\ NodeOk(P, RootNode) /\ RootNode.kind = "Root"
           /\ NodeOk(P, StopNode) /\ StopNode.kind = "Stop"
           /\ NodeOk(P, PruneNode) /\ PruneNode.kind = "Prune"
           /\ \A stop : /\ NodeOk(P, KeepResultNode(stop))
                        /\ KeepResultNode(stop).kind = "KeepResult"
                        /\ KeepResultNode(stop).stop = stop
<1>1. NodeOk(P, RootNode) /\ RootNode.kind = "Root"
  BY DEF NodeOk, RootNode, OwnKinds, Transient, ProgramKinds
<1>2. NodeOk(P, StopNode) /\ StopNode.kind = "Stop"
  BY DEF NodeOk, StopNode, OwnKinds, Transient, ProgramKinds
<1>3. NodeOk(P, PruneNode) /\ PruneNode.kind = "Prune"
  BY DEF NodeOk, PruneNode, OwnKinds, Transient, ProgramKinds
<1>4. ASSUME NEW stop
      PROVE  /\ NodeOk(P, KeepResultNode(stop))
             /\ KeepResultNode(stop).kind = "KeepResult"
             /\ KeepResultNode(stop).stop = stop
  BY DEF NodeOk, KeepResultNode, OwnKinds, Transient, ProgramKinds
<1> QED
  BY <1>1, <1>2, <1>3, <1>4

LEMMA StartFunctionNodeFacts ==
    ASSUME NEW P, NEW f \in DOMAIN NodesOf(P), NodesOf(P)[f].kind = "Func"
    PROVE  /\ NodeOk(P, StartFunctionNode(f))
           /\ StartFunctionNode(f).kind = "StartFunction"
BY DEF NodeOk, StartFunctionNode, OwnKinds, Transient, ProgramKinds

LEMMA BlockNodesFacts ==
    ASSUME NEW P, NEW n \in DOMAIN NodesOf(P)
    PROVE  /\ NodeOk(P, LinkNode(n))
           /\ LinkNode(n).kind = "Link"
           /\ NodesOf(P)[n].kind = "Phi" => NodeOk(P, ForcePhiNode(n))
           /\ ForcePhiNode(n).kind = "ForcePhi"
BY DEF NodeOk, LinkNode, ForcePhiNode, OwnKinds, Transient, ProgramKinds

LEMMA BranchNodesFacts ==
    ASSUME NEW P,
           NEW node, node.body \in DOMAIN NodesOf(P), node.elseBody \in DOMAIN NodesOf(P),
           NodesOf(P)[node.body].kind = "Block", NodesOf(P)[node.elseBody].kind = "Block"
    PROVE  /\ NodeOk(P, BranchControlNode(node))
           /\ BranchControlNode(node).kind = "BranchControl"
           /\ \A c \in Conditions :
                 /\ NodeOk(P, StartBranchNode(node.body, c))
                 /\ NodeOk(P, StartBranchNode(node.elseBody, c))
           /\ \A b, c : /\ StartBranchNode(b, c).kind = "StartBranch"
                        /\ StartBranchNode(b, c).cond = c
BY DEF NodeOk, BranchControlNode, StartBranchNode, OwnKinds, Transient, ProgramKinds

\* The frame of a node that has started.
LEMMA NewFrame ==
    ASSUME NEW P, NEW w, NodeOk(P, w), NEW children, IsSeq(children),
           \A j \in 1 .. Len(children) :
              /\ NodeOk(P, children[j])
              /\ children[j].kind \in Transient => Len(children) = 1
              /\ w.kind = "StartFunction" =>
                   children[j].kind = IF IsCall(P, w) THEN "Block" ELSE "KeepResult"
              /\ w.kind = "Root" => children[j].kind = "StartFunction",
           w.kind \in {"Panic", "Prune"} => children = <<>>,
           NEW args
    PROVE  FrameOk(P, Frame(w, children, args))
<1> DEFINE f == Frame(w, children, args)
<1>1. f.node = w /\ f.rest = children /\ f.args = args
  BY FrameFacts
<1>2. f = Frame(f.node, f.rest, f.args)
  BY <1>1
<1> HIDE DEF f
<1>3. FrameOk(P, f)
  BY <1>1, <1>2 DEF FrameOk
<1> QED
  BY <1>3 DEF f

LEMMA EmptyFrame ==
    ASSUME NEW P, NEW w, NodeOk(P, w), NEW args
    PROVE  FrameOk(P, Frame(w, <<>>, args))
BY EmptyIsSeq, NewFrame

LEMMA OneFrame ==
    ASSUME NEW P, NEW w, NodeOk(P, w), w.kind \notin {"Panic", "Prune"},
           NEW c, NodeOk(P, c),
           w.kind = "StartFunction" =>
             c.kind = IF IsCall(P, w) THEN "Block" ELSE "KeepResult",
           w.kind = "Root" => c.kind = "StartFunction",
           NEW args
    PROVE  /\ FrameOk(P, Frame(w, <<c>>, args))
           /\ Head(<<c>>) = c /\ <<c>> # <<>>
<1>1. PICK q : q = <<c>>
  OBVIOUS
<1>2. IsSeq(q) /\ Len(q) = 1 /\ q[1] = c /\ Head(q) = c /\ q # <<>>
  BY <1>1, OneIsSeq
<1>3. FrameOk(P, Frame(w, q, args))
  BY <1>2, NewFrame
<1> QED
  BY <1>1, <1>2, <1>3

\* A node with children that are no transient nodes has started.
LEMMA StartQuiet ==
    ASSUME NEW P, NEW m, NEW s, BodyOk(P, s, m), IsWaiting(s),
           Waiting(s).kind \notin {"KeepResult", "Panic", "Prune"},
           ~ IsCall(P, Waiting(s)),
           NEW children, NEW args, FrameOk(P, Frame(Waiting(s), children, args)),
           children # <<>> => Head(children).kind \notin Transient
    PROVE  LET t == Start(s, children, args) IN
           /\ BodyOk(P, t, m)
           /\ Quiet(P, Top(t))
           /\ t.found = s.found
<1>1. /\ BodyOk(P, Start(s, children, args), m)
      /\ Top(Start(s, children, args)) = Frame(Waiting(s), children, args)
      /\ Start(s, children, args).found = s.found
  BY StartBody
<1> QED
  BY <1>1, FrameFacts DEF Quiet

\* The children of a node that may be found useless.
LEMMA UsefulFrame ==
    ASSUME NEW P, NEW w, NodeOk(P, w),
           w.kind \notin {"Panic", "Prune", "Root", "StartFunction"},
           NEW children, NEW args, FrameOk(P, Frame(w, children, args)),
           children # <<>> => Head(children).kind \notin Transient,
           NEW n, NEW s
    PROVE  LET useful == UsefulChildren(n, s, children) IN
           /\ FrameOk(P, Frame(w, useful, args))
           /\ useful # <<>> => Head(useful).kind \notin Transient
<1>1. CASE IsNodeUseful(n, s)
  BY <1>1 DEF UsefulChildren
<1>2. CASE ~ IsNodeUseful(n, s)
  <2>1. NodeOk(P, PruneNode) /\ PruneNode.kind = "Prune"
    BY OwnNodesFacts
  <2>2. FrameOk(P, Frame(w, <<PruneNode>>, args)) /\ Head(<<PruneNode>>) = PruneNode
    BY <2>1, OneFrame
  <2> QED
    BY <1>2, <2>1, <2>2 DEF UsefulChildren, Transient
<1> QED
  BY <1>1, <1>2

-----------------------------------------------------------------------------

(* How a step ends *)

LEMMA PathFacts ==
    ASSUME IInv, NEW p \in queue
    PROVE  /\ p \in PathIds
           /\ PathOk(prog, st[p], mem[p])
           /\ BodyOk(prog, st[p], mem[p])
           /\ prog \in DOMAIN Programs
           /\ mem[p] \in Memories
           /\ created \in PathIds
           /\ NodesOf(prog) = G
<1>1. queue \subseteq PathIds
  BY MaxPathsAssumption DEF IInv, PathIds
<1> QED
  BY <1>1 DEF IInv, PathOk, NodesOf, G

\* The state s and the memory m that path p has after the step.
LEMMA OnlyPath ==
    ASSUME IInv, NEW p \in queue,
           NEW s, st' = [st EXCEPT ![p] = s],
           NEW m \in Memories, mem' = [mem EXCEPT ![p] = m]
    PROVE  /\ st'[p] = s /\ mem'[p] = m
           /\ \A q \in PathIds : q # p => st'[q] = st[q] /\ mem'[q] = mem[q]
           /\ mem' \in [PathIds -> Memories]
           /\ st' = [q \in PathIds |-> st'[q]]
           /\ PendingOf(s) = PathPending[p] => PathPending' = PathPending
           /\ PathPending' = [PathPending EXCEPT ![p] = PendingOf(s)]
<1>1. p \in PathIds
  BY PathFacts
<1>2. st = [q \in PathIds |-> st[q]] /\ mem \in [PathIds -> Memories]
  BY DEF IInv
<1>3. /\ st'[p] = s /\ mem'[p] = m
      /\ \A q \in PathIds : q # p => st'[q] = st[q] /\ mem'[q] = mem[q]
      /\ mem' \in [PathIds -> Memories]
      /\ st' = [q \in PathIds |-> st'[q]]
  BY <1>1, <1>2
<1>4. \A q \in PathIds :
         PendingOf(st'[q]) = IF q = p THEN PendingOf(s) ELSE PendingOf(st[q])
  BY <1>1, <1>3
<1>5. PathPending' = [PathPending EXCEPT ![p] = PendingOf(s)]
  BY <1>1, <1>4 DEF PathPending
<1>6. PendingOf(s) = PathPending[p] => PathPending' = PathPending
  BY <1>1, <1>4 DEF PathPending
<1> QED
  BY <1>3, <1>5, <1>6

\* A path goes on.
LEMMA GoOnInv ==
    ASSUME IInv, NEW p \in queue, NEW s, GoOn(p, s),
           NEW m \in Memories, mem' = [mem EXCEPT ![p] = m],
           PathOk(prog, s, m), terminals' \subseteq terminals, dropped' \in Conditions
    PROVE  IInv' /\ PathResults' = PathResults
<1>1. /\ st' = [st EXCEPT ![p] = s]
      /\ UNCHANGED <<prog, created, queue, results, phase>>
  BY DEF GoOn
<1>2. /\ st'[p] = s /\ mem'[p] = m
      /\ \A q \in PathIds : q # p => st'[q] = st[q] /\ mem'[q] = mem[q]
      /\ mem' \in [PathIds -> Memories]
      /\ st' = [q \in PathIds |-> st'[q]]
  BY <1>1, OnlyPath
<1>3. \A q \in queue : q \in PathIds /\ PathOk(prog, st[q], mem[q])
  BY PathFacts
<1>4. \A q \in queue' : PathOk(prog', st'[q], mem'[q])
  BY <1>1, <1>2, <1>3
<1>5. PathResults' = PathResults
  BY <1>1 DEF PathResults
<1> QED
  BY <1>1, <1>2, <1>4, <1>5 DEF IInv

\* A path leaves the queue, with some results.
LEMMA LeaveInv ==
    ASSUME IInv, NEW p \in queue,
           NEW s, st' = [st EXCEPT ![p] = s],
           NEW m \in Memories, mem' = [mem EXCEPT ![p] = m],
           queue' = queue \ {p},
           NEW R, results' = results \cup R, \A r \in R : ResultOk(r),
           UNCHANGED <<prog, created, phase, dropped>>, terminals' \subseteq terminals
    PROVE  /\ IInv'
           /\ PathResults' = PathResults \cup {[kind |-> r.kind, cond |-> r.cond] : r \in R}
<1>1. /\ \A q \in PathIds : q # p => st'[q] = st[q] /\ mem'[q] = mem[q]
      /\ mem' \in [PathIds -> Memories]
      /\ st' = [q \in PathIds |-> st'[q]]
  BY OnlyPath
<1>2. \A q \in queue : q \in PathIds /\ PathOk(prog, st[q], mem[q])
  BY PathFacts
<1>3. \A q \in queue' : PathOk(prog', st'[q], mem'[q])
  BY <1>1, <1>2
<1>4. \A r \in results' : ResultOk(r)
  BY DEF IInv
<1>5. PathResults' = PathResults \cup {[kind |-> r.kind, cond |-> r.cond] : r \in R}
  BY DEF PathResults
<1> QED
  BY <1>1, <1>3, <1>4, <1>5 DEF IInv

\* The errors that a path leaves.
LEMMA ErrorResultsFacts ==
    ASSUME NEW m \in Memories, NEW s, {e.cond : e \in s.found} = m.errors,
           \A e \in s.found : e.what \in Causes
    PROVE  /\ \A r \in ErrorResults(s) : ResultOk(r)
           /\ {[kind |-> r.kind, cond |-> r.cond] : r \in ErrorResults(s)} =
                {[kind |-> "error", cond |-> c] : c \in m.errors}
<1>1. m.errors \subseteq Conditions
  BY DEF Memories
<1>2. \A e \in s.found : e.cond \in m.errors
  OBVIOUS
<1>3. \A c \in m.errors : \E e \in s.found : e.cond = c
  OBVIOUS
<1>4. ASSUME NEW r \in ErrorResults(s)
      PROVE  /\ ResultOk(r)
             /\ r.kind = "error"
             /\ r.cond \in m.errors
  <2>1. PICK e \in s.found : r = [kind |-> "error", cond |-> e.cond, what |-> e.what,
                                  visited |-> e.visited, val |-> NoValue]
    BY DEF ErrorResults
  <2>2. r.kind = "error" /\ r.cond = e.cond /\ r.what = e.what
    BY <2>1
  <2> QED
    BY <1>1, <1>2, <2>2 DEF ResultOk, Kinds
<1>5. ASSUME NEW c \in m.errors
      PROVE  \E r \in ErrorResults(s) : r.kind = "error" /\ r.cond = c
  <2>1. PICK e \in s.found : e.cond = c
    BY <1>3
  <2> DEFINE r == [kind |-> "error", cond |-> e.cond, what |-> e.what,
                   visited |-> e.visited, val |-> NoValue]
  <2>2. r \in ErrorResults(s) /\ r.kind = "error" /\ r.cond = c
    BY <2>1 DEF ErrorResults
  <2> QED
    BY <2>2
<1> HIDE DEF ErrorResults
<1>6. {[kind |-> r.kind, cond |-> r.cond] : r \in ErrorResults(s)} \subseteq
        {[kind |-> "error", cond |-> c] : c \in m.errors}
  BY <1>4
<1>7. {[kind |-> "error", cond |-> c] : c \in m.errors} \subseteq
        {[kind |-> r.kind, cond |-> r.cond] : r \in ErrorResults(s)}
  <2> SUFFICES ASSUME NEW c \in m.errors
               PROVE  [kind |-> "error", cond |-> c] \in
                        {[kind |-> r.kind, cond |-> r.cond] : r \in ErrorResults(s)}
    OBVIOUS
  <2>1. PICK r \in ErrorResults(s) : r.kind = "error" /\ r.cond = c
    BY <1>5
  <2> QED
    BY <2>1
<1> QED
  BY <1>4, <1>6, <1>7

\* Steps that only the interpreter sees.
LEMMA QuietStep ==
    ASSUME IInv, NEW p \in queue, NEW s, GoOn(p, s),
           BodyOk(prog, s, mem[p]), Quiet(prog, Top(s)), PendingOf(st[p]) = Inputs,
           UNCHANGED <<mem, dropped>>, terminals' \subseteq terminals
    PROVE  IInv' /\ UNCHANGED PE!vars
<1>1. /\ p \in PathIds
      /\ mem[p] \in Memories
      /\ mem \in [PathIds -> Memories]
      /\ dropped \in Conditions
  BY PathFacts DEF IInv
<1>2. mem' = [mem EXCEPT ![p] = mem[p]]
  BY <1>1
<1>3. PathOk(prog, s, mem[p]) /\ PendingOf(s) = Inputs
  BY QuietGoesOn
<1>4. IInv' /\ PathResults' = PathResults
  BY <1>1, <1>2, <1>3, GoOnInv
<1>5. PathPending[p] = Inputs
  BY <1>1 DEF PathPending
<1>6. PathPending' = PathPending
  BY <1>1, <1>2, <1>3, <1>5, OnlyPath DEF GoOn
<1> QED
  BY <1>4, <1>6 DEF PE!vars, GoOn

LEMMA NoBranchPending ==
    ASSUME NEW s, IsWaiting(s) => Waiting(s).kind # "StartBranch"
    PROVE  PendingOf(s) = Inputs
BY DEF PendingOf

-----------------------------------------------------------------------------

(* The steps that PathExploration does not see *)

LEMMA StartsFacts ==
    ASSUME IInv, NEW p, NEW kinds, Starts(p, kinds)
    PROVE  /\ p \in queue
           /\ phase = "run"
           /\ prog \in DOMAIN Programs
           /\ BodyOk(prog, st[p], mem[p])
           /\ TopOk(prog, Top(st[p]), mem[p])
           /\ IsWaiting(st[p])
           /\ Waiting(st[p]).kind \in kinds
           /\ NodeOk(prog, Waiting(st[p]))
           /\ NodesOf(prog) = G
<1>1. p \in queue /\ IsWaiting(st[p])
  BY DEF Starts
<1>2. PathOk(prog, st[p], mem[p]) /\ BodyOk(prog, st[p], mem[p])
  BY <1>1, PathFacts
<1>3. FrameOk(prog, Top(st[p])) /\ Top(st[p]).rest # <<>>
  BY <1>1, <1>2, BodyIsTop DEF IsWaiting
<1>4. NodeOk(prog, Waiting(st[p]))
  BY <1>3, WaitingFacts DEF Waiting
<1> QED
  BY <1>1, <1>2, <1>4, PathFacts DEF PathOk, Starts

LEMMA EndsFacts ==
    ASSUME IInv, NEW p, NEW kinds, Ends(p, kinds)
    PROVE  /\ p \in queue
           /\ phase = "run"
           /\ prog \in DOMAIN Programs
           /\ BodyOk(prog, st[p], mem[p])
           /\ TopOk(prog, Top(st[p]), mem[p])
           /\ Top(st[p]).node.kind \in kinds
           /\ ~ IsCall(prog, Top(st[p]).node)
           /\ NodeOk(prog, Top(st[p]).node)
           /\ NodesOf(prog) = G
           /\ PendingOf(st[p]) = Inputs
<1>1. p \in queue /\ Top(st[p]).rest = <<>>
  BY DEF Ends, IsWaiting
<1>2. PathOk(prog, st[p], mem[p]) /\ BodyOk(prog, st[p], mem[p])
  BY <1>1, PathFacts
<1>3. FrameOk(prog, Top(st[p]))
  BY <1>2, BodyIsTop
<1>4. ~ IsCall(prog, Top(st[p]).node)
  BY <1>1, <1>2 DEF PathOk, TopOk
<1>5. NodeOk(prog, Top(st[p]).node)
  BY <1>3 DEF FrameOk
<1>6. PendingOf(st[p]) = Inputs
  BY <1>1 DEF PendingOf, IsWaiting
<1> QED
  BY <1>1, <1>2, <1>4, <1>5, <1>6, PathFacts DEF PathOk, Ends

\* A node has started, with children that are no transient nodes.
LEMMA QuietStart ==
    ASSUME IInv, NEW p, NEW kinds, Starts(p, kinds),
           Waiting(st[p]).kind \notin {"KeepResult", "Panic", "Prune", "StartBranch"},
           ~ IsCall(prog, Waiting(st[p])),
           NEW children, NEW args, FrameOk(prog, Frame(Waiting(st[p]), children, args)),
           children # <<>> => Head(children).kind \notin Transient,
           GoOn(p, Start(st[p], children, args)),
           UNCHANGED <<mem, terminals, dropped>>
    PROVE  IInv' /\ UNCHANGED PE!vars
<1> DEFINE t == Start(st[p], children, args)
<1>1. p \in queue /\ BodyOk(prog, st[p], mem[p]) /\ IsWaiting(st[p])
  BY StartsFacts
<1>2. BodyOk(prog, t, mem[p]) /\ Quiet(prog, Top(t))
  BY <1>1, StartQuiet
<1>3. PendingOf(st[p]) = Inputs
  BY NoBranchPending
<1>4. terminals' \subseteq terminals
  OBVIOUS
<1> HIDE DEF t
<1> QED
  BY <1>1, <1>2, <1>3, <1>4, QuietStep DEF t

\* The children of a block, in the order of its instructions.
LEMMA InstructionsFacts ==
    ASSUME prog \in DOMAIN Programs, NEW n \in DOMAIN G, G[n].kind = "Block",
           NEW instr, instr = [k \in DOMAIN G[n].instr |->
                                 LET m == G[n].instr[k] IN
                                 CASE G[m].kind = "Phi" -> ForcePhiNode(m)
                                   [] IsHeldByPhi(m)    -> LinkNode(m)
                                   [] OTHER             -> NodeWithId(m)]
    PROVE  /\ IsSeq(instr)
           /\ \A k \in 1 .. Len(instr) : NodeOk(prog, instr[k]) /\ instr[k].kind \notin Transient
<1> DEFINE q == G[n].instr
<1>1. IsSeq(q) /\ \A k \in 1 .. Len(q) : q[k] \in DOMAIN G
  BY ClassFacts
<1>2. Len(q) \in Nat /\ DOMAIN q = 1 .. Len(q)
  BY <1>1, IsSeqFacts
<1>3. IsSeq(instr) /\ Len(instr) = Len(q)
  <2>1. instr = [k \in 1 .. Len(q) |-> instr[k]]
    BY <1>2
  <2> QED
    BY <1>2, <2>1, FunctionIsSeq
<1>4. ASSUME NEW k \in 1 .. Len(q)
      PROVE  NodeOk(prog, instr[k]) /\ instr[k].kind \notin Transient
  <2> DEFINE m == q[k]
  <2>1. m \in DOMAIN G /\ NodesOf(prog) = G
    BY <1>1 DEF NodesOf, G
  <2>2. \/ G[m].kind = "Phi" /\ instr[k] = ForcePhiNode(m)
        \/ instr[k] = LinkNode(m)
        \/ instr[k] = NodeWithId(m)
    BY <1>2
  <2> HIDE DEF m
  <2>3. CASE G[m].kind = "Phi" /\ instr[k] = ForcePhiNode(m)
    BY <2>1, <2>3, BlockNodesFacts DEF Transient
  <2>4. CASE instr[k] = LinkNode(m)
    BY <2>1, <2>4, BlockNodesFacts DEF Transient
  <2>5. CASE instr[k] = NodeWithId(m)
    BY <2>1, <2>5, NodeWithIdFacts DEF OwnKinds
  <2> QED
    BY <2>2, <2>3, <2>4, <2>5
<1> QED
  BY <1>3, <1>4

LEMMA StartBlockStep == ASSUME IInv, NEW p, StartBlock(p) PROVE IInv' /\ UNCHANGED PE!vars
<1> DEFINE s == st[p]
           w == Waiting(s)
           n == w.id
           instr == [k \in DOMAIN G[n].instr |->
                       LET m == G[n].instr[k] IN
                       CASE G[m].kind = "Phi" -> ForcePhiNode(m)
                         [] IsHeldByPhi(m)    -> LinkNode(m)
                         [] OTHER             -> NodeWithId(m)]
           children == UsefulChildren(n, s, instr)
<1>1. /\ Starts(p, {"Block"})
      /\ GoOn(p, Start(s, children, <<>>))
      /\ UNCHANGED <<mem, terminals, dropped>>
  BY Zenon DEF StartBlock
<1>2. /\ prog \in DOMAIN Programs
      /\ w.kind = "Block"
      /\ NodeOk(prog, w)
      /\ NodesOf(prog) = G
  BY <1>1, StartsFacts
<1>3. n \in DOMAIN G /\ G[n].kind = "Block"
  BY <1>2 DEF NodeOk, ProgramKinds
<1>4. /\ IsSeq(instr)
      /\ \A k \in 1 .. Len(instr) : NodeOk(prog, instr[k]) /\ instr[k].kind \notin Transient
  BY <1>2, <1>3, InstructionsFacts
<1> HIDE DEF instr, w
<1>5. FrameOk(prog, Frame(w, instr, <<>>))
  BY <1>2, <1>4, NewFrame
<1>6. instr # <<>> => Head(instr).kind \notin Transient
  BY <1>4, IsSeqFacts, TailFacts
<1>7. /\ FrameOk(prog, Frame(w, children, <<>>))
      /\ children # <<>> => Head(children).kind \notin Transient
  BY <1>2, <1>5, <1>6, UsefulFrame
<1> HIDE DEF children
<1> QED
  BY <1>1, <1>2, <1>7, QuietStart DEF w, IsCall

LEMMA StartIfStep == ASSUME IInv, NEW p, StartIf(p) PROVE IInv' /\ UNCHANGED PE!vars
<1> DEFINE s == st[p]
           w == Waiting(s)
           child == BranchControlNode(G[w.id])
           args == OperandValues(s)
           children == UsefulChildren(w.id, s, <<child>>)
<1>1. /\ Starts(p, {"If"})
      /\ GoOn(p, Start(s, children, args))
      /\ UNCHANGED <<mem, terminals, dropped>>
  BY Zenon DEF StartIf
<1>2. /\ prog \in DOMAIN Programs
      /\ w.kind = "If"
      /\ NodeOk(prog, w)
      /\ NodesOf(prog) = G
  BY <1>1, StartsFacts
<1>3. w.id \in DOMAIN G /\ G[w.id].kind = "If"
  BY <1>2 DEF NodeOk, ProgramKinds
<1>4. /\ G[w.id].body \in DOMAIN G /\ G[G[w.id].body].kind = "Block"
      /\ G[w.id].elseBody \in DOMAIN G /\ G[G[w.id].elseBody].kind = "Block"
  BY <1>2, <1>3, ClassFacts
<1>5. NodeOk(prog, child) /\ child.kind = "BranchControl"
  BY <1>2, <1>4, BranchNodesFacts
<1> HIDE DEF child, w, args
<1>6. FrameOk(prog, Frame(w, <<child>>, args)) /\ Head(<<child>>) = child
  BY <1>2, <1>5, OneFrame
<1>7. /\ FrameOk(prog, Frame(w, children, args))
      /\ children # <<>> => Head(children).kind \notin Transient
  BY <1>2, <1>5, <1>6, UsefulFrame DEF Transient
<1> HIDE DEF children
<1> QED
  BY <1>1, <1>2, <1>7, QuietStart DEF w, IsCall

LEMMA StartJumpStep == ASSUME IInv, NEW p, StartJump(p) PROVE IInv' /\ UNCHANGED PE!vars
<1> DEFINE s == st[p]
           w == Waiting(s)
           child == NodeWithId(G[w.id].successor)
           children == UsefulChildren(w.id, s, <<child>>)
<1>1. /\ Starts(p, {"Jump"})
      /\ GoOn(p, Start(s, children, <<>>))
      /\ UNCHANGED <<mem, terminals, dropped>>
  BY Zenon DEF StartJump
<1>2. /\ prog \in DOMAIN Programs
      /\ w.kind = "Jump"
      /\ NodeOk(prog, w)
      /\ NodesOf(prog) = G
  BY <1>1, StartsFacts
<1>3. w.id \in DOMAIN G /\ G[w.id].kind = "Jump"
  BY <1>2 DEF NodeOk, ProgramKinds
<1>4. G[w.id].successor \in DOMAIN G
  BY <1>2, <1>3, ClassFacts
<1>5. NodeOk(prog, child) /\ child.kind \notin Transient
  BY <1>2, <1>4, NodeWithIdFacts DEF OwnKinds
<1> HIDE DEF child, w
<1>6. FrameOk(prog, Frame(w, <<child>>, <<>>)) /\ Head(<<child>>) = child
  BY <1>2, <1>5, OneFrame
<1>7. /\ FrameOk(prog, Frame(w, children, <<>>))
      /\ children # <<>> => Head(children).kind \notin Transient
  BY <1>2, <1>5, <1>6, UsefulFrame
<1> HIDE DEF children
<1> QED
  BY <1>1, <1>2, <1>7, QuietStart DEF w, IsCall

LEMMA StartReturnStep == ASSUME IInv, NEW p, StartReturn(p) PROVE IInv' /\ UNCHANGED PE!vars
<1> DEFINE s == st[p]
           w == Waiting(s)
           args == OperandValues(s)
           children == UsefulChildren(w.id, s, <<>>)
<1>1. /\ Starts(p, {"Return"})
      /\ GoOn(p, Start(s, children, args))
      /\ UNCHANGED <<mem, terminals, dropped>>
  BY Zenon DEF StartReturn
<1>2. w.kind = "Return" /\ NodeOk(prog, w)
  BY <1>1, StartsFacts
<1> HIDE DEF w, args
<1>3. FrameOk(prog, Frame(w, <<>>, args))
  BY <1>2, EmptyFrame
<1>4. /\ FrameOk(prog, Frame(w, children, args))
      /\ children # <<>> => Head(children).kind \notin Transient
  BY <1>2, <1>3, UsefulFrame
<1> HIDE DEF children
<1> QED
  BY <1>1, <1>2, <1>4, QuietStart DEF w, IsCall

LEMMA StartCallStep == ASSUME IInv, NEW p, StartCall(p) PROVE IInv' /\ UNCHANGED PE!vars
<1> DEFINE s == st[p]
           w == Waiting(s)
           child == StartFunctionNode(w.func)
           args == OperandValues(s)
<1>1. /\ Starts(p, {"Call"})
      /\ GoOn(p, Start(s, <<child>>, args))
      /\ UNCHANGED <<mem, terminals, dropped>>
  BY Zenon DEF StartCall
<1>2. w.kind = "Call" /\ NodeOk(prog, w)
  BY <1>1, StartsFacts
<1>3. NodeOk(prog, child) /\ child.kind = "StartFunction"
  BY <1>2, StartFunctionNodeFacts DEF NodeOk
<1> HIDE DEF child, w, args
<1>4. FrameOk(prog, Frame(w, <<child>>, args)) /\ Head(<<child>>) = child
  BY <1>2, <1>3, OneFrame
<1>5. <<child>> # <<>> => Head(<<child>>).kind \notin Transient
  BY <1>3, <1>4 DEF Transient
<1> QED
  BY <1>1, <1>2, <1>4, <1>5, QuietStart DEF w, IsCall

LEMMA StartForcePhiStep ==
    ASSUME IInv, NEW p, StartForcePhi(p) PROVE IInv' /\ UNCHANGED PE!vars
<1> DEFINE s == st[p]
           w == Waiting(s)
           n == w.phi
           args == OperandValues(s)
           children == IF IsNested(s, n) THEN <<NodeWithId(PhiEdge(s, n))>> ELSE <<>>
<1>1. /\ Starts(p, {"ForcePhi"})
      /\ GoOn(p, Start(s, children, args))
      /\ UNCHANGED <<mem, terminals, dropped>>
  BY Zenon DEF StartForcePhi
<1>2. /\ prog \in DOMAIN Programs
      /\ w.kind = "ForcePhi"
      /\ NodeOk(prog, w)
      /\ NodesOf(prog) = G
  BY <1>1, StartsFacts
<1>3. n \in DOMAIN G /\ G[n].kind = "Phi"
  BY <1>2 DEF NodeOk
<1> HIDE DEF w, args, n
<1>4. /\ FrameOk(prog, Frame(w, children, args))
      /\ children # <<>> => Head(children).kind \notin Transient
  <2>1. CASE IsNested(s, n)
    <3> DEFINE child == NodeWithId(PhiEdge(s, n))
    <3>1. Head(PhiBlocks(s, n)) \in G[n].nested
      BY <2>1 DEF IsNested
    <3>2. PhiEdge(s, n) \in DOMAIN G
      BY <1>2, <1>3, <3>1, ClassFacts DEF PhiEdge
    <3>3. NodeOk(prog, child) /\ child.kind \notin Transient
      BY <1>2, <3>2, NodeWithIdFacts DEF OwnKinds
    <3>4. FrameOk(prog, Frame(w, <<child>>, args)) /\ Head(<<child>>) = child
      <4> HIDE DEF child
      <4> QED
        BY <1>2, <3>3, OneFrame
    <3>5. children = <<child>>
      BY <2>1
    <3> QED
      BY <3>3, <3>4, <3>5
  <2>2. CASE ~ IsNested(s, n)
    <3>1. children = <<>>
      BY <2>2
    <3> QED
      BY <1>2, <3>1, EmptyFrame
  <2> QED
    BY <2>1, <2>2
<1> HIDE DEF children
<1> QED
  BY <1>1, <1>2, <1>4, QuietStart DEF w, IsCall

LEMMA StartFunctionStep ==
    ASSUME IInv, NEW p, StartFunction(p) PROVE IInv' /\ UNCHANGED PE!vars
<1> DEFINE s == st[p]
           w == Waiting(s)
           child == NodeWithId(G[w.func].body)
           params == [n \in Range(G[w.func].params) |->
                        Top(s).args[CHOOSE k \in DOMAIN G[w.func].params :
                                      G[w.func].params[k] = n]]
           t == Entered(s, <<child>>, <<>>, params)
<1>1. /\ Starts(p, {"StartFunction"})
      /\ HasBody(w.func)
      /\ GoOn(p, t)
      /\ UNCHANGED <<mem, terminals, dropped>>
  BY DEF StartFunction, Entered
<1>2. /\ p \in queue
      /\ prog \in DOMAIN Programs
      /\ BodyOk(prog, s, mem[p])
      /\ IsWaiting(s)
      /\ w.kind = "StartFunction"
      /\ NodeOk(prog, w)
      /\ NodesOf(prog) = G
  BY <1>1, StartsFacts
<1>3. w.func \in DOMAIN G /\ G[w.func].kind = "Func"
  BY <1>2 DEF NodeOk
<1>4. /\ IsCall(prog, w)
      /\ G[w.func].body \in DOMAIN G
      /\ G[G[w.func].body].kind = "Block"
  BY <1>1, <1>2, <1>3, ClassFacts DEF HasBody, IsCall, BodyOf
<1>5. NodeOk(prog, child) /\ child.kind = "Block"
  BY <1>2, <1>4, NodeWithIdFacts
<1> HIDE DEF child, w, params
<1>6. FrameOk(prog, Frame(w, <<child>>, <<>>)) /\ Head(<<child>>) = child /\ <<child>> # <<>>
  BY <1>2, <1>4, <1>5, OneFrame
<1>7. BodyOk(prog, t, mem[p]) /\ Top(t) = Frame(w, <<child>>, <<>>)
  BY <1>2, <1>4, <1>6, EnterBody DEF w
<1> HIDE DEF t
<1>8. Quiet(prog, Top(t))
  BY <1>2, <1>5, <1>6, <1>7, FrameFacts DEF Quiet, Transient
<1>9. PendingOf(s) = Inputs
  BY <1>2, NoBranchPending DEF w
<1>10. terminals' \subseteq terminals /\ UNCHANGED <<mem, dropped>>
  BY <1>1
<1> QED
  BY <1>1, <1>2, <1>7, <1>8, <1>9, <1>10, QuietStep

\* A value is delivered to a top frame that goes on.
LEMMA DeliverQuiet ==
    ASSUME NEW P, NEW m, NEW s, BodyOk(P, s, m), Quiet(P, Top(s)), NEW v
    PROVE  BodyOk(P, Deliver(s, v), m) /\ Quiet(P, Top(Deliver(s, v)))
<1>1. /\ BodyOk(P, Deliver(s, v), m)
      /\ Top(Deliver(s, v)).node = Top(s).node
      /\ Top(Deliver(s, v)).rest = Top(s).rest
  BY DeliverBody
<1> QED
  BY <1>1, QuietSame

LEMMA EndCallStep == ASSUME IInv, NEW p, EndCall(p) PROVE IInv' /\ UNCHANGED PE!vars
<1> DEFINE s == st[p]
           value == Last(Top(s).args)
           t == IF value = NoValue THEN s
                ELSE WriteValue(s, mem[p], Top(s).node.id, value)
           u == Deliver(Pop(t), value)
<1>1. /\ Ends(p, {"Call"})
      /\ GoOn(p, u)
      /\ UNCHANGED <<mem, terminals, dropped>>
  BY Zenon DEF EndCall
<1>2. /\ p \in queue
      /\ BodyOk(prog, s, mem[p])
      /\ Top(s).node.kind = "Call"
      /\ ~ IsCall(prog, Top(s).node)
      /\ PendingOf(s) = Inputs
  BY <1>1, EndsFacts
<1>3. BodyOk(prog, t, mem[p]) /\ Top(t) = Top(s)
  BY <1>2, WriteBody
<1> HIDE DEF t, value
<1>4. BodyOk(prog, Pop(t), mem[p]) /\ Quiet(prog, Top(Pop(t)))
  BY <1>2, <1>3, PopBody
<1>5. BodyOk(prog, u, mem[p]) /\ Quiet(prog, Top(u))
  BY <1>4, DeliverQuiet
<1> HIDE DEF u
<1> QED
  BY <1>1, <1>2, <1>5, QuietStep

LEMMA EndForcePhiStep == ASSUME IInv, NEW p, EndForcePhi(p) PROVE IInv' /\ UNCHANGED PE!vars
<1> DEFINE s == st[p]
           v == Last(Top(s).args)
           t == IF v = NoValue THEN s ELSE WriteValue(s, mem[p], Top(s).node.phi, v)
           u == Deliver(Pop(t), v)
<1>1. /\ Ends(p, {"ForcePhi"})
      /\ GoOn(p, u)
      /\ UNCHANGED <<mem, terminals, dropped>>
  BY Zenon DEF EndForcePhi
<1>2. /\ p \in queue
      /\ BodyOk(prog, s, mem[p])
      /\ Top(s).node.kind = "ForcePhi"
      /\ ~ IsCall(prog, Top(s).node)
      /\ PendingOf(s) = Inputs
  BY <1>1, EndsFacts
<1>3. BodyOk(prog, t, mem[p]) /\ Top(t) = Top(s)
  BY <1>2, WriteBody
<1> HIDE DEF t, v
<1>4. BodyOk(prog, Pop(t), mem[p]) /\ Quiet(prog, Top(Pop(t)))
  BY <1>2, <1>3, PopBody
<1>5. BodyOk(prog, u, mem[p]) /\ Quiet(prog, Top(u))
  BY <1>4, DeliverQuiet
<1> HIDE DEF u
<1> QED
  BY <1>1, <1>2, <1>5, QuietStep

LEMMA EndAssumeStep == ASSUME IInv, NEW p, EndAssume(p) PROVE IInv' /\ UNCHANGED PE!vars
<1> DEFINE s == st[p]
           u == Deliver(Pop(s), Top(s).args[1])
<1>1. /\ Ends(p, {"StartFunction"})
      /\ GoOn(p, u)
      /\ UNCHANGED <<mem, terminals, dropped>>
  BY Zenon DEF EndAssume
<1>2. /\ p \in queue
      /\ BodyOk(prog, s, mem[p])
      /\ Top(s).node.kind = "StartFunction"
      /\ ~ IsCall(prog, Top(s).node)
      /\ PendingOf(s) = Inputs
  BY <1>1, EndsFacts
<1>3. BodyOk(prog, Pop(s), mem[p]) /\ Quiet(prog, Top(Pop(s)))
  BY <1>2, PopBody
<1>4. BodyOk(prog, u, mem[p]) /\ Quiet(prog, Top(u))
  BY <1>3, DeliverQuiet
<1> HIDE DEF u
<1> QED
  BY <1>1, <1>2, <1>4, QuietStep

\* A node is put in the place of the link that waits.
LinkedTop(s, w) == Frame(Top(s).node, Cons(w, Tail(Top(s).rest)), Top(s).args)
Linked(s, w) == [s EXCEPT !.stack[Len(s.stack)].rest = <<w>> \o Tail(@)]

LEMMA ConsFacts ==
    ASSUME NEW e, NEW q, IsSeq(q)
    PROVE  /\ IsSeq(Cons(e, q))
           /\ Cons(e, q) # <<>>
           /\ Len(Cons(e, q)) = Len(q) + 1
           /\ Head(Cons(e, q)) = e
           /\ Cons(e, q)[1] = e
           /\ \A k \in 1 .. Len(q) : Cons(e, q)[k + 1] = q[k]
<1> DEFINE T == Range(q) \cup {e}
<1>1. q \in Seq(T) /\ <<e>> \in Seq(T)
  BY SeqMonotonic DEF IsSeq
<1> HIDE DEF T
<1>2. /\ <<e>> \o q \in Seq(T)
      /\ Len(<<e>> \o q) = Len(q) + 1
      /\ (<<e>> \o q)[1] = e
      /\ \A k \in 1 .. Len(q) : (<<e>> \o q)[k + 1] = q[k]
  BY <1>1
<1>3. <<e>> \o q # <<>> /\ Head(<<e>> \o q) = e
  BY <1>1, <1>2, EmptySeq
<1>4. IsSeq(<<e>> \o q)
  BY <1>2, SeqIsSeq, Zenon
<1> QED
  BY <1>2, <1>3, <1>4 DEF Cons

LEMMA LinkedBody ==
    ASSUME NEW P, NEW m, NEW s, BodyOk(P, s, m), IsWaiting(s), Waiting(s).kind = "Link",
           NEW w, NodeOk(P, w), w.kind \notin Transient
    PROVE  BodyOk(P, Linked(s, w), m) /\ Quiet(P, Top(Linked(s, w)))
<1> DEFINE f == LinkedTop(s, w)
           r == Tail(Top(s).rest)
           t == Linked(s, w)
<1>1. /\ IsTop(s) /\ IsState(s)
      /\ FrameOk(P, Top(s))
      /\ Top(s) = s.stack[Len(s.stack)]
      /\ Top(s).rest # <<>>
      /\ StackOk(P, s.stack)
  BY BodyIsTop DEF IsWaiting
<1>2. /\ Top(s).node.kind \notin {"Panic", "Prune", "StartFunction", "Root"}
      /\ \A j \in 1 .. Len(r) : r[j].kind \notin Transient
  BY <1>1, WaitingFacts DEF Waiting
<1>3. /\ FrameOk(P, TakenTop(s))
      /\ TakenTop(s).rest = r
      /\ NodeOk(P, Top(s).node)
  <2>1. FrameOk(P, TakenTop(s)) /\ TakenTop(s).rest = r
    BY <1>1, WaitingFacts, FrameFacts DEF TakenTop
  <2>2. NodeOk(P, Top(s).node)
    BY <1>1 DEF FrameOk
  <2> QED
    BY <2>1, <2>2
<1>4. IsSeq(r) /\ Len(r) \in Nat /\ \A j \in 1 .. Len(r) : NodeOk(P, r[j])
  BY <1>3, IsSeqFacts DEF FrameOk
<1> HIDE DEF r
<1> DEFINE q == Cons(w, r)
<1>5. /\ IsSeq(q)
      /\ q # <<>>
      /\ Len(q) = Len(r) + 1
      /\ Head(q) = w
      /\ q[1] = w
      /\ \A k \in 1 .. Len(r) : q[k + 1] = r[k]
  BY <1>4, ConsFacts
<1>6. f.node = Top(s).node /\ f.rest = q
  BY FrameFacts DEF LinkedTop, r
<1> HIDE DEF q
<1>7. \A j \in 1 .. Len(q) : NodeOk(P, q[j]) /\ q[j].kind \notin Transient
  <2> SUFFICES ASSUME NEW j \in 1 .. Len(q)
               PROVE  NodeOk(P, q[j]) /\ q[j].kind \notin Transient
    OBVIOUS
  <2>1. CASE j = 1
    BY <1>5, <2>1
  <2>2. CASE j # 1
    <3>1. j - 1 \in 1 .. Len(r) /\ q[j - 1 + 1] = r[j - 1] /\ j - 1 + 1 = j
      BY <1>4, <1>5, <2>2
    <3> QED
      BY <1>2, <1>4, <3>1
  <2> QED
    BY <2>1, <2>2
<1>8. FrameOk(P, f)
  <2>1. FrameOk(P, Frame(Top(s).node, q, Top(s).args))
    BY <1>2, <1>3, <1>5, <1>7, NewFrame
  <2> QED
    BY <2>1 DEF LinkedTop, q, r
<1>9. t = StateOf(SetTop(s, f), s.levels, s.locals, s.visited, s.found)
  <2>1. DOMAIN s = {"stack", "levels", "locals", "visited", "found"}
    BY <1>1 DEF IsState, StateOf
  <2>2. [Top(s) EXCEPT !.rest = Cons(w, r)] = f
    BY <1>1, SetRest, Zenon DEF IsTop, LinkedTop, r
  <2>3. t = [s EXCEPT !.stack = [s.stack EXCEPT ![Len(s.stack)] =
                                   [Top(s) EXCEPT !.rest = Cons(w, r)]]]
    BY <1>1, <2>1, TopIsLast DEF Linked, Cons, r
  <2>4. t = [s EXCEPT !.stack = SetTop(s, f)]
    BY <2>2, <2>3 DEF SetTop, SetAt
  <2> QED
    BY <1>1, <2>4, SetFields, Zenon
<1> HIDE DEF f
<1>10. /\ IsState(t)
       /\ t.stack = SetTop(s, f)
       /\ t.levels = s.levels
       /\ t.locals = s.locals
       /\ t.visited = s.visited
       /\ t.found = s.found
  BY <1>9, StateFacts
<1>11. /\ StackOk(P, t.stack)
       /\ CallsOn(P, t.stack) = CallsOn(P, s.stack)
       /\ t.stack[Len(t.stack)] = f
  BY <1>1, <1>6, <1>8, <1>10, SetTopOk DEF SetTop
<1>12. Top(t) = f
  BY <1>11 DEF Top, Last
<1> HIDE DEF t
<1>13. BodyOk(P, t, m)
  BY <1>10, <1>11 DEF BodyOk, CountsOk
<1>14. Quiet(P, f)
  BY <1>2, <1>5, <1>6 DEF Quiet, IsCall
<1> QED
  BY <1>12, <1>13, <1>14 DEF t

LEMMA StartLinkStep == ASSUME IInv, NEW p, StartLink(p) PROVE IInv' /\ UNCHANGED PE!vars
<1> DEFINE s == st[p]
           n == Waiting(s).to
           u == IF n \in DOMAIN Locals(s) THEN Deliver(Take(s), Read(s, n))
                ELSE Linked(s, NodeWithId(n))
<1>1. /\ Starts(p, {"Link"})
      /\ GoOn(p, u)
      /\ UNCHANGED <<mem, terminals, dropped>>
  BY DEF StartLink, Linked
<1>2. /\ p \in queue
      /\ prog \in DOMAIN Programs
      /\ BodyOk(prog, s, mem[p])
      /\ IsWaiting(s)
      /\ Waiting(s).kind = "Link"
      /\ NodeOk(prog, Waiting(s))
      /\ NodesOf(prog) = G
  BY <1>1, StartsFacts
<1>3. n \in DOMAIN G
  BY <1>2 DEF NodeOk
<1>4. PendingOf(s) = Inputs
  BY <1>2, NoBranchPending
<1> HIDE DEF n
<1>5. BodyOk(prog, u, mem[p]) /\ Quiet(prog, Top(u))
  <2>1. CASE n \in DOMAIN Locals(s)
    <3>1. BodyOk(prog, Take(s), mem[p]) /\ Quiet(prog, Top(Take(s)))
      BY <1>2, TakeBody, TakenIsQuiet
    <3> QED
      BY <2>1, <3>1, DeliverQuiet
  <2>2. CASE n \notin DOMAIN Locals(s)
    <3>1. NodeOk(prog, NodeWithId(n)) /\ NodeWithId(n).kind \notin Transient
      BY <1>2, <1>3, NodeWithIdFacts DEF OwnKinds
    <3> QED
      BY <1>2, <2>2, <3>1, LinkedBody
  <2> QED
    BY <2>1, <2>2
<1> HIDE DEF u
<1> QED
  BY <1>1, <1>2, <1>4, <1>5, QuietStep

-----------------------------------------------------------------------------

(* The steps that end a path *)

LEMMA LeavePath ==
    ASSUME IInv, phase = "run", NEW p \in queue, PendingOf(st[p]) = Inputs,
           NEW s, st' = [st EXCEPT ![p] = s], PendingOf(s) = Inputs,
           NEW ret, \A r \in ret : ResultOk(r),
           queue' = queue \ {p},
           results' = results \cup ErrorResults(st[p]) \cup ret,
           UNCHANGED <<prog, created, mem, dropped, phase>>, terminals' \subseteq terminals
    PROVE  /\ IInv'
           /\ PE!Running(p) /\ PathPending[p] = Inputs
           /\ UNCHANGED PathPending
           /\ PE!End(p, {[kind |-> r.kind, cond |-> r.cond] : r \in ret})
<1> DEFINE errors == ErrorResults(st[p])
           R == errors \cup ret
<1>1. /\ p \in PathIds
      /\ mem[p] \in Memories
      /\ mem \in [PathIds -> Memories]
      /\ BodyOk(prog, st[p], mem[p])
  BY PathFacts DEF IInv
<1>2. mem' = [mem EXCEPT ![p] = mem[p]]
  BY <1>1
<1>3. /\ \A r \in errors : ResultOk(r)
      /\ {[kind |-> r.kind, cond |-> r.cond] : r \in errors} =
           {[kind |-> "error", cond |-> c] : c \in mem[p].errors}
  BY <1>1, ErrorResultsFacts DEF BodyOk
<1> HIDE DEF errors
<1>4. results' = results \cup R /\ \A r \in R : ResultOk(r)
  BY <1>3 DEF errors
<1>5. {[kind |-> r.kind, cond |-> r.cond] : r \in R} =
        PE!ErrorsOf(mem[p]) \cup {[kind |-> r.kind, cond |-> r.cond] : r \in ret}
  BY <1>3 DEF PE!ErrorsOf, PE!ResultOf
<1> HIDE DEF R
<1>6. /\ IInv'
      /\ PathResults' = PathResults \cup {[kind |-> r.kind, cond |-> r.cond] : r \in R}
  BY <1>1, <1>2, <1>4, LeaveInv
<1>7. PathPending[p] = Inputs
  BY <1>1 DEF PathPending
<1>8. UNCHANGED PathPending
  BY <1>1, <1>2, <1>7, OnlyPath
<1> QED
  BY <1>5, <1>6, <1>7, <1>8 DEF PE!Running, PE!End

\* A path without inputs leaves.
LEMMA StopPath ==
    ASSUME IInv, phase = "run", NEW p \in queue, PendingOf(st[p]) = Inputs,
           mem[p].asserted = {}, Abandon(p, st[p]),
           UNCHANGED <<mem, dropped>>, terminals' \subseteq terminals
    PROVE  IInv' /\ PE!Stop(p)
<1>1. /\ st' = [st EXCEPT ![p] = st[p]]
      /\ queue' = queue \ {p}
      /\ results' = results \cup ErrorResults(st[p]) \cup {}
      /\ UNCHANGED <<prog, created, phase>>
  BY DEF Abandon
<1>2. \A r \in {} : ResultOk(r)
  OBVIOUS
<1>3. /\ IInv'
      /\ PE!Running(p) /\ PathPending[p] = Inputs
      /\ UNCHANGED PathPending
      /\ PE!End(p, {[kind |-> r.kind, cond |-> r.cond] : r \in {}})
  BY <1>1, <1>2, LeavePath
<1>4. {[kind |-> r.kind, cond |-> r.cond] : r \in {}} = {}
  OBVIOUS
<1> QED
  BY <1>1, <1>3, <1>4 DEF PE!Stop

LEMMA StopStep == ASSUME IInv, NEW p, Stop(p) PROVE IInv' /\ PE!Stop(p)
<1>1. /\ Starts(p, {"Stop"})
      /\ Abandon(p, st[p])
      /\ UNCHANGED <<mem, terminals, dropped>>
  BY Zenon DEF Stop
<1>2. /\ p \in queue
      /\ phase = "run"
      /\ IsWaiting(st[p])
      /\ Waiting(st[p]).kind = "Stop"
      /\ TopOk(prog, Top(st[p]), mem[p])
  BY <1>1, StartsFacts
<1>3. mem[p].asserted = {}
  BY <1>2 DEF TopOk, IsWaiting, Waiting
<1>4. PendingOf(st[p]) = Inputs
  BY <1>2, NoBranchPending
<1> QED
  BY <1>1, <1>2, <1>3, <1>4, StopPath

LEMMA EndPanicStep == ASSUME IInv, NEW p, EndPanic(p) PROVE IInv' /\ PE!Stop(p)
<1>1. /\ Ends(p, {"Panic", "Prune"})
      /\ terminals' = WithoutTerminal(Top(st[p]).node.id)
      /\ Abandon(p, st[p])
      /\ UNCHANGED <<mem, dropped>>
  BY Zenon DEF EndPanic
<1>2. /\ p \in queue
      /\ phase = "run"
      /\ TopOk(prog, Top(st[p]), mem[p])
      /\ Top(st[p]).node.kind \in {"Panic", "Prune"}
      /\ PendingOf(st[p]) = Inputs
  BY <1>1, EndsFacts
<1>3. mem[p].asserted = {}
  BY <1>2 DEF TopOk
<1>4. terminals' \subseteq terminals
  BY <1>1 DEF WithoutTerminal
<1> QED
  BY <1>1, <1>2, <1>3, <1>4, StopPath

LEMMA KeepResultStep ==
    ASSUME IInv, NEW p, KeepResult(p)
    PROVE  IInv' /\ (PE!Stop(p) \/ UNCHANGED PE!vars)
<1> DEFINE s == st[p]
           u == Deliver(Take(s), NoValue)
<1>1. /\ Starts(p, {"KeepResult"})
      /\ IF Waiting(s).stop THEN Abandon(p, s) ELSE GoOn(p, u)
      /\ UNCHANGED <<mem, terminals, dropped>>
  BY Zenon DEF KeepResult
<1>2. /\ p \in queue
      /\ phase = "run"
      /\ BodyOk(prog, s, mem[p])
      /\ IsWaiting(s)
      /\ Waiting(s).kind = "KeepResult"
      /\ TopOk(prog, Top(s), mem[p])
  BY <1>1, StartsFacts
<1>3. PendingOf(s) = Inputs
  BY <1>2, NoBranchPending
<1>4. CASE Waiting(s).stop
  <2>1. mem[p].asserted = {}
    BY <1>2, <1>4 DEF TopOk, IsWaiting, Waiting
  <2> QED
    BY <1>1, <1>2, <1>3, <1>4, <2>1, StopPath
<1>5. CASE ~ Waiting(s).stop
  <2>1. BodyOk(prog, Take(s), mem[p]) /\ Quiet(prog, Top(Take(s)))
    BY <1>2, TakeBody, TakenIsQuiet
  <2>2. BodyOk(prog, u, mem[p]) /\ Quiet(prog, Top(u))
    BY <2>1, DeliverQuiet
  <2>3. GoOn(p, u) /\ UNCHANGED <<mem, terminals, dropped>>
    BY <1>1, <1>5
  <2> HIDE DEF u
  <2> QED
    BY <1>2, <1>3, <2>2, <2>3, QuietStep
<1> QED
  BY <1>4, <1>5

\* A return of a callee gives its value to the caller; the return of the
\* function under test ends the path.
LEMMA EndReturnStep ==
    ASSUME IInv, NEW p, EndReturn(p)
    PROVE  IInv' /\ (PE!Return(p) \/ UNCHANGED PE!vars)
<1> DEFINE s == st[p]
           t == ExitFunction(s)
           value == IF Top(s).args = <<>> THEN NoValue ELSE Top(s).args[1]
           ret == [kind |-> "return", cond |-> FullPathCond(mem[p]),
                   what |-> "return", visited |-> s.visited, val |-> value]
<1>1. /\ Ends(p, {"Return"})
      /\ terminals' = WithoutTerminal(Top(s).node.id)
      /\ IF Len(t.stack) = 1
         THEN /\ st' = [st EXCEPT ![p] = t]
              /\ queue' = queue \ {p}
              /\ results' = results \cup ErrorResults(s) \cup {ret}
              /\ UNCHANGED <<prog, created, phase>>
         ELSE GoOn(p, Deliver(t, value))
      /\ UNCHANGED <<mem, dropped>>
  BY Zenon DEF EndReturn
<1>2. /\ p \in queue
      /\ phase = "run"
      /\ BodyOk(prog, s, mem[p])
      /\ Top(s).node.kind = "Return"
      /\ PendingOf(s) = Inputs
      /\ mem[p] \in Memories
  BY <1>1, EndsFacts, PathFacts
<1>3. terminals' \subseteq terminals
  BY <1>1 DEF WithoutTerminal
<1>4. /\ BodyOk(prog, t, mem[p])
      /\ Quiet(prog, Top(t))
  BY <1>2, ExitBody
<1>5. /\ ret.kind = "return" /\ ret.cond = FullPathCond(mem[p])
      /\ ret.what = "return"
  OBVIOUS
<1> HIDE DEF t, value, ret
<1>6. CASE Len(t.stack) = 1
  <2>1. /\ st' = [st EXCEPT ![p] = t]
        /\ queue' = queue \ {p}
        /\ results' = results \cup ErrorResults(s) \cup {ret}
        /\ UNCHANGED <<prog, created, mem, dropped, phase>>
    BY <1>1, <1>6
  <2>2. \A r \in {ret} : ResultOk(r)
    BY <1>2, <1>5 DEF ResultOk, Kinds, Causes, FullPathCond, Memories, Conditions
  <2>3. PendingOf(t) = Inputs
    BY <1>4, QuietGoesOn
  <2>4. /\ IInv'
        /\ PE!Running(p) /\ PathPending[p] = Inputs
        /\ UNCHANGED PathPending
        /\ PE!End(p, {[kind |-> r.kind, cond |-> r.cond] : r \in {ret}})
    BY <1>2, <1>3, <2>1, <2>2, <2>3, LeavePath
  <2>5. {[kind |-> r.kind, cond |-> r.cond] : r \in {ret}} =
          {PE!ResultOf("return", PE!FullPathCond(mem[p]))}
    BY <1>5 DEF PE!ResultOf, PE!FullPathCond, FullPathCond
  <2> QED
    BY <2>1, <2>4, <2>5 DEF PE!Return
<1>7. CASE Len(t.stack) # 1
  <2> DEFINE u == Deliver(t, value)
  <2>1. GoOn(p, u) /\ UNCHANGED <<mem, dropped>>
    BY <1>1, <1>7
  <2>2. BodyOk(prog, u, mem[p]) /\ Quiet(prog, Top(u))
    BY <1>4, DeliverQuiet
  <2> HIDE DEF u
  <2> QED
    BY <1>2, <1>3, <2>1, <2>2, QuietStep
<1> QED
  BY <1>6, <1>7

-----------------------------------------------------------------------------

(* The steps that check an error *)

LEMMA FewErrors ==
    ASSUME NEW m \in Memories
    PROVE  Cardinality(m.errors) < 1 + Cardinality(Conditions)
<1>1. m.errors \in SUBSET Conditions
  BY DEF Memories
<1>2. IsFiniteSet(Conditions)
  BY InputsAreFinite, FS_SUBSET DEF Conditions
<1>3. /\ IsFiniteSet(m.errors)
      /\ Cardinality(m.errors) <= Cardinality(Conditions)
  BY <1>1, <1>2, FS_Subset
<1>4. Cardinality(m.errors) \in Nat /\ Cardinality(Conditions) \in Nat
  BY <1>2, <1>3, FS_CardinalityType
<1> QED
  BY <1>3, <1>4

LEMMA SameCardinality == \A S : PE!Cardinality(S) = Cardinality(S)
BY DEF PE!Cardinality, Cardinality

WithFound(s, found) == [s EXCEPT !.found = found]

\* The memory and the state of a path have the same errors.
LEMMA FoundBody ==
    ASSUME NEW P, NEW m \in Memories, NEW s, BodyOk(P, s, m),
           NEW t, BodyOk(P, t, m), NEW c, NEW sat,
           NEW e, e.cond = c \cap FullPathCond(m), e.what \in Causes
    PROVE  LET u == WithFound(t, Found(s, sat, e)) IN
           /\ BodyOk(P, u, AddError(m, c, sat))
           /\ Top(u) = Top(t)
<1> DEFINE F == Found(s, sat, e)
           u == WithFound(t, F)
           n == AddError(m, c, sat)
<1>1. n.errors = IF sat = "UNSAT" THEN m.errors
                 ELSE m.errors \cup {c \cap FullPathCond(m)}
  BY DEF AddError, Memories
<1>2. /\ {x.cond : x \in s.found} = m.errors
      /\ \A x \in s.found : x.what \in Causes
  BY DEF BodyOk
<1>3. {x.cond : x \in F} = n.errors /\ \A x \in F : x.what \in Causes
  <2>1. CASE sat = "UNSAT"
    BY <1>1, <1>2, <2>1 DEF Found
  <2>2. CASE sat # "UNSAT"
    <3>1. F = s.found \cup {e} /\ n.errors = m.errors \cup {e.cond}
      BY <1>1, <2>2 DEF Found
    <3>2. {x.cond : x \in F} = {x.cond : x \in s.found} \cup {e.cond}
      BY <3>1
    <3> QED
      BY <1>2, <3>1, <3>2
  <2> QED
    BY <2>1, <2>2
<1> HIDE DEF F, n
<1>4. IsState(t)
  BY BodyIsTop
<1>5. u = StateOf(t.stack, t.levels, t.locals, t.visited, F)
  BY <1>4, SetFields, Zenon DEF WithFound
<1> HIDE DEF u
<1>6. /\ IsState(u)
      /\ u.stack = t.stack
      /\ u.levels = t.levels
      /\ u.locals = t.locals
      /\ u.visited = t.visited
      /\ u.found = F
  BY <1>5, StateFacts
<1>7. Top(u) = Top(t)
  BY <1>6 DEF Top
<1>8. BodyOk(P, u, n)
  BY <1>3, <1>6 DEF BodyOk, CountsOk
<1> QED
  BY <1>7, <1>8 DEF u, F, n

NoBranch(f) == f.rest # <<>> => Head(f.rest).kind # "StartBranch"

LEMMA NoBranchFacts ==
    ASSUME NEW s, NoBranch(Top(s))
    PROVE  PendingOf(s) = Inputs
BY NoBranchPending DEF NoBranch, IsWaiting, Waiting

(***************************************************************************)
(* s is the state that takes the node, t the state that goes on: it may do *)
(* so with any memory whose solver was told that c is false.               *)
(***************************************************************************)
LEMMA CheckErrorStep ==
    ASSUME IInv, phase = "run", NEW p \in queue, PendingOf(st[p]) = Inputs,
           NEW c \in Conditions, NEW what \in Causes,
           NEW s, BodyOk(prog, s, mem[p]), NoBranch(Top(s)),
           NEW t, BodyOk(prog, t, mem[p]), NoBranch(Top(t)),
           \A m \in Memories : m.asserted \cap c = {} => TopOk(prog, Top(t), m),
           CheckError(p, c, what, s, t)
    PROVE  IInv' /\ PE!CheckError(p, c)
<1>1. /\ p \in PathIds
      /\ mem[p] \in Memories
      /\ mem \in [PathIds -> Memories]
      /\ dropped \in Conditions
  BY PathFacts DEF IInv
<1>2. PICK sat \in ErrorAnswers(mem[p], c) :
         LET error == [cond |-> c \cap FullPathCond(mem[p]), what |-> what,
                       visited |-> s.visited]
             found == Found(s, sat, error)
         IN  /\ mem' = [mem EXCEPT ![p] = AddError(mem[p], c, sat)]
             /\ \E after \in Answers(mem[p].asserted \ c) :
                  IF after = "UNSAT" THEN Abandon(p, WithFound(s, found))
                  ELSE GoOn(p, WithFound(t, found))
  BY DEF CheckError, WithFound
<1> DEFINE error == [cond |-> c \cap FullPathCond(mem[p]), what |-> what,
                     visited |-> s.visited]
           found == Found(s, sat, error)
           m == AddError(mem[p], c, sat)
           gone == WithFound(s, found)
           next == WithFound(t, found)
<1>3. PICK after \in Answers(mem[p].asserted \ c) :
         IF after = "UNSAT" THEN Abandon(p, gone) ELSE GoOn(p, next)
  BY <1>2
<1>4. mem' = [mem EXCEPT ![p] = m]
  BY <1>2
<1>5. terminals' = terminals /\ dropped' = dropped
  BY DEF CheckError
<1>6. m \in Memories /\ m.asserted \cap c = {}
  <2>1. sat \in SolverAnswers
    BY AnswersFacts DEF ErrorAnswers
  <2>2. m \in Memories /\ m.asserted = mem[p].asserted \ c
    BY <1>1, <2>1, AddErrorFacts
  <2> QED
    BY <2>2
<1>7. error.cond = c \cap FullPathCond(mem[p]) /\ error.what \in Causes
  OBVIOUS
<1> HIDE DEF error
<1>8. /\ BodyOk(prog, gone, m) /\ Top(gone) = Top(s)
      /\ BodyOk(prog, next, m) /\ Top(next) = Top(t)
  BY <1>1, <1>7, FoundBody
<1>9. PathPending[p] = Inputs
  BY <1>1 DEF PathPending
<1>10. PE!ErrorAnswers(mem[p], c) = ErrorAnswers(mem[p], c)
  BY DEF PE!ErrorAnswers, ErrorAnswers, PE!Answers, Answers, PE!FullPathCond, FullPathCond
<1>11. PE!Answers(mem[p].asserted \ c) = Answers(mem[p].asserted \ c)
  BY DEF PE!Answers, Answers
<1>12. m = PE!AddError(mem[p], c, sat)
  BY DEF PE!AddError, AddError, PE!FullPathCond, FullPathCond
<1>13. /\ PE!Running(p)
       /\ PE!Cardinality(mem[p].errors) < 1 + Cardinality(Conditions)
  BY <1>1, FewErrors, SameCardinality DEF PE!Running
<1>14. PendingOf(gone) = Inputs /\ PendingOf(next) = Inputs
  BY <1>8, NoBranchFacts
<1> HIDE DEF m, gone, next, found
<1>15. mem'[p] = m
  BY <1>1, <1>4
<1>18. ASSUME NEW x, PendingOf(x) = Inputs, st' = [st EXCEPT ![p] = x]
       PROVE  UNCHANGED PathPending
  <2>1. PendingOf(x) = PathPending[p]
    BY <1>9, <1>18
  <2> QED
    BY <1>4, <1>6, <1>18, <2>1, OnlyPath
<1>16. CASE after = "UNSAT"
  <2>1. /\ st' = [st EXCEPT ![p] = gone]
        /\ queue' = queue \ {p}
        /\ results' = results \cup ErrorResults(gone)
        /\ UNCHANGED <<prog, created, phase>>
    BY <1>3, <1>16 DEF Abandon
  <2> DEFINE R == ErrorResults(gone)
  <2>2. /\ \A r \in R : ResultOk(r)
        /\ {[kind |-> r.kind, cond |-> r.cond] : r \in R} =
             {[kind |-> "error", cond |-> x] : x \in m.errors}
    BY <1>6, <1>8, ErrorResultsFacts DEF BodyOk
  <2>3. results' = results \cup R
    BY <2>1
  <2> HIDE DEF R
  <2>4. /\ IInv'
        /\ PathResults' = PathResults \cup {[kind |-> r.kind, cond |-> r.cond] : r \in R}
    BY <1>4, <1>5, <1>6, <2>1, <2>2, <2>3, LeaveInv
  <2>5. UNCHANGED PathPending
    BY <1>14, <1>18, <2>1
  <2>6. PE!End(p, {})
    BY <1>15, <2>1, <2>2, <2>4 DEF PE!End, PE!ErrorsOf, PE!ResultOf
  <2>7. PE!CheckError(p, c)
    BY <1>3, <1>4, <1>5, <1>9, <1>10, <1>11, <1>12, <1>13, <1>16, <2>1, <2>5, <2>6
       DEF PE!CheckError
  <2> QED
    BY <2>4, <2>7
<1>17. CASE after # "UNSAT"
  <2>1. GoOn(p, next)
    BY <1>3, <1>17
  <2>2. PathOk(prog, next, m)
    BY <1>6, <1>8 DEF PathOk
  <2>3. IInv' /\ PathResults' = PathResults
    BY <1>1, <1>4, <1>5, <1>6, <2>1, <2>2, GoOnInv
  <2>4. UNCHANGED PathPending
    BY <1>14, <1>18, <2>1 DEF GoOn
  <2>5. UNCHANGED <<created, queue, phase, dropped>>
    BY <1>5, <2>1 DEF GoOn
  <2>6. PE!CheckError(p, c)
    BY <1>3, <1>4, <1>9, <1>10, <1>11, <1>12, <1>13, <1>17, <2>3, <2>4, <2>5
       DEF PE!CheckError
  <2> QED
    BY <2>3, <2>6
<1> QED
  BY <1>16, <1>17

LEMMA QuietTop ==
    ASSUME NEW P, NEW f, Quiet(P, f)
    PROVE  NoBranch(f) /\ \A m : TopOk(P, f, m)
BY DEF Quiet, NoBranch, TopOk, Transient

\* A panic is an error of all inputs of the path.
LEMMA StartPanicStep ==
    ASSUME IInv, NEW p, StartPanic(p)
    PROVE  IInv' /\ \E c \in Conditions : PE!CheckError(p, c)
<1> DEFINE w == Waiting(st[p])
           s == Take(st[p])
           t == Start(st[p], <<>>, <<>>)
<1>1. Starts(p, {"Panic", "Prune"}) /\ CheckError(p, Inputs, w.kind, s, t)
  BY Zenon DEF StartPanic
<1>2. /\ p \in queue
      /\ phase = "run"
      /\ BodyOk(prog, st[p], mem[p])
      /\ IsWaiting(st[p])
      /\ w.kind \in {"Panic", "Prune"}
      /\ NodeOk(prog, w)
  BY <1>1, StartsFacts
<1>3. PendingOf(st[p]) = Inputs
  BY <1>2, NoBranchPending
<1>4. BodyOk(prog, s, mem[p]) /\ NoBranch(Top(s))
  BY <1>2, TakeBody, TakenIsQuiet, QuietTop
<1>5. ~ IsCall(prog, w)
  BY <1>2 DEF IsCall
<1>6. BodyOk(prog, t, mem[p]) /\ Top(t) = Frame(w, <<>>, <<>>)
  BY <1>2, <1>5, EmptyFrame, StartBody
<1> HIDE DEF s, t
<1>7. Top(t).rest = <<>> /\ Top(t).node = w
  BY <1>6, FrameFacts
<1>8. NoBranch(Top(t))
  BY <1>7 DEF NoBranch
<1>9. \A m \in Memories : m.asserted \cap Inputs = {} => TopOk(prog, Top(t), m)
  <2> SUFFICES ASSUME NEW m \in Memories, m.asserted \cap Inputs = {}
               PROVE  TopOk(prog, Top(t), m)
    OBVIOUS
  <2>1. m.asserted = {}
    BY DEF Memories, Conditions
  <2> QED
    BY <1>5, <1>7, <2>1 DEF TopOk
<1>10. w.kind \in Causes /\ Inputs \in Conditions
  BY <1>2 DEF Causes, Conditions
<1> HIDE DEF w
<1>11. IInv' /\ PE!CheckError(p, Inputs)
  BY <1>1, <1>2, <1>3, <1>4, <1>6, <1>8, <1>9, <1>10, CheckErrorStep
<1> QED
  BY <1>10, <1>11

\* An operator; a divisor that is zero is an error.
LEMMA StartBinOpStep ==
    ASSUME IInv, NEW p, StartBinOp(p)
    PROVE  IInv' /\ ((\E c \in Conditions : PE!CheckError(p, c)) \/ UNCHANGED PE!vars)
<1> DEFINE s == st[p]
           n == Waiting(s).id
           v == Compute(s, n)
           zero == ZeroCond(Read(s, G[n].y))
           Done(m) == Deliver(WriteValue(Take(s), m, n, v), v)
<1>1. /\ Starts(p, {"BinOp", "UnOp"})
      /\ IF G[n].op \in {"/", "%"}
         THEN CheckError(p, zero, "divisionByZero", Take(s),
                         Done(AddError(mem[p], zero, "SAT")))
         ELSE /\ GoOn(p, Done(mem[p]))
              /\ UNCHANGED <<mem, terminals, dropped>>
  BY Zenon DEF StartBinOp
<1>2. /\ p \in queue
      /\ phase = "run"
      /\ BodyOk(prog, s, mem[p])
      /\ IsWaiting(s)
      /\ Waiting(s).kind \in {"BinOp", "UnOp"}
  BY <1>1, StartsFacts
<1>3. PendingOf(s) = Inputs
  BY <1>2, NoBranchPending
<1>4. BodyOk(prog, Take(s), mem[p]) /\ Quiet(prog, Top(Take(s)))
  BY <1>2, TakeBody, TakenIsQuiet
<1>5. zero \in Conditions
  BY DEF ZeroCond, Conditions
<1> HIDE DEF n, v, zero
<1>6. ASSUME NEW m
      PROVE  BodyOk(prog, Done(m), mem[p]) /\ Quiet(prog, Top(Done(m)))
  <2> DEFINE u == WriteValue(Take(s), m, n, v)
  <2>1. BodyOk(prog, u, mem[p]) /\ Top(u) = Top(Take(s))
    BY <1>4, WriteBody
  <2> HIDE DEF u
  <2>2. BodyOk(prog, Deliver(u, v), mem[p]) /\ Quiet(prog, Top(Deliver(u, v)))
    BY <1>4, <2>1, DeliverQuiet
  <2> QED
    BY <2>2 DEF u
<1> HIDE DEF Done
<1>7. CASE G[n].op \in {"/", "%"}
  <2> DEFINE t == Done(AddError(mem[p], zero, "SAT"))
  <2>1. CheckError(p, zero, "divisionByZero", Take(s), t)
    BY <1>1, <1>7
  <2>2. BodyOk(prog, t, mem[p]) /\ Quiet(prog, Top(t))
    BY <1>6
  <2> HIDE DEF t
  <2>3. NoBranch(Top(Take(s)))
    BY <1>4, QuietTop
  <2>4. NoBranch(Top(t)) /\ \A m \in Memories : TopOk(prog, Top(t), m)
    BY <2>2, QuietTop
  <2>5. "divisionByZero" \in Causes
    BY DEF Causes
  <2>6. IInv' /\ PE!CheckError(p, zero)
    BY <1>2, <1>3, <1>4, <1>5, <2>1, <2>2, <2>3, <2>4, <2>5, CheckErrorStep
  <2> QED
    BY <1>5, <2>6
<1>8. CASE G[n].op \notin {"/", "%"}
  <2> DEFINE t == Done(mem[p])
  <2>1. GoOn(p, t) /\ UNCHANGED <<mem, terminals, dropped>>
    BY <1>1, <1>8
  <2>2. BodyOk(prog, t, mem[p]) /\ Quiet(prog, Top(t))
    BY <1>6
  <2> HIDE DEF t
  <2> QED
    BY <1>2, <1>3, <2>1, <2>2, QuietStep
<1> QED
  BY <1>7, <1>8

-----------------------------------------------------------------------------

(* The steps that split a path or constrain it *)

LEMMA SameErrors ==
    ASSUME NEW P, NEW s, NEW m, BodyOk(P, s, m), NEW n, n.errors = m.errors
    PROVE  BodyOk(P, s, n)
BY DEF BodyOk

\* A path that has only to add the condition c of its branch.
BranchOf(s, b, c) == Start(s, <<StartBranchNode(b, c)>>, <<>>)

LEMMA BranchStart ==
    ASSUME NEW P, NEW m, NEW s, BodyOk(P, s, m), IsWaiting(s),
           Waiting(s).kind = "BranchControl", NodeOk(P, Waiting(s)),
           NEW c \in Conditions, NEW b \in {Waiting(s).body, Waiting(s).elseBody}
    PROVE  LET t == BranchOf(s, b, c) IN
           /\ BodyOk(P, t, m)
           /\ \A n : TopOk(P, Top(t), n)
           /\ PendingOf(t) = c
<1> DEFINE w == Waiting(s)
           child == StartBranchNode(b, c)
           children == <<child>>
           t == Start(s, children, <<>>)
<1>1. /\ w.body \in DOMAIN NodesOf(P) /\ w.elseBody \in DOMAIN NodesOf(P)
      /\ NodesOf(P)[w.body].kind = "Block" /\ NodesOf(P)[w.elseBody].kind = "Block"
  BY DEF NodeOk
<1>2. /\ NodeOk(P, child)
      /\ child.kind = "StartBranch"
      /\ child.cond = c
  BY <1>1, BranchNodesFacts
<1> HIDE DEF child
<1>3. /\ FrameOk(P, Frame(w, children, <<>>))
      /\ Head(children) = child /\ children # <<>>
  BY <1>2, OneFrame
<1>4. ~ IsCall(P, w)
  BY DEF IsCall
<1> HIDE DEF children
<1>5. BodyOk(P, t, m) /\ Top(t) = Frame(w, children, <<>>)
  BY <1>3, <1>4, StartBody
<1> HIDE DEF t
<1>6. Top(t).node = w /\ Top(t).rest = children
  BY <1>5, FrameFacts
<1>7. \A n : TopOk(P, Top(t), n)
  BY <1>2, <1>3, <1>4, <1>6 DEF TopOk
<1>8. t.stack # <<>>
  BY <1>5 DEF BodyOk, StackOk
<1>9. PendingOf(t) = c
  BY <1>2, <1>3, <1>6, <1>8 DEF PendingOf, IsWaiting, Waiting
<1> QED
  BY <1>5, <1>7, <1>9 DEF t, children, child, BranchOf

LEMMA BranchControlStep ==
    ASSUME IInv, NEW p, BranchControl(p)
    PROVE  IInv' /\ \E c \in Conditions : PE!Fork(p, c)
<1> DEFINE s == st[p]
           w == Waiting(s)
           cond == CondOf(Top(s).args[1])
           other == Inputs \ cond
           new == created + 1
           t == BranchOf(s, w.body, cond)
           u == BranchOf(s, w.elseBody, other)
           m == Clone(mem[p])
<1>1. /\ Starts(p, {"BranchControl"})
      /\ created < MaxPaths
      /\ created' = new
      /\ queue' = queue \cup {new}
      /\ mem' = [mem EXCEPT ![new] = m]
      /\ st' = [st EXCEPT ![p] = t, ![new] = u]
      /\ UNCHANGED <<prog, terminals, results, dropped, phase>>
  BY Zenon DEF BranchControl, BranchOf
<1>2. /\ p \in queue
      /\ phase = "run"
      /\ prog \in DOMAIN Programs
      /\ BodyOk(prog, s, mem[p])
      /\ IsWaiting(s)
      /\ w.kind = "BranchControl"
      /\ NodeOk(prog, w)
  BY <1>1, StartsFacts
<1>3. cond \in Conditions /\ other \in Conditions
  BY DEF CondOf, Conditions
<1> HIDE DEF cond
<1> HIDE DEF w, other
<1>4. /\ BodyOk(prog, t, mem[p])
      /\ \A n : TopOk(prog, Top(t), n)
      /\ PendingOf(t) = cond
  BY <1>2, <1>3, BranchStart DEF w
<1>5. /\ BodyOk(prog, u, mem[p])
      /\ \A n : TopOk(prog, Top(u), n)
      /\ PendingOf(u) = other
  BY <1>2, <1>3, BranchStart DEF w
<1>6. /\ p \in PathIds
      /\ mem[p] \in Memories
      /\ mem \in [PathIds -> Memories]
      /\ st = [q \in PathIds |-> st[q]]
      /\ created \in PathIds
      /\ queue \subseteq 1 .. created
      /\ \A q \in queue : q \in PathIds /\ PathOk(prog, st[q], mem[q])
  BY <1>2, PathFacts DEF IInv
<1>7. /\ new \in PathIds
      /\ \A q \in queue : q # new
      /\ queue' \subseteq 1 .. created'
  BY <1>1, <1>6, MaxPathsAssumption DEF PathIds
<1>8. m \in Memories /\ m.errors = mem[p].errors
  BY <1>6, CloneFacts
<1>9. BodyOk(prog, u, m)
  BY <1>5, <1>8, SameErrors
<1> HIDE DEF t, u, m, new
<1>10. /\ mem' \in [PathIds -> Memories]
       /\ mem'[new] = m /\ \A q \in PathIds : q # new => mem'[q] = mem[q]
       /\ st' = [q \in PathIds |-> st'[q]]
       /\ st'[p] = t /\ st'[new] = u
       /\ \A q \in PathIds : q # p /\ q # new => st'[q] = st[q]
  BY <1>1, <1>2, <1>6, <1>7, <1>8
<1>11. ASSUME NEW q \in queue'
       PROVE  PathOk(prog', st'[q], mem'[q])
  <2>1. CASE q = new
    BY <1>1, <1>5, <1>9, <1>10, <2>1 DEF PathOk
  <2>2. CASE q = p
    BY <1>1, <1>2, <1>4, <1>6, <1>7, <1>10, <2>2 DEF PathOk
  <2>3. CASE q # new /\ q # p
    <3>1. q \in queue
      BY <1>1, <2>3
    <3> QED
      BY <1>1, <1>6, <1>10, <2>3, <3>1
  <2> QED
    BY <2>1, <2>2, <2>3
<1>12. IInv'
  BY <1>1, <1>7, <1>10, <1>11 DEF IInv
<1>13. PathPending[p] = Inputs
  <2>1. PendingOf(s) = Inputs
    BY <1>2, NoBranchPending DEF w
  <2> QED
    BY <1>6, <2>1 DEF PathPending
<1>14. PathPending' = [PathPending EXCEPT ![p] = cond, ![new] = other]
  BY <1>2, <1>4, <1>5, <1>6, <1>7, <1>10 DEF PathPending
<1>15. PE!Fork(p, cond)
  <2>1. PE!Clone(mem[p]) = m
    BY DEF PE!Clone, Clone, m
  <2>2. PathResults' = PathResults
    BY <1>1 DEF PathResults
  <2> QED
    BY <1>1, <1>2, <1>13, <1>14, <2>1, <2>2 DEF PE!Fork, PE!Running, new, other
<1> QED
  BY <1>3, <1>12, <1>15

LEMMA StartBranchStep ==
    ASSUME IInv, NEW p, StartBranch(p) PROVE IInv' /\ PE!StartBranch(p)
<1> DEFINE s == st[p]
           w == Waiting(s)
           m == AddCond(mem[p], w.cond)
           child(sat) == IF sat = "UNSAT" THEN StopNode ELSE NodeWithId(w.body)
<1>1. /\ Starts(p, {"StartBranch"})
      /\ \E sat \in Answers(m.asserted) :
           /\ mem' = [mem EXCEPT ![p] = m]
           /\ GoOn(p, StartedBranch(s, <<child(sat)>>, <<>>))
      /\ UNCHANGED <<terminals, dropped>>
  BY Zenon DEF StartBranch, StartedBranch
<1>2. /\ p \in queue
      /\ phase = "run"
      /\ prog \in DOMAIN Programs
      /\ BodyOk(prog, s, mem[p])
      /\ IsWaiting(s)
      /\ w.kind = "StartBranch"
      /\ NodeOk(prog, w)
      /\ NodesOf(prog) = G
  BY <1>1, StartsFacts
<1>3. PICK sat \in Answers(m.asserted) :
         /\ mem' = [mem EXCEPT ![p] = m]
         /\ GoOn(p, StartedBranch(s, <<child(sat)>>, <<>>))
  BY <1>1
<1> DEFINE c == child(sat)
           children == <<c>>
           t == StartedBranch(s, children, <<>>)
<1>4. w.body \in DOMAIN G /\ G[w.body].kind = "Block" /\ w.cond \in Conditions
  BY <1>2 DEF NodeOk
<1>5. /\ p \in PathIds
      /\ mem[p] \in Memories
      /\ dropped \in Conditions
  BY <1>2, PathFacts DEF IInv
<1>6. m \in Memories /\ m.errors = mem[p].errors
  BY <1>4, <1>5, AddCondFacts
<1>7. /\ NodeOk(prog, c)
      /\ c.kind \in {"Block", "Stop"}
      /\ c.kind = "Stop" => m.asserted = {}
  <2>1. CASE sat = "UNSAT"
    <3>1. m.asserted = {}
      BY <2>1, AnswersFacts
    <3>2. c = StopNode
      BY <2>1
    <3> QED
      BY <3>1, <3>2, OwnNodesFacts
  <2>2. CASE sat # "UNSAT"
    <3>1. c = NodeWithId(w.body)
      BY <2>2
    <3>2. NodeOk(prog, c) /\ c.kind = "Block"
      BY <1>2, <1>4, <3>1, NodeWithIdFacts
    <3> QED
      BY <3>2
  <2> QED
    BY <2>1, <2>2
<1>8. PendingOf(s) = w.cond
  <2>1. s.stack # <<>>
    BY <1>2 DEF BodyOk, StackOk
  <2> QED
    BY <1>2, <2>1 DEF PendingOf
<1>9. ~ IsCall(prog, w)
  BY <1>2 DEF IsCall
<1>10. GoOn(p, t) /\ mem' = [mem EXCEPT ![p] = m]
  BY <1>3
<1> HIDE DEF c, w, m, child
<1>11. /\ FrameOk(prog, Frame(w, children, <<>>))
       /\ Head(children) = c /\ children # <<>>
  BY <1>2, <1>7, OneFrame
<1> HIDE DEF children
<1>12. BodyOk(prog, t, mem[p]) /\ Top(t) = Frame(w, children, <<>>)
  BY <1>2, <1>9, <1>11, BranchBody DEF w
<1> HIDE DEF t
<1>13. Top(t).node = w /\ Top(t).rest = children
  BY <1>12, FrameFacts
<1>14. TopOk(prog, Top(t), m)
  BY <1>2, <1>7, <1>9, <1>11, <1>13 DEF TopOk
<1>15. PathOk(prog, t, m)
  BY <1>6, <1>12, <1>14, SameErrors DEF PathOk
<1>16. PendingOf(t) = Inputs
  BY <1>7, <1>11, <1>13, NoBranchFacts DEF NoBranch
<1>17. IInv' /\ PathResults' = PathResults
  BY <1>1, <1>2, <1>5, <1>6, <1>10, <1>15, GoOnInv
<1>18. PathPending' = [PathPending EXCEPT ![p] = Inputs]
  <2>1. st' = [st EXCEPT ![p] = t]
    BY <1>10 DEF GoOn
  <2>2. PathPending' = [PathPending EXCEPT ![p] = PendingOf(t)]
    BY <1>2, <1>6, <1>10, <2>1, OnlyPath
  <2> QED
    BY <1>16, <2>2
<1>19. mem' = [mem EXCEPT ![p] = PE!AddCond(mem[p], PathPending[p])]
  <2>1. PathPending[p] = w.cond
    BY <1>5, <1>8 DEF PathPending
  <2> QED
    BY <1>10, <2>1 DEF PE!AddCond, AddCond, m
<1> QED
  BY <1>1, <1>2, <1>10, <1>17, <1>18, <1>19 DEF PE!StartBranch, PE!Running, GoOn

LEMMA StartAssumeStep ==
    ASSUME IInv, NEW p, StartAssume(p)
    PROVE  IInv' /\ \E c \in Conditions : PE!Assume(p, c)
<1> DEFINE s == st[p]
           w == Waiting(s)
           cond == CondOf(Top(s).args[1])
           m == AddCond(mem[p], cond)
<1>1. /\ Starts(p, {"StartFunction"})
      /\ ~ HasBody(w.func)
      /\ \E sat \in Answers(m.asserted) :
           /\ mem' = [mem EXCEPT ![p] = m]
           /\ dropped' = dropped \cup (mem[p].asserted \ cond)
           /\ GoOn(p, Start(s, <<KeepResultNode(sat = "UNSAT")>>, <<>>))
      /\ UNCHANGED terminals
  BY Zenon DEF StartAssume
<1>2. /\ p \in queue
      /\ phase = "run"
      /\ BodyOk(prog, s, mem[p])
      /\ IsWaiting(s)
      /\ w.kind = "StartFunction"
      /\ NodeOk(prog, w)
      /\ NodesOf(prog) = G
  BY <1>1, StartsFacts
<1>3. PICK sat \in Answers(m.asserted) :
         /\ mem' = [mem EXCEPT ![p] = m]
         /\ dropped' = dropped \cup (mem[p].asserted \ cond)
         /\ GoOn(p, Start(s, <<KeepResultNode(sat = "UNSAT")>>, <<>>))
  BY <1>1
<1> DEFINE stop == sat = "UNSAT"
           c == KeepResultNode(stop)
           children == <<c>>
           t == Start(s, children, <<>>)
<1>4. cond \in Conditions
  BY DEF CondOf, Conditions
<1>5. /\ p \in PathIds
      /\ mem[p] \in Memories
      /\ dropped \in Conditions
  BY <1>2, PathFacts DEF IInv
<1>6. m \in Memories /\ m.errors = mem[p].errors
  BY <1>4, <1>5, AddCondFacts
<1>7. stop => m.asserted = {}
  BY AnswersFacts
<1>8. dropped' \in Conditions
  BY <1>3, <1>5 DEF Memories, Conditions
<1>9. PendingOf(s) = Inputs
  BY <1>2, NoBranchPending
<1>10. ~ IsCall(prog, w)
  BY <1>1, <1>2 DEF IsCall, HasBody, BodyOf
<1>11. GoOn(p, t) /\ mem' = [mem EXCEPT ![p] = m]
  BY <1>3
<1> HIDE DEF w, m, cond, stop
<1>12. NodeOk(prog, c) /\ c.kind = "KeepResult" /\ c.stop = stop
  BY OwnNodesFacts
<1> HIDE DEF c
<1>13. /\ FrameOk(prog, Frame(w, children, <<>>))
       /\ Head(children) = c /\ children # <<>>
  BY <1>2, <1>10, <1>12, OneFrame
<1> HIDE DEF children
<1>14. BodyOk(prog, t, mem[p]) /\ Top(t) = Frame(w, children, <<>>)
  BY <1>2, <1>10, <1>13, StartBody DEF w
<1> HIDE DEF t
<1>15. Top(t).node = w /\ Top(t).rest = children
  BY <1>14, FrameFacts
<1>16. TopOk(prog, Top(t), m)
  BY <1>2, <1>7, <1>10, <1>12, <1>13, <1>15 DEF TopOk
<1>17. PathOk(prog, t, m)
  BY <1>6, <1>14, <1>16, SameErrors DEF PathOk
<1>18. PendingOf(t) = Inputs
  BY <1>12, <1>13, <1>15, NoBranchFacts DEF NoBranch
<1>19. IInv' /\ PathResults' = PathResults
  BY <1>1, <1>2, <1>6, <1>8, <1>11, <1>17, GoOnInv
<1>20. PathPending[p] = Inputs
  BY <1>5, <1>9 DEF PathPending
<1>21. PathPending' = PathPending
  <2>1. st' = [st EXCEPT ![p] = t]
    BY <1>11 DEF GoOn
  <2>2. PendingOf(t) = PathPending[p]
    BY <1>18, <1>20
  <2> QED
    BY <1>2, <1>6, <1>11, <2>1, <2>2, OnlyPath
<1>22. mem' = [mem EXCEPT ![p] = PE!AddCond(mem[p], cond)]
  BY <1>11 DEF PE!AddCond, AddCond, m
<1>23. PE!Assume(p, cond)
  BY <1>2, <1>3, <1>11, <1>19, <1>20, <1>21, <1>22 DEF PE!Assume, PE!Running, GoOn
<1> QED
  BY <1>4, <1>19, <1>23

-----------------------------------------------------------------------------

(* The end of the interpretation *)

LEMMA CrashStep == ASSUME IInv, NEW p, Crash(p) PROVE IInv' /\ PE!Crash
<1>1. /\ phase = "run" /\ p \in queue
      /\ phase' = "crashed"
      /\ queue' = {}
      /\ results' = {}
      /\ UNCHANGED <<prog, created, mem, st, terminals, dropped>>
  BY DEF Crash
<1>2. IInv'
  BY <1>1 DEF IInv
<1>3. PathResults' = {} /\ PathPending' = PathPending
  BY <1>1 DEF PathResults, PathPending
<1> QED
  BY <1>1, <1>2, <1>3 DEF PE!Crash

LEMMA TimeoutStep == ASSUME IInv, Timeout PROVE IInv' /\ PE!Timeout
<1>1. /\ phase = "run" /\ queue # {}
      /\ phase' = "timeout"
      /\ queue' = {}
      /\ results' = results \cup UNION {ErrorResults(st[p]) : p \in queue}
      /\ UNCHANGED <<prog, created, mem, st, terminals, dropped>>
  BY DEF Timeout
<1>2. ASSUME NEW p \in queue
      PROVE  /\ \A r \in ErrorResults(st[p]) : ResultOk(r)
             /\ {[kind |-> r.kind, cond |-> r.cond] : r \in ErrorResults(st[p])} =
                  PE!ErrorsOf(mem[p])
  <2>1. mem[p] \in Memories /\ BodyOk(prog, st[p], mem[p])
    BY PathFacts
  <2> QED
    BY <2>1, ErrorResultsFacts DEF BodyOk, PE!ErrorsOf, PE!ResultOf
<1> HIDE DEF ErrorResults
<1>3. IInv'
  BY <1>1, <1>2 DEF IInv
<1>4. PathPending' = PathPending
  BY <1>1 DEF PathPending
<1>5. PathResults' = PathResults \cup UNION {PE!ErrorsOf(mem[p]) : p \in queue}
  <2>1. PathResults' = PathResults \cup
          UNION {{[kind |-> r.kind, cond |-> r.cond] : r \in ErrorResults(st[p])} : p \in queue}
    BY <1>1 DEF PathResults
  <2> QED
    BY <1>2, <2>1
<1> QED
  BY <1>1, <1>3, <1>4, <1>5 DEF PE!Timeout

LEMMA FinishStep == ASSUME IInv, Finish PROVE IInv' /\ PE!Finish
<1>1. /\ phase = "run" /\ queue = {}
      /\ phase' = "done"
      /\ UNCHANGED <<prog, created, queue, mem, st, terminals, results, dropped>>
  BY DEF Finish
<1>2. IInv'
  BY <1>1 DEF IInv
<1>3. PathResults' = PathResults /\ PathPending' = PathPending
  BY <1>1 DEF PathResults, PathPending
<1> QED
  BY <1>1, <1>2, <1>3 DEF PE!Finish

LEMMA IdleStep == ASSUME IInv, UNCHANGED vars PROVE IInv' /\ UNCHANGED PE!vars
BY DEF IInv, vars, PE!vars, PathPending, PathResults

LEMMA InterpretStepStep ==
    ASSUME IInv, NEW p \in PathIds, InterpretStep(p)
    PROVE  IInv' /\ (PE!Step(p) \/ PE!Crash \/ UNCHANGED PE!vars)
<1>1. Step(p)
  BY DEF InterpretStep
<1>2. CASE StartBlock(p)
  BY <1>2, StartBlockStep
<1>3. CASE StartIf(p)
  BY <1>3, StartIfStep
<1>4. CASE BranchControl(p)
  BY <1>4, BranchControlStep DEF PE!Step, PE!Conditions, Conditions
<1>5. CASE StartBranch(p)
  BY <1>5, StartBranchStep DEF PE!Step
<1>6. CASE Stop(p)
  BY <1>6, StopStep DEF PE!Step
<1>7. CASE StartJump(p)
  BY <1>7, StartJumpStep
<1>8. CASE StartReturn(p)
  BY <1>8, StartReturnStep
<1>9. CASE EndReturn(p)
  BY <1>9, EndReturnStep DEF PE!Step
<1>10. CASE StartPanic(p)
  BY <1>10, StartPanicStep DEF PE!Step, PE!Conditions, Conditions
<1>11. CASE EndPanic(p)
  BY <1>11, EndPanicStep DEF PE!Step
<1>12. CASE StartCall(p)
  BY <1>12, StartCallStep
<1>13. CASE EndCall(p)
  BY <1>13, EndCallStep
<1>14. CASE StartFunction(p)
  BY <1>14, StartFunctionStep
<1>15. CASE StartAssume(p)
  BY <1>15, StartAssumeStep DEF PE!Step, PE!Conditions, Conditions
<1>16. CASE KeepResult(p)
  BY <1>16, KeepResultStep DEF PE!Step
<1>17. CASE EndAssume(p)
  BY <1>17, EndAssumeStep
<1>18. CASE StartBinOp(p)
  BY <1>18, StartBinOpStep DEF PE!Step, PE!Conditions, Conditions
<1>19. CASE StartLink(p)
  BY <1>19, StartLinkStep
<1>20. CASE StartForcePhi(p)
  BY <1>20, StartForcePhiStep
<1>21. CASE EndForcePhi(p)
  BY <1>21, EndForcePhiStep
<1>22. CASE Crash(p)
  BY <1>22, CrashStep
<1> QED
  BY <1>1, <1>2, <1>3, <1>4, <1>5, <1>6, <1>7, <1>8, <1>9, <1>10, <1>11, <1>12,
     <1>13, <1>14, <1>15, <1>16, <1>17, <1>18, <1>19, <1>20, <1>21, <1>22 DEF Step

\* Every step of the interpreter is a step of the exploration, or stutters.
LEMMA NextStep ==
    ASSUME IInv, [Next]_vars
    PROVE  IInv' /\ [PE!Next]_PE!vars
<1>1. ASSUME NEW p \in PathIds, InterpretStep(p)
      PROVE  IInv' /\ [PE!Next]_PE!vars
  BY <1>1, InterpretStepStep DEF PE!Next, PE!PathIds, PathIds
<1>2. CASE Timeout
  BY <1>2, TimeoutStep DEF PE!Next
<1>3. CASE Finish
  BY <1>3, FinishStep DEF PE!Next
<1>4. CASE Terminated
  BY <1>4, IdleStep DEF Terminated
<1>5. CASE UNCHANGED vars
  BY <1>5, IdleStep
<1> QED
  BY <1>1, <1>2, <1>3, <1>4, <1>5 DEF Next

-----------------------------------------------------------------------------

(* The initial state *)

LEMMA InitialPath ==
    ASSUME prog \in DOMAIN Programs
    PROVE  /\ PathOk(prog, InitialState, NewMemory)
           /\ PendingOf(InitialState) = Inputs
<1> DEFINE child == StartFunctionNode(Main)
           children == <<child>>
           root == Frame(RootNode, children, MainArgs)
           stack == <<root>>
           levels == <<<<>>>>
           locals == <<<<>>>>
           s == InitialState
<1>1. /\ IsState(s)
      /\ s.stack = stack /\ s.levels = levels /\ s.locals = locals
      /\ s.visited = {} /\ s.found = {}
  BY DEF InitialState, IsState, StateOf
<1>2. NodesOf(prog) = G /\ Main \in DOMAIN G /\ G[Main].kind = "Func"
  BY MainIsFunc DEF NodesOf, G
<1>3. NodeOk(prog, child) /\ child.kind = "StartFunction"
  BY <1>2, StartFunctionNodeFacts
<1>4. /\ NodeOk(prog, RootNode) /\ RootNode.kind = "Root"
      /\ ~ IsCall(prog, RootNode)
  BY OwnNodesFacts DEF IsCall
<1> HIDE DEF child
<1>5. FrameOk(prog, root) /\ Head(children) = child /\ children # <<>>
  BY <1>3, <1>4, OneFrame
<1> HIDE DEF children
<1>6. root.node = RootNode /\ root.rest = children
  BY FrameFacts
<1> HIDE DEF root
<1>7. IsSeq(stack) /\ Len(stack) = 1 /\ stack[1] = root /\ stack # <<>>
  BY OneIsSeq
<1>8. IsSeq(locals) /\ Len(locals) = 1
  BY OneIsSeq
<1>9. levels \in Seq(Seq(DOMAIN G)) /\ Len(levels) = 1
  OBVIOUS
<1> HIDE DEF stack, levels, locals, s
<1>10. StackOk(prog, stack)
  BY <1>4, <1>5, <1>6, <1>7 DEF StackOk
<1>11. CallsOn(prog, stack) = {}
  BY <1>4, <1>6, <1>7 DEF CallsOn
<1>12. Cardinality(CallsOn(prog, stack)) = 0
  BY <1>11, FS_EmptySet
<1>13. CountsOk(prog, s)
  BY <1>1, <1>2, <1>8, <1>9, <1>12 DEF CountsOk
<1>14. NewMemory.errors = {}
  BY NewMemoryFacts
<1>15. BodyOk(prog, s, NewMemory)
  <2>1. {e.cond : e \in s.found} = {}
    BY <1>1
  <2> QED
    BY <1>1, <1>10, <1>13, <1>14, <2>1 DEF BodyOk
<1>16. Top(s) = root
  BY <1>1, <1>7 DEF Top, Last
<1>17. Quiet(prog, Top(s))
  BY <1>3, <1>4, <1>5, <1>6, <1>16 DEF Quiet, Transient
<1> QED
  BY <1>15, <1>17, QuietGoesOn DEF s

LEMMA InitStep == ASSUME Init PROVE IInv /\ PE!Init
<1>1. /\ prog \in DOMAIN Programs
      /\ created = 1
      /\ queue = {1}
      /\ mem = [p \in PathIds |-> NewMemory]
      /\ st = [p \in PathIds |-> InitialState]
      /\ terminals = Terminals0[prog]
      /\ results = {}
      /\ dropped = {}
      /\ phase = "run"
  BY DEF Init
<1>2. 1 \in PathIds
  BY MaxPathsAssumption DEF PathIds
<1>3. /\ PathOk(prog, InitialState, NewMemory)
      /\ PendingOf(InitialState) = Inputs
  BY <1>1, InitialPath
<1>4. IInv
  BY <1>1, <1>2, <1>3, NewMemoryFacts DEF IInv, Conditions
<1>5. PathPending = [p \in PathIds |-> Inputs] /\ PathResults = {}
  BY <1>1, <1>3 DEF PathPending, PathResults
<1>6. PE!Init
  BY <1>1, <1>5 DEF PE!Init, PE!PathIds, PathIds, PE!NewMemory, NewMemory
<1> QED
  BY <1>4, <1>6

-----------------------------------------------------------------------------

\* The functions that a path is in are the calls on its stack.
LEMMA InvType == IInv => TypeOK
<1> SUFFICES ASSUME IInv PROVE TypeOK
  OBVIOUS
<1>1. ASSUME NEW p \in queue
      PROVE  /\ st[p].stack # <<>>
             /\ st[p].levels # <<>>
             /\ st[p].levels \in Levels
             /\ Len(st[p].locals) = 1 + Cardinality(CallFrames(st[p]))
             /\ st[p].visited \subseteq DOMAIN G
             /\ {e.cond : e \in st[p].found} = mem[p].errors
  <2>1. BodyOk(prog, st[p], mem[p]) /\ NodesOf(prog) = G
    BY PathFacts
  <2>2. DOMAIN st[p].stack = 1 .. Len(st[p].stack)
    BY <2>1, IsSeqFacts DEF BodyOk, StackOk
  <2>3. CallFrames(st[p]) = CallsOn(prog, st[p].stack)
    BY <2>1, <2>2 DEF CallFrames, CallsOn, IsCall, BodyOf, HasBody
  <2>4. Len(st[p].levels) > 0
    BY <2>1, OldCounts
  <2>5. st[p].levels # <<>>
    BY <2>4
  <2> QED
    BY <2>1, <2>3, <2>5 DEF BodyOk, StackOk, CountsOk, Levels
<1> QED
  BY <1>1 DEF TypeOK, IInv, ResultOk

(***************************************************************************)
(* The type invariant, with what exitFunction and the unwinding of the     *)
(* stack rely on: a live path has a frame to go on with, a level for the   *)
(* blocks, and the locals of exactly the functions it is in.               *)
(***************************************************************************)
THEOREM TypeCorrect == Spec => []TypeOK
<1>1. Init => IInv
  BY InitStep
<1>2. IInv /\ [Next]_vars => IInv'
  BY NextStep
<1> QED
  BY <1>1, <1>2, InvType, PTL DEF Spec

(***************************************************************************)
(* The interpreter implements PathExploration, whatever the program.       *)
(***************************************************************************)
THEOREM Refinement == Spec => Exploration
<1>1. Init => IInv /\ PE!Init
  BY InitStep
<1>2. IInv /\ [Next]_vars => IInv' /\ [PE!Next]_PE!vars
  BY NextStep
<1> QED
  BY <1>1, <1>2, PTL DEF Spec, Exploration, PE!Spec

-----------------------------------------------------------------------------

(* What is proved of PathExploration holds of the interpreter. *)

PEP == INSTANCE PathExploration_proofs
         WITH pending <- PathPending, results <- PathResults,
              MaxErrors <- 1 + Cardinality(Conditions)

LEMMA BoundIsNumber == 1 + Cardinality(Conditions) \in Nat
<1>1. IsFiniteSet(Conditions)
  BY InputsAreFinite, FS_SUBSET DEF Conditions
<1> QED
  BY <1>1, FS_CardinalityType

LEMMA SameInit == PE!Init => PEP!Init
BY Zenon DEF PE!Init, PEP!Init, PE!PathIds, PEP!PathIds, PE!NewMemory, PEP!NewMemory

LEMMA SameMemory ==
    /\ \A m, c : PE!AddCond(m, c) = PEP!AddCond(m, c)
    /\ \A m : PE!Clone(m) = PEP!Clone(m)
    /\ \A m, c, sat : PE!AddError(m, c, sat) = PEP!AddError(m, c, sat)
    /\ \A m, c : PE!ErrorAnswers(m, c) = PEP!ErrorAnswers(m, c)
    /\ \A c : PE!Answers(c) = PEP!Answers(c)
    /\ \A m : PE!FullPathCond(m) = PEP!FullPathCond(m)
    /\ \A m : PE!ErrorsOf(m) = PEP!ErrorsOf(m)
    /\ \A k, c : PE!ResultOf(k, c) = PEP!ResultOf(k, c)
    /\ \A S : PE!Cardinality(S) = PEP!Cardinality(S)
    /\ \A p : PE!Running(p) = PEP!Running(p)
    /\ PE!Conditions = PEP!Conditions
    /\ PE!PathIds = PEP!PathIds
    /\ PE!vars = PEP!vars
BY Zenon DEF PE!AddCond, PEP!AddCond, PE!Clone, PEP!Clone, PE!AddError, PEP!AddError,
       PE!ErrorAnswers, PEP!ErrorAnswers, PE!Answers, PEP!Answers,
       PE!FullPathCond, PEP!FullPathCond, PE!ErrorsOf, PEP!ErrorsOf,
       PE!ResultOf, PEP!ResultOf, PE!Cardinality, PEP!Cardinality,
       PE!Running, PEP!Running, PE!Conditions, PEP!Conditions,
       PE!PathIds, PEP!PathIds, PE!vars, PEP!vars

LEMMA SameStep ==
    ASSUME NEW p, NEW c
    PROVE  /\ PE!CheckError(p, c) => PEP!CheckError(p, c)
           /\ PE!Assume(p, c) => PEP!Assume(p, c)
           /\ PE!Fork(p, c) => PEP!Fork(p, c)
           /\ PE!StartBranch(p) => PEP!StartBranch(p)
           /\ PE!Return(p) => PEP!Return(p)
           /\ PE!Stop(p) => PEP!Stop(p)
           /\ PE!Timeout => PEP!Timeout
           /\ PE!Crash => PEP!Crash
           /\ PE!Finish => PEP!Finish
           /\ PE!Terminated => PEP!Terminated
<1>1. PE!CheckError(p, c) => PEP!CheckError(p, c)
  BY SameMemory DEF PE!CheckError, PEP!CheckError, PE!End, PEP!End
<1>2. PE!Assume(p, c) => PEP!Assume(p, c)
  BY SameMemory DEF PE!Assume, PEP!Assume
<1>3. PE!Fork(p, c) => PEP!Fork(p, c)
  BY SameMemory DEF PE!Fork, PEP!Fork
<1>4. PE!StartBranch(p) => PEP!StartBranch(p)
  BY SameMemory DEF PE!StartBranch, PEP!StartBranch
<1>5. PE!Return(p) => PEP!Return(p)
  BY SameMemory DEF PE!Return, PEP!Return, PE!End, PEP!End
<1>6. PE!Stop(p) => PEP!Stop(p)
  BY SameMemory DEF PE!Stop, PEP!Stop, PE!End, PEP!End
<1>7. PE!Timeout => PEP!Timeout
  BY SameMemory DEF PE!Timeout, PEP!Timeout
<1>8. PE!Crash => PEP!Crash
  BY DEF PE!Crash, PEP!Crash
<1>9. PE!Finish => PEP!Finish
  BY DEF PE!Finish, PEP!Finish
<1>10. PE!Terminated => PEP!Terminated
  BY DEF PE!Terminated, PEP!Terminated, PE!vars, PEP!vars
<1> QED
  BY <1>1, <1>2, <1>3, <1>4, <1>5, <1>6, <1>7, <1>8, <1>9, <1>10

LEMMA SameNext == [PE!Next]_PE!vars => [PEP!Next]_PEP!vars
<1>1. ASSUME NEW p \in PE!PathIds, PE!Step(p) PROVE PEP!Step(p)
  BY <1>1, SameStep, SameMemory DEF PE!Step, PEP!Step
<1> QED
  <2>1. CASE \E p \in PE!PathIds : PE!Step(p)
    BY <1>1, <2>1, SameMemory DEF PEP!Next
  <2>2. CASE PE!Timeout \/ PE!Crash \/ PE!Finish \/ PE!Terminated
    BY <2>2, SameStep DEF PEP!Next
  <2>3. CASE UNCHANGED PE!vars
    BY <2>3 DEF PE!vars, PEP!vars
  <2> QED
    BY <2>1, <2>2, <2>3 DEF PE!Next

(***************************************************************************)
(* No two paths of the interpreter have an input in common, no input has   *)
(* two returns, every input that assume() lets through is explored or has  *)
(* a result, and a found error is lost by a crash only.                    *)
(***************************************************************************)
THEOREM InputsOfPaths ==
    Spec => /\ []PE!PathsExclusive
            /\ []PE!ReturnsExclusive
            /\ []PE!NoInputLost
            /\ PE!ErrorsKept
<1>1. /\ PE!Init => PEP!Init
      /\ [PE!Next]_PE!vars => [PEP!Next]_PEP!vars
  BY SameInit, SameNext
<1>2. PE!Spec => PEP!Spec
  BY <1>1, PTL DEF PE!Spec, PEP!Spec
<1>3. 1 + Cardinality(Conditions) \in Nat
  BY BoundIsNumber
<1>4. PEP!Spec => []PEP!PathsExclusive
  BY <1>3, PEP!PathsNeverMeet, MaxPathsAssumption, SolverMayTimeoutAssumption
<1>5. PEP!Spec => []PEP!ReturnsExclusive
  BY <1>3, PEP!ReturnsNeverMeet, MaxPathsAssumption, SolverMayTimeoutAssumption
<1>6. PEP!Spec => []PEP!NoInputLost
  BY <1>3, PEP!EveryInputAccounted, MaxPathsAssumption, SolverMayTimeoutAssumption
<1>7. PEP!Spec => PEP!ErrorsKept
  BY <1>3, PEP!FoundErrorsStay, MaxPathsAssumption, SolverMayTimeoutAssumption
<1>8. PEP!PathsExclusive => PE!PathsExclusive
  BY DEF PEP!PathsExclusive, PE!PathsExclusive, PEP!Inhabitants, PE!Inhabitants
<1>9. PEP!ReturnsExclusive => PE!ReturnsExclusive
  BY DEF PEP!ReturnsExclusive, PE!ReturnsExclusive, PEP!Inhabitants, PE!Inhabitants,
         PEP!Returns, PE!Returns
<1>10. PEP!NoInputLost => PE!NoInputLost
  BY DEF PEP!NoInputLost, PE!NoInputLost, PEP!Alive, PE!Alive, PEP!Failed, PE!Failed,
         PEP!Reported, PE!Reported
<1>11. PEP!ErrorsKept => PE!ErrorsKept
  <2>1. /\ PEP!FoundErrors = PE!FoundErrors
        /\ PEP!FoundErrors' = PE!FoundErrors'
    BY DEF PEP!FoundErrors, PE!FoundErrors, PEP!ErrorsOf, PE!ErrorsOf,
           PEP!ResultOf, PE!ResultOf
  <2>2. [phase' # "crashed" => PEP!FoundErrors \subseteq PEP!FoundErrors']_PEP!vars =>
          [phase' # "crashed" => PE!FoundErrors \subseteq PE!FoundErrors']_PE!vars
    BY <2>1 DEF PEP!vars, PE!vars
  <2> QED
    BY <2>2, PTL DEF PEP!ErrorsKept, PE!ErrorsKept
<1> QED
  BY <1>2, <1>4, <1>5, <1>6, <1>7, <1>8, <1>9, <1>10, <1>11, Refinement, PTL
     DEF Exploration
=============================================================================
