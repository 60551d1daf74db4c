---------------------------- MODULE GlobalStore ----------------------------
(***************************************************************************)
(* The global store of a Memory (globalValues): the structures that        *)
(* pointers point to, and what the paths of one function do to it.         *)
(*                                                                         *)
(* For each type a path has a list of the pointers that were made, with    *)
(* whether they are symbolic, and for each field of the type two arrays    *)
(* over addresses: one for what the inputs point to, one for what the      *)
(* function allocates.  Here a structure has one field.  clone() copies    *)
(* the map, but not the arrays: put() changes them in place, so they are   *)
(* objects of their own here, and paths refer to them.                     *)
(*                                                                         *)
(* An input gives each symbolic constant its value; constants are numbered *)
(* as uniqueCounter numbers them.  The two sides of a branch get their     *)
(* conditions in the step of the clone: PathExploration has the order.     *)
(***************************************************************************)
EXTENDS PathCondition, SequencesExt

CONSTANTS Types,        \* structure types with one integer field
          Stored,       \* the numbers that are stored in fields
          MaxPaths,     \* bound: the number of states that may be made
          MaxConsts,    \* bound: the number of symbolic constants
          MaxPointers,  \* bound: the pointers a path makes
          MaxStores     \* bound: the stores a path makes

ASSUME BoundsAssumption == /\ MaxPaths \in Nat \ {0}
                           /\ MaxConsts \in Nat
                           /\ MaxPointers \in Nat
                           /\ MaxStores \in Nat
ASSUME InputsAssumption ==
    \A i \in Inputs : DOMAIN i = 1 .. MaxConsts /\ \A c \in DOMAIN i : i[c] \in Nat

PathIds == 1 .. MaxPaths

VARIABLES created,   \* stateCounter: how many states were made so far
          live,      \* the states that are explored
          mem,       \* the path condition and the solver of each state
          consts,    \* uniqueCounter: how many constants were made so far
          globals,   \* globalValues of each state
          heap,      \* the arrays, shared by the states that refer to them
          pointers,  \* the pointers each path has made
          stores,    \* the stores each path has made (auxiliary)
          foreign    \* for each path, the arrays that another path stored
                     \* to while both referred to them (auxiliary)

vars == <<created, live, mem, consts, globals, heap, pointers, stores, foreign>>

-----------------------------------------------------------------------------

(* Expressions *)

\* An address is a number, or the value of a symbolic constant.
Number(n) == [const |-> 0, num |-> n]
Const(c) == [const |-> c, num |-> 0]
Eval(e, i) == IF e.const = 0 THEN e.num ELSE i[e.const]

(***************************************************************************)
(* InfSimpleArray: the value every address has at first, the same one for  *)
(* all of them, and what was stored since.                                 *)
(***************************************************************************)
NewArray(first) == [first |-> first, puts |-> <<>>]

Select(array, address, i) ==
    LET hits == {k \in DOMAIN array.puts :
                   Eval(array.puts[k].address, i) = Eval(address, i)}
    IN  IF hits = {} THEN Eval(array.first, i) ELSE array.puts[Max(hits)].value

Put(array, address, value) ==
    [array EXCEPT !.puts = Append(@, [address |-> address, value |-> value])]

\* GlobalStarSymbolic
Pointer(type, address, isSymbolic) ==
    [type |-> type, address |-> address, isSymbolic |-> isSymbolic]

NoArrays == [made |-> FALSE]

-----------------------------------------------------------------------------

(* The store *)

(***************************************************************************)
(* globalArrayName: the arrays of a type are made when the path first      *)
(* needs them; the symbolic one takes a constant for its first value.      *)
(***************************************************************************)
IsNew(p, T) == ~ globals[p][T].made
ConstsNeeded(p, T) == IF IsNew(p, T) THEN 1 ELSE 0

NewHeap(p, T) ==
    IF IsNew(p, T)
    THEN heap \o <<NewArray(Const(consts + 1)), NewArray(Number(0))>>
    ELSE heap

Global(p, T) ==
    IF IsNew(p, T)
    THEN [made |-> TRUE, areSymbolic |-> <<>>,
          symbolic |-> Len(heap) + 1, default |-> Len(heap) + 2]
    ELSE globals[p][T]

\* The pointer is added to the list of its type.
Listed(p, T, isSymbolic) ==
    [globals EXCEPT ![p][T] = [Global(p, T) EXCEPT !.areSymbolic =
                                 Append(@, isSymbolic)]]

NewSize(p, T) == Len(Global(p, T).areSymbolic) + 2

\* Mutant: the bound is one too high.
AddressCondAbove(p, T, address) ==
    LET size == NewSize(p, T)
        hasLocals == FALSE \in Range(Global(p, T).areSymbolic)
    IN  {i \in Inputs : /\ Eval(address, i) \in 1 .. size + 1
                        /\ hasLocals => Eval(address, i) # size}

\* The addresses a new symbolic pointer may have, on the inputs.
AddressCond(p, T, address) ==
    LET size == NewSize(p, T)
        hasLocals == FALSE \in Range(Global(p, T).areSymbolic)
    IN  {i \in Inputs : /\ Eval(address, i) \in 1 .. size
                        /\ hasLocals => Eval(address, i) # size}

\* Mutant: one array for both kinds of pointers.
OneArray(p, r) == globals[p][r.type].symbolic

ArrayOf(p, r) ==
    IF r.isSymbolic THEN globals[p][r.type].symbolic ELSE globals[p][r.type].default

GetStar(p, r) == [i \in Inputs |-> Select(heap[ArrayOf(p, r)], r.address, i)]

-----------------------------------------------------------------------------

Init ==
    /\ created = 1
    /\ live = {1}
    /\ mem = [p \in PathIds |-> NewMemory]
    /\ consts = 0
    /\ globals = [p \in PathIds |-> [T \in Types |-> NoArrays]]
    /\ heap = <<>>
    /\ pointers = [p \in PathIds |-> <<>>]
    /\ stores = [p \in PathIds |-> <<>>]
    /\ foreign = [p \in PathIds |-> {}]

(***************************************************************************)
(* A pointer of the input: a parameter, or what an array of pointers of    *)
(* the input holds at an index that is read for the first time.  Whether   *)
(* the condition can be satisfied is not looked at.                        *)
(***************************************************************************)
AddNewSymbolicStar(p, T) ==
    LET c == consts + ConstsNeeded(p, T) + 1 IN
    /\ p \in live
    /\ Len(pointers[p]) < MaxPointers
    /\ c <= MaxConsts
    /\ consts' = c
    /\ heap' = NewHeap(p, T)
    /\ globals' = Listed(p, T, TRUE)
    /\ mem' = [mem EXCEPT ![p] = AddCond(@, AddressCond(p, T, Const(c)))]
    /\ pointers' = [pointers EXCEPT ![p] = Append(@, Pointer(T, Const(c), TRUE))]
    /\ UNCHANGED <<created, live, stores, foreign>>

\* visitAlloc
AddNewDefaultStar(p, T) ==
    /\ p \in live
    /\ Len(pointers[p]) < MaxPointers
    /\ consts + ConstsNeeded(p, T) <= MaxConsts
    /\ consts' = consts + ConstsNeeded(p, T)
    /\ heap' = NewHeap(p, T)
    /\ globals' = Listed(p, T, FALSE)
    /\ pointers' = [pointers EXCEPT ![p] =
                      Append(@, Pointer(T, Number(NewSize(p, T)), FALSE))]
    /\ UNCHANGED <<created, live, mem, stores, foreign>>

(***************************************************************************)
(* putStar: the array of the other kind gets the value it has at the       *)
(* address already, which changes nothing and is left out.                 *)
(***************************************************************************)
PutStar(p, k, value) ==
    LET r == pointers[p][k]
        array == ArrayOf(p, r)
        Refers(q) == globals[q][r.type].made /\ ArrayOf(q, r) = array
    IN  /\ p \in live
        /\ Len(stores[p]) < MaxStores
        /\ heap' = [heap EXCEPT ![array] = Put(@, r.address, value)]
        /\ stores' = [stores EXCEPT ![p] = Append(@, [pointer |-> k, value |-> value])]
        /\ foreign' = [q \in PathIds |->
                         IF q # p /\ q \in live /\ Refers(q)
                         THEN foreign[q] \cup {array} ELSE foreign[q]]
        /\ UNCHANGED <<created, live, mem, consts, globals, pointers>>

\* The conditions a branch may have: two pointers are equal, or a field has
\* a value.
EqCond(a, b) == {i \in Inputs : Eval(a.address, i) = Eval(b.address, i)}
ValueCond(p, r, v) == {i \in Inputs : GetStar(p, r)[i] = v}

BranchConds(p) ==
    LET made == Range(pointers[p])
    IN  (UNION {{EqCond(a, b) : b \in {r \in made : r.type = a.type}} : a \in made})
          \cup {ValueCond(p, r, v) : r \in made, v \in Stored}

\* Mutant: the clone starts with an empty map.
ForkWithoutGlobals(p, cond) ==
    LET q == created + 1
        then == AddCond(mem[p], cond)
        else == AddCond(Clone(mem[p]), Inputs \ cond)
    IN  /\ p \in live
        /\ q <= MaxPaths
        /\ created' = q
        /\ \E satThen \in Answers(then.asserted), satElse \in Answers(else.asserted) :
             live' = (live \ {p}) \cup (IF satThen = "UNSAT" THEN {} ELSE {p})
                                  \cup (IF satElse = "UNSAT" THEN {} ELSE {q})
        /\ mem' = [mem EXCEPT ![p] = then, ![q] = else]
        /\ pointers' = [pointers EXCEPT ![q] = pointers[p]]
        /\ stores' = [stores EXCEPT ![q] = stores[p]]
        /\ foreign' = [foreign EXCEPT ![q] = foreign[p]]
        /\ UNCHANGED <<consts, globals, heap>>

\* The branch: the state that is cloned takes the else branch.
Fork(p, cond) ==
    LET q == created + 1
        then == AddCond(mem[p], cond)
        else == AddCond(Clone(mem[p]), Inputs \ cond)
    IN  /\ p \in live
        /\ q <= MaxPaths
        /\ created' = q
        /\ \E satThen \in Answers(then.asserted), satElse \in Answers(else.asserted) :
             live' = (live \ {p}) \cup (IF satThen = "UNSAT" THEN {} ELSE {p})
                                  \cup (IF satElse = "UNSAT" THEN {} ELSE {q})
        /\ mem' = [mem EXCEPT ![p] = then, ![q] = else]
        /\ globals' = [globals EXCEPT ![q] = globals[p]]
        /\ pointers' = [pointers EXCEPT ![q] = pointers[p]]
        /\ stores' = [stores EXCEPT ![q] = stores[p]]
        /\ foreign' = [foreign EXCEPT ![q] = foreign[p]]
        /\ UNCHANGED <<consts, heap>>

\* The path returns.
End(p) ==
    /\ p \in live
    /\ live' = live \ {p}
    /\ UNCHANGED <<created, mem, consts, globals, heap, pointers, stores, foreign>>

Terminated == live = {} /\ UNCHANGED vars

Next ==
    \/ \E p \in PathIds :
         \/ \E T \in Types : AddNewSymbolicStar(p, T) \/ AddNewDefaultStar(p, T)
         \/ \E k \in DOMAIN pointers[p], v \in Stored : PutStar(p, k, v)
         \/ \E cond \in BranchConds(p) : Fork(p, cond)
         \/ End(p)
    \/ Terminated

Spec == Init /\ [][Next]_vars

-----------------------------------------------------------------------------

(* Correctness *)

Pointers == [type : Types, isSymbolic : BOOLEAN,
             address : [const : 0 .. MaxConsts, num : 0 .. MaxPointers + 1]]

\* Every variable has its type, and a pointer finds its arrays.
TypeOK ==
    /\ created \in PathIds
    /\ live \subseteq 1 .. created
    /\ mem \in [PathIds -> Memories]
    /\ consts \in 0 .. MaxConsts
    /\ \A p \in PathIds :
         /\ Range(pointers[p]) \subseteq Pointers
         /\ Len(pointers[p]) <= MaxPointers
         /\ \A k \in DOMAIN pointers[p] :
              /\ globals[p][pointers[p][k].type].made
              /\ ArrayOf(p, pointers[p][k]) \in DOMAIN heap
         /\ Len(stores[p]) <= MaxStores
         /\ \A k \in DOMAIN stores[p] : /\ stores[p][k].pointer \in DOMAIN pointers[p]
                                       /\ stores[p][k].value \in Stored
         /\ foreign[p] \subseteq DOMAIN heap

(***************************************************************************)
(* What the function itself does on an input: an allocation gives an       *)
(* object of its own, and a symbolic pointer points to an object of the    *)
(* input, never to one that is allocated.                                  *)
(***************************************************************************)
Object(p, k, i) ==
    LET r == pointers[p][k]
    IN  IF r.isSymbolic THEN [type |-> r.type, input |-> Eval(r.address, i)]
        ELSE [type |-> r.type, allocated |-> k]

FirstValue(p, k, i) ==
    LET r == pointers[p][k]
    IN  IF r.isSymbolic THEN Eval(heap[globals[p][r.type].symbolic].first, i) ELSE 0

\* The field of the object the k-th pointer of the path points to.
GoValue(p, k, i) ==
    LET hits == {j \in DOMAIN stores[p] :
                   Object(p, stores[p][j].pointer, i) = Object(p, k, i)}
    IN  IF hits = {} THEN FirstValue(p, k, i) ELSE stores[p][Max(hits)].value

ReadsRight(p, k) ==
    \A i \in FullPathCond(mem[p]) : GetStar(p, pointers[p][k])[i] = GoValue(p, k, i)

(***************************************************************************)
(* A path reads through each of its pointers what the function would read  *)
(* on each input of the path, whichever symbolic pointers are equal,       *)
(* unless another path stored to an array that both refer to.              *)
(***************************************************************************)
LoadsRight ==
    \A p \in live : \A k \in DOMAIN pointers[p] :
        ArrayOf(p, pointers[p][k]) \notin foreign[p] => ReadsRight(p, k)

(***************************************************************************)
(* A symbolic pointer that was made before an object of its type is        *)
(* allocated, as all parameters are, is never equal to the pointer to it:  *)
(* its address is bounded by the pointers there were.                      *)
(***************************************************************************)
ParametersAreNotLocal ==
    \A p \in live : \A k \in DOMAIN pointers[p] : \A j \in 1 .. k - 1 :
        LET a == pointers[p][j]
            b == pointers[p][k]
        IN  a.type = b.type /\ a.isSymbolic /\ ~ b.isSymbolic =>
                EqCond(a, b) \cap FullPathCond(mem[p]) = {}

(***************************************************************************)
(* What a generated test asserts (TestGenerator, "if result != ..."): the  *)
(* value that a path has read is the one the function reads on the inputs  *)
(* of the path.  No exception is made for arrays that paths share.         *)
(***************************************************************************)
PathsDoNotInterfere ==
    \A p \in live : \A k \in DOMAIN pointers[p] : ReadsRight(p, k)
=============================================================================
