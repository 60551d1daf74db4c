------------------------- MODULE EncodingCorrectness -------------------------
(***************************************************************************)
(* What the encoder and the decoder promise together: the decoded nodes,   *)
(* with links followed, are the program that was encoded.                  *)
(***************************************************************************)
EXTENDS SsaEncoding

Final == {"decoded", "panicked", "failed"}

(***************************************************************************)
(* Every variable has its type; an object has an id once it is mentioned,  *)
(* and the ids that were given out are below the counter, or, for a field, *)
(* equal to it.                                                            *)
(***************************************************************************)
TypeOK ==
    /\ phase \in Final \cup {"encode", "decode"}
    /\ todo \subseteq Programs[prog].functions
    /\ nodeIDCounter \in 1 .. MaxId
    /\ DOMAIN nodeRefs \subseteq DOMAIN Objects
    /\ \A o \in DOMAIN nodeRefs :
          nodeRefs[o] \in IF KindOf(o) = "Field" THEN 1 .. nodeIDCounter
                          ELSE 1 .. nodeIDCounter - 1
    /\ {tree[n].of : n \in DOMAIN tree} \subseteq DOMAIN Objects
    /\ \A n \in DOMAIN tree : tree[n].in < n
    /\ \A map \in {allNodes, allTypes} : \A id \in DOMAIN map : tree[map[id]].id = id

InFull(n) == ~ IsLink(tree[n])

(***************************************************************************)
(* An object is written in full at most once, however many paths lead to   *)
(* it, and a link to it comes after it and has its id: the file is finite, *)
(* and the identity of objects is not lost in it.                          *)
(***************************************************************************)
WrittenOnce ==
    phase = "decoded" =>
        \A m, n \in DOMAIN tree :
            tree[m].of = tree[n].of /\ InFull(m) =>
                IF InFull(n) THEN m = n
                ELSE m < n /\ tree[n].linkId = tree[m].id

(***************************************************************************)
(* deLink(): the node that a link leads to, by the maps of the decoder;    *)
(* the links to blocks, parameters and functions cast what they find.      *)
(***************************************************************************)
Found(map, id) == IF id \in DOMAIN map THEN map[id] ELSE NoNode

Cast(n, kind) == IF n # NoNode /\ tree[n].kind = kind THEN n ELSE NoNode

DeLink(n) ==
    LET id == tree[n].linkId IN
    CASE tree[n].kind = "LinkToNode"  -> Found(allNodes, id)
      [] tree[n].kind = "LinkToBlock" -> Cast(Found(allNodes, id), "BasicBlock")
      [] tree[n].kind = "LinkToParam" -> Cast(Found(allNodes, id), "Parameter")
      [] tree[n].kind = "LinkToType"  -> Found(allTypes, id)
      [] tree[n].kind = "LinkToFunc"  -> Cast(Found(allTypes, id), "Func")
      [] OTHER                        -> n

Means(n, o) == DeLink(n) # NoNode /\ InFull(DeLink(n)) /\ tree[DeLink(n)].of = o

(***************************************************************************)
(* What is decoded is the program: each function is at the top, and under  *)
(* each key of a node are, in their order, the nodes of the objects that   *)
(* its object refers to; a link is followed to the node in full, although  *)
(* the maps of the decoder are keyed by ids that fields have twice, and a  *)
(* node can be written in full far from the block it stands in.            *)
(***************************************************************************)
DecodedIsProgram ==
    phase = "decoded" =>
        /\ \A f \in Programs[prog].functions :
              \E k \in DOMAIN Roots : Means(Roots[k], f)
        /\ \A n \in DOMAIN tree : InFull(n) =>
              \A key \in DOMAIN Objects[tree[n].of].at :
                  LET there == Under(n, key)
                      objects == At(tree[n].of, key)
                  IN  /\ Len(there) = Len(objects)
                      /\ \A k \in DOMAIN there : Means(there[k], objects[k])

-----------------------------------------------------------------------------

(* The functions that main interprets *)

\* Constant for a program: what can be reached from an object.
Reach == [P \in DOMAIN Programs |->
            LET objects == Programs[P].objects
                Next1(o) == UNION {Range(objects[o].at[key]) : key \in DOMAIN objects[o].at}
                closure[S \in SUBSET DOMAIN objects] ==
                    LET T == S \cup UNION {Next1(o) : o \in S}
                    IN  IF T = S THEN S ELSE closure[T]
            IN  [o \in DOMAIN objects |-> closure[{o}]]]

\* Mutant: the receiver is not counted as a parameter.
HasTwoParameters(n) == /\ tree[n].kind = "Function"
                       /\ Under(n, "body") # <<>>
                       /\ Len(Under(n, "params")) > 1

\* funcDeclarations: nodes at the top with a body and parameters; of those
\* with the same name the last.
IsDeclaration(n) == /\ tree[n].kind = "Function"
                    /\ Under(n, "body") # <<>>
                    /\ Under(n, "params") # <<>>

Name(n) == Objects[tree[n].of].name

FuncDeclarations ==
    {Roots[k] : k \in {j \in DOMAIN Roots :
        /\ IsDeclaration(Roots[j])
        /\ \A i \in DOMAIN Roots :
              IsDeclaration(Roots[i]) /\ Name(Roots[i]) = Name(Roots[j]) => i <= j}}

(***************************************************************************)
(* A function that main does not interpret, although it has a body and     *)
(* parameters, is part of a function that was encoded before it, or has    *)
(* the name of one that is interpreted.                                    *)
(***************************************************************************)
OthersAreDeclared ==
    phase = "decoded" =>
        \A k \in DOMAIN Roots :
            LET f == tree[Roots[k]].of IN
            \/ Roots[k] \in FuncDeclarations
            \/ At(f, "body") = <<>> \/ At(f, "params") = <<>>
            \/ \E j \in 1 .. k - 1 : f \in Reach[prog][tree[Roots[j]].of]
            \/ \E n \in FuncDeclarations : Name(n) = Objects[f].name

(***************************************************************************)
(* The walk over the program ends although the program is cyclic: types    *)
(* contain themselves, functions call themselves, and loops jump back.     *)
(***************************************************************************)
EncodingEnds == <>(phase \in Final)
==============================================================================
