----------------------------- MODULE SsaEncoding -----------------------------
(***************************************************************************)
(* The SSA encoder (ssa.go) and the decoder at the other end of the file   *)
(* it writes (SsaClasses.kt).                                              *)
(*                                                                         *)
(* EncodeSSA walks over the objects of go/ssa and go/types that a package  *)
(* consists of, in depth first order.  The first mention of an object is   *)
(* written in full, under a new id; every other mention is a link to that  *)
(* id, and so a cyclic graph becomes a finite tree.  The decoder enters    *)
(* every node it constructs in a map from ids to nodes, and a link is      *)
(* followed through the map.                                               *)
(*                                                                         *)
(* The calls that the encoder still has to make, on the stack of Go and in *)
(* the expressions that are being evaluated, are the sequence calls.       *)
(***************************************************************************)
EXTENDS Naturals, SequencesExt

CONSTANTS Programs,  \* the packages to encode: Programs[name] is a record of
                     \* the objects, and which of them AllFunctions returns
          MaxId      \* bound: the ids that the encoder may use

(***************************************************************************)
(* An object is a record of its kind, which is the name of its type in Go, *)
(* and of what it refers to, under the key it is written with: at[key] is  *)
(* a sequence of objects.  Blocks lists blocks[1], where a function has    *)
(* any; the successors of the block of an If or a Jump are listed as body, *)
(* elseBody and successor.                                                 *)
(***************************************************************************)

TypeKinds == {"Alias", "Basic", "Struct", "Pointer", "Slice type", "Array",
              "Signature", "Interface", "Tuple", "Named", "Unknown type"}

Call(encode, key) == [encode |-> encode, key |-> key]

EncodeNodes(keys) == [i \in DOMAIN keys |-> Call("encodeNode", keys[i])]

\* What encodeFunction, encodeParameter, encodeBlock and encodeFuncType encode
\* of their object, in the order of the calls.
FunctionCalls == <<Call("encodeNode", "valueType"), Call("encodeParameter", "params"),
                   Call("encodeBlock", "body")>>
ParameterCalls == <<Call("encodeNode", "valueType")>>
BlockCalls == <<Call("encodeNode", "instr")>>
FuncTypeCalls == <<>>

\* The cases of encodeType; the fields of a structure are encoded in place.
TypeCalls(kind) ==
    CASE kind = "Alias"     -> <<Call("encodeType", "rhs")>>
      [] kind = "Struct"    -> <<Call("field", "fields")>>
      [] kind \in {"Pointer", "Slice type", "Array"} -> EncodeNodes(<<"elemType">>)
      [] kind = "Interface" -> EncodeNodes(<<"methods", "embedded">>)
      [] kind = "Named"     -> EncodeNodes(<<"underlying", "methods">>)
      [] OTHER              -> <<>>

\* The cases of encodeNode for instructions that are no values.
InstructionCalls(kind) ==
    CASE kind = "If"     -> <<Call("encodeNode", "cond"), Call("encodeBlock", "body"),
                              Call("encodeBlock", "elseBody")>>
      [] kind = "Jump"   -> <<Call("encodeBlock", "successor")>>
      [] kind = "Return" -> EncodeNodes(<<"results">>)
      [] kind = "Store"  -> EncodeNodes(<<"addr", "value">>)
      [] kind = "Invoke" -> EncodeNodes(<<"value", "args">>)
      [] OTHER           -> <<>>

\* The cases of encodeNode for values: first the type of the value.
ValueKinds == {"BinOp", "Call", "UnOp", "Const", "Alloc", "Slice", "Phi",
               "MakeSlice", "IndexAddr", "Builtin", "FieldAddr", "Convert",
               "Global", "Extract", "MakeInterface"}

\* Mutant: the predecessors of a phi are encoded before its edges.
PhiCallsPredsFirst == <<Call("encodeBlock", "preds"), Call("encodeNode", "edges")>>

PhiCalls == <<Call("encodeNode", "edges"), Call("encodeBlock", "preds")>>

OperandCalls(kind) ==
    CASE kind = "BinOp" -> EncodeNodes(<<"x", "y">>)
      [] kind = "Call"  -> EncodeNodes(<<"value", "args">>)
      [] kind \in {"UnOp", "FieldAddr", "Convert", "MakeInterface"} -> EncodeNodes(<<"x">>)
      [] kind = "Slice" -> EncodeNodes(<<"x", "high">>)
      [] kind = "Phi"   -> PhiCalls
      [] kind = "MakeSlice" -> EncodeNodes(<<"len">>)
      [] kind = "IndexAddr" -> EncodeNodes(<<"x", "index">>)
      [] OTHER              -> <<>>

ValueCalls(kind) == EncodeNodes(<<"valueType">>) \o OperandCalls(kind)

CallsOf(kind) ==
    CASE kind = "Function"    -> FunctionCalls
      [] kind = "Parameter"   -> ParameterCalls
      [] kind = "BasicBlock"  -> BlockCalls
      [] kind = "Func"        -> FuncTypeCalls
      [] kind = "Field"       -> EncodeNodes(<<"elemType">>)
      [] kind \in TypeKinds   -> TypeCalls(kind)
      [] kind \in ValueKinds  -> ValueCalls(kind)
      [] OTHER                -> InstructionCalls(kind)

LinkKinds == {"LinkToNode", "LinkToParam", "LinkToBlock", "LinkToFunc", "LinkToType"}

\* The types of the parameters of the functions that encode.
Takes(encode, kind) ==
    CASE encode = "encodeParameter" -> kind = "Parameter"
      [] encode = "encodeBlock"     -> kind = "BasicBlock"
      [] encode = "encodeType"      -> kind \in TypeKinds
      [] OTHER                      -> TRUE

(***************************************************************************)
(* What go/ssa and go/types hand to the encoder: finitely many objects,    *)
(* the functions of a package among them, and objects refer to objects, of *)
(* the types that Go has for them.  Types with parameters are not encoded, *)
(* and so a field is a field of one structure, once, and nothing else      *)
(* refers to it.                                                           *)
(***************************************************************************)
IsPackage(package) ==
    LET objects == package.objects
        fields(o) == objects[o].at["fields"]
        Structs == {o \in DOMAIN objects : objects[o].kind = "Struct"
                                              /\ "fields" \in DOMAIN objects[o].at}
    IN  /\ IsFiniteSet(DOMAIN objects)
        /\ package.functions \subseteq DOMAIN objects
        /\ \A f \in package.functions : objects[f].kind = "Function"
        /\ \A o \in DOMAIN objects : \A key \in DOMAIN objects[o].at :
              /\ objects[o].at[key] \in Seq(DOMAIN objects)
              /\ \A i \in DOMAIN objects[o].at[key] :
                    objects[objects[o].at[key][i]].kind = "Field"
                      <=> objects[o].kind = "Struct" /\ key = "fields"
        /\ \A o, p \in Structs : \A i \in DOMAIN fields(o), j \in DOMAIN fields(p) :
              fields(o)[i] = fields(p)[j] => o = p /\ i = j
        /\ \A o \in DOMAIN objects :
              LET calls == CallsOf(objects[o].kind)
                  at == objects[o].at
              IN  /\ objects[o].kind \notin LinkKinds
                  /\ DOMAIN at \subseteq {calls[k].key : k \in DOMAIN calls} \cup
                                       (IF objects[o].kind = "Slice" THEN {"low", "max"} ELSE {})
                  /\ \A k \in DOMAIN calls : calls[k].key \in DOMAIN at =>
                        \A i \in DOMAIN at[calls[k].key] :
                            Takes(calls[k].encode, objects[at[calls[k].key][i]].kind)

ASSUME ProgramsAssumption == \A P \in DOMAIN Programs : IsPackage(Programs[P])
ASSUME MaxIdAssumption == MaxId \in Nat \ {0}

(***************************************************************************)
(* The keys of the JSON object of a node, in the order of the fields of    *)
(* its structure, those of embedded structures first: json.Marshal writes  *)
(* them in this order, whatever the order in which they were evaluated.    *)
(***************************************************************************)
NodeKeys(kind) ==
    CASE kind = "BasicBlock" -> <<"instr">>
      [] kind = "If"         -> <<"cond", "body", "elseBody">>
      [] kind = "Return"     -> <<"results">>
      [] kind = "Invoke"     -> <<"value", "args">>
      [] kind = "Store"      -> <<"addr", "value">>
      [] kind = "Jump"       -> <<"successor">>
      [] OTHER               -> <<>>

ValueNodeKeys(kind) ==
    <<"valueType">> \o
    CASE kind = "Function"  -> <<"params", "body">>
      [] kind = "BinOp"     -> <<"x", "y">>
      [] kind = "Call"      -> <<"value", "args">>
      [] kind \in {"UnOp", "FieldAddr", "Convert", "MakeInterface"} -> <<"x">>
      [] kind = "Slice"     -> <<"x", "high">>
      [] kind = "Phi"       -> <<"edges", "preds">>
      [] kind = "MakeSlice" -> <<"len">>
      [] kind = "IndexAddr" -> <<"x", "index">>
      [] OTHER              -> <<>>

TypeNodeKeys(kind) ==
    CASE kind = "Struct"    -> <<"fields">>
      [] kind \in {"Field", "Pointer", "Slice type", "Array"} -> <<"elemType">>
      [] kind = "Named"     -> <<"underlying", "methods">>
      [] kind = "Alias"     -> <<"rhs">>
      [] kind = "Interface" -> <<"methods", "embedded">>
      [] OTHER              -> <<>>

KeysOf(kind) ==
    CASE kind \in ValueKinds \cup {"Function", "Parameter"} -> ValueNodeKeys(kind)
      [] kind \in TypeKinds \cup {"Func", "Field"}          -> TypeNodeKeys(kind)
      [] OTHER                                              -> NodeKeys(kind)

-----------------------------------------------------------------------------

VARIABLES prog,           \* the package (never changes)
          phase,          \* "encode", "decode", "decoded", or how it failed
          todo,           \* functions that EncodeSSA has still to range over
          calls,          \* the calls of the encoder that are still to be made
          nodeIDCounter, nodeRefs,  \* the next id; the ids of objects
          tree,           \* the nodes that were written, in the order of their calls
          reading,        \* what the decoder has still to read and to construct
          allNodes, allTypes        \* the maps of the decoder

vars == <<prog, phase, todo, calls, nodeIDCounter, nodeRefs, tree, reading,
          allNodes, allTypes>>

NoNode == 0  \* positions in the tree and ids are > 0

Objects == Programs[prog].objects
KindOf(o) == Objects[o].kind
At(o, key) == IF key \in DOMAIN Objects[o].at THEN Objects[o].at[key] ELSE <<>>

(***************************************************************************)
(* A node of the tree: its id, the kind it is written as, the id it links  *)
(* to, the node and key it is written under, and its number in the list    *)
(* there.  The object it stands for is not part of the file; decoding does *)
(* not look at it.                                                         *)
(***************************************************************************)
Node(id, kind, linkId, call) ==
    [id |-> id, kind |-> kind, linkId |-> linkId,
     of |-> call.of, in |-> call.in, key |-> call.key, nr |-> call.nr]

IsLink(node) == node.linkId # NoNode

\* encodeParams, encodeBlocks and encodeArray: one call for each element.
CallsFor(o, n) ==
    LET ForKey(c) == [i \in DOMAIN At(o, c.key) |->
                        [encode |-> c.encode, of |-> At(o, c.key)[i],
                         in |-> n, key |-> c.key, nr |-> i]]
    IN  FlattenSeq([k \in DOMAIN CallsOf(KindOf(o)) |-> ForKey(CallsOf(KindOf(o))[k])])

\* The switch of encodeNode on what the other functions encode.
Encoder(call) ==
    IF call.encode # "encodeNode" THEN call.encode
    ELSE CASE KindOf(call.of) = "Function"    -> "encodeFunction"
           [] KindOf(call.of) = "BasicBlock"  -> "encodeBlock"
           [] KindOf(call.of) = "Func"        -> "encodeFuncType"
           [] KindOf(call.of) \in TypeKinds   -> "encodeType"
           [] OTHER                           -> "encodeNode"

Init ==
    /\ prog \in DOMAIN Programs
    /\ phase = "encode"
    /\ todo = Programs[prog].functions
    /\ calls = <<>>
    /\ nodeIDCounter = 1
    /\ nodeRefs = <<>>
    /\ tree = <<>>
    /\ reading = <<>>
    /\ allNodes = <<>>
    /\ allTypes = <<>>

\* AllFunctions returns a map, and range takes its keys in any order.
RangeFunctions ==
    /\ phase = "encode"
    /\ calls = <<>>
    /\ \E f \in todo :
         /\ todo' = todo \ {f}
         /\ calls' = <<[encode |-> "encodeFunction", of |-> f, in |-> NoNode, key |-> "top",
                         nr |-> Cardinality(Programs[prog].functions \ todo) + 1]>>
    /\ UNCHANGED <<prog, phase, nodeIDCounter, nodeRefs, tree, reading, allNodes, allTypes>>

Encodes(function) ==
    /\ phase = "encode"
    /\ calls # <<>>
    /\ Encoder(Head(calls)) = function
    /\ nodeIDCounter < MaxId
    /\ UNCHANGED <<prog, todo, reading, allNodes, allTypes>>

\* The object has an id: a link to it is written.
Link(linkKind) ==
    LET call == Head(calls) IN
    /\ call.of \in DOMAIN nodeRefs
    /\ tree' = Append(tree, Node(nodeIDCounter, linkKind, nodeRefs[call.of], call))
    /\ nodeIDCounter' = nodeIDCounter + 1
    /\ calls' = Tail(calls)
    /\ UNCHANGED <<phase, nodeRefs>>

WithRef(o, id) == [p \in DOMAIN nodeRefs \cup {o} |-> IF p = o THEN id ELSE nodeRefs[p]]

\* Mutant: no reference is set by encodeType.
SetRefUnlessType(o, id) ==
    IF KindOf(o) \in TypeKinds THEN nodeRefs ELSE WithRef(o, id)

SetRef(o, id) == WithRef(o, id)

\* The first mention: the object is written, and what it refers to is next.
FirstMention ==
    LET call == Head(calls) IN
    /\ call.of \notin DOMAIN nodeRefs
    /\ tree' = Append(tree, Node(nodeIDCounter, KindOf(call.of), NoNode, call))
    /\ nodeRefs' = SetRef(call.of, nodeIDCounter)
    /\ nodeIDCounter' = nodeIDCounter + 1
    /\ calls' = CallsFor(call.of, Len(tree) + 1) \o Tail(calls)
    /\ UNCHANGED phase

EncodeFunction == Encodes("encodeFunction") /\ (Link("LinkToNode") \/ FirstMention)
EncodeParameter == Encodes("encodeParameter") /\ (Link("LinkToParam") \/ FirstMention)
EncodeBlock == Encodes("encodeBlock") /\ (Link("LinkToBlock") \/ FirstMention)
EncodeFuncType == Encodes("encodeFuncType") /\ (Link("LinkToFunc") \/ FirstMention)
EncodeType == Encodes("encodeType") /\ (Link("LinkToType") \/ FirstMention)

\* panic("is possible but does not happen in tests")
HasLowOrMax(o) == KindOf(o) = "Slice" /\ At(o, "low") \o At(o, "max") # <<>>

EncodeNode ==
    /\ Encodes("encodeNode")
    /\ \/ Link("LinkToNode")
       \/ ~ HasLowOrMax(Head(calls).of) /\ FirstMention

EncodePanics ==
    /\ Encodes("encodeNode")
    /\ Head(calls).of \notin DOMAIN nodeRefs
    /\ HasLowOrMax(Head(calls).of)
    /\ phase' = "panicked"
    /\ UNCHANGED <<calls, nodeIDCounter, nodeRefs, tree>>

(***************************************************************************)
(* A field of a structure.  Its id is read from the counter twice: the Go  *)
(* specification leaves open whether the first time is before or after the *)
(* call that encodes the type of the field, and the compiler reads it      *)
(* after (in ssa/arrays.json the field Weight has id 455, its type 454).   *)
(* The counter is increased before the type, and not after the id is read. *)
(***************************************************************************)
EncodeField ==
    /\ Encodes("field")
    /\ LET call == Head(calls)
           n == Len(tree) + 1
           end == [encode |-> "end of field", of |-> call.of, in |-> n, key |-> "end",
                    nr |-> 1]
       IN  /\ tree' = Append(tree, Node(nodeIDCounter + 1, "Field", NoNode, call))
           /\ calls' = CallsFor(call.of, n) \o <<end>> \o Tail(calls)
    /\ nodeIDCounter' = nodeIDCounter + 1
    /\ UNCHANGED <<phase, nodeRefs>>

\* Mutant: the id is read before the type is encoded.
FieldIdReadFirst(n) == tree[n].id

\* Mutant: the counter is taken for the id that comes next.
FieldIdIsNext(n) == nodeIDCounter + 1

FieldId(n) == nodeIDCounter

EndField ==
    /\ Encodes("end of field")
    /\ LET call == Head(calls)
       IN  /\ tree' = [tree EXCEPT ![call.in].id = FieldId(call.in)]
           /\ nodeRefs' = SetRef(call.of, FieldId(call.in))
    /\ calls' = Tail(calls)
    /\ UNCHANGED <<phase, nodeIDCounter>>

-----------------------------------------------------------------------------

(* The decoder *)

\* The list of nodes that is written under key of node n, or at the top.
Under(n, key) ==
    LET nodes == {m \in DOMAIN tree : tree[m].in = n /\ tree[m].key = key}
    IN  [nr \in 1 .. Cardinality(nodes) |-> CHOOSE m \in nodes : tree[m].nr = nr]

Roots == Under(NoNode, "top")

Children(n) ==
    IF IsLink(tree[n]) THEN <<>>
    ELSE FlattenSeq([k \in DOMAIN KeysOf(tree[n].kind) |-> Under(n, KeysOf(tree[n].kind)[k])])

Item(step, nodes) == [i \in DOMAIN nodes |-> [step |-> step, node |-> nodes[i]]]

\* The file is written when all functions are encoded, and then read.
WriteFile ==
    /\ phase = "encode"
    /\ calls = <<>>
    /\ todo = {}
    /\ phase' = "decode"
    /\ reading' = Item("read", Roots)
    /\ UNCHANGED <<prog, todo, calls, nodeIDCounter, nodeRefs, tree, allNodes, allTypes>>

Decodes(step) ==
    /\ phase = "decode"
    /\ reading # <<>>
    /\ Head(reading).step = step
    /\ UNCHANGED <<prog, todo, calls, nodeIDCounter, nodeRefs, tree>>

\* The children of a node are read, and constructed, before the node.
ReadNode ==
    /\ Decodes("read")
    /\ LET n == Head(reading).node
       IN  reading' = Item("read", Children(n)) \o Item("construct", <<n>>) \o Tail(reading)
    /\ UNCHANGED <<phase, allNodes, allTypes>>

IsSsaType(node) ==
    node.kind \in TypeKinds \cup {"Func", "Field", "LinkToType", "LinkToFunc"}

Enter(map, id, n) == [i \in DOMAIN map \cup {id} |-> IF i = id THEN n ELSE map[i]]

\* The constructor of SsaNode, or of SsaType, enters the node in the map.
ConstructNode ==
    /\ Decodes("construct")
    /\ LET n == Head(reading).node
       IN  /\ tree[n].kind # "Invoke"
           /\ IF IsSsaType(tree[n])
              THEN allTypes' = Enter(allTypes, tree[n].id, n) /\ UNCHANGED allNodes
              ELSE allNodes' = Enter(allNodes, tree[n].id, n) /\ UNCHANGED allTypes
    /\ reading' = Tail(reading)
    /\ UNCHANGED phase

\* The constructor of InvokeSsaNode fails, and main with it.
ConstructInvoke ==
    /\ Decodes("construct")
    /\ tree[Head(reading).node].kind = "Invoke"
    /\ phase' = "failed"
    /\ UNCHANGED <<reading, allNodes, allTypes>>

EndDecoding ==
    /\ phase = "decode"
    /\ reading = <<>>
    /\ phase' = "decoded"
    /\ UNCHANGED <<prog, todo, calls, nodeIDCounter, nodeRefs, tree, reading, allNodes, allTypes>>

Done ==
    /\ phase \in {"decoded", "panicked", "failed"} \/ nodeIDCounter = MaxId
    /\ UNCHANGED vars

Next ==
    \/ RangeFunctions
    \/ EncodeFunction \/ EncodeParameter \/ EncodeBlock \/ EncodeFuncType
    \/ EncodeType \/ EncodeNode \/ EncodePanics \/ EncodeField \/ EndField
    \/ WriteFile \/ ReadNode \/ ConstructNode \/ ConstructInvoke \/ EndDecoding
    \/ Done

Spec == Init /\ [][Next]_vars

\* Both programs are sequential, and go on until they end.
FairSpec == Spec /\ WF_vars(Next)
==============================================================================
