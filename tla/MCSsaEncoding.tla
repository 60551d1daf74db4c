---------------------------- MODULE MCSsaEncoding ----------------------------
(***************************************************************************)
(* SsaEncoding on functions of the samples, whose objects are made from    *)
(* their nodes, and on packages given by their objects.                    *)
(***************************************************************************)
EXTENDS EncodingCorrectness, Integers

Sample == INSTANCE ShortFunctions

Object(kind, at) == [kind |-> kind, at |-> at]
Function(name, at) == [kind |-> "Function", at |-> at, name |-> name]
Nothing == <<>>

(***************************************************************************)
(* The objects of a function of the samples: the nodes, under their ids,   *)
(* the two types of their values, and a signature for each function.       *)
(***************************************************************************)
IntType == 1000
BoolType == 1001
SignatureOf(f) == 1001 + f

OfType(type, at) == "valueType" :> <<type>> @@ at

TypeOf(node) ==
    IF \/ node.kind = "BinOp" /\ node.op \in {"<", "<=", ">", ">=", "==", "!="}
       \/ node.kind = "Const" /\ ToString(node.value) \in {"TRUE", "FALSE"}
       \/ node.kind = "Param" /\ node.type = "bool"
    THEN BoolType ELSE IntType

ObjectOf(n, node) ==
    LET IsNode(m) == m # Sample!NoNode
        Value(kind, at) == Object(kind, OfType(TypeOf(node), at))
        preds == SetToSortSeq(DOMAIN node.edges, <)
    IN  CASE node.kind = "Func" ->
               Function(node.name, OfType(SignatureOf(n),
                                          "params" :> node.params @@ "body" :> SelectSeq(<<node.body>>, IsNode)))
          [] node.kind = "Param"  -> Value("Parameter", Nothing)
          [] node.kind = "Block"  -> Object("BasicBlock", "instr" :> node.instr)
          [] node.kind = "If"     -> Object("If", "cond" :> <<node.cond>> @@
                                       "body" :> <<node.body>> @@ "elseBody" :> <<node.elseBody>>)
          [] node.kind = "Jump"   -> Object("Jump", "successor" :> <<node.successor>>)
          [] node.kind = "Return" -> Object("Return", "results" :> node.res)
          [] node.kind = "Call"   -> Value("Call", "value" :> <<node.func>> @@ "args" :> node.args)
          [] node.kind = "BinOp"  -> Value("BinOp", "x" :> <<node.x>> @@ "y" :> <<node.y>>)
          [] node.kind = "UnOp"   -> Value("UnOp", "x" :> <<node.x>>)
          [] node.kind = "Phi"    ->
               Value("Phi", "edges" :> [i \in DOMAIN preds |-> node.edges[preds[i]]] @@
                            "preds" :> preds)
          [] OTHER                -> IF node.kind = "Const" THEN Value("Const", Nothing)
                                     ELSE Object(node.kind, Nothing)

FunctionsOf(nodes) == {n \in DOMAIN nodes : nodes[n].kind = "Func"}

PackageOf(program) ==
    LET nodes == program.nodes IN
    [functions |-> FunctionsOf(nodes),
     objects |-> [n \in DOMAIN nodes |-> ObjectOf(n, nodes[n])] @@
                 IntType :> Object("Basic", Nothing) @@ BoolType :> Object("Basic", Nothing) @@
                 [t \in {SignatureOf(f) : f \in FunctionsOf(nodes)} |->
                        Object("Signature", Nothing)]]

\* All of the functions of SampleFunctions and of ShortFunctions.
Samples ==
    "LoopWithSymbolicBound" :> Sample!LoopWithSymbolicBound @@
    "ComplexControlFlow" :> Sample!ComplexControlFlow @@
    "FiniteCycle" :> Sample!FiniteCycle @@
    "DivideByZeroCheckWithCycles" :> Sample!DivideByZeroCheckWithCycles @@
    "WhileCycle" :> Sample!WhileCycle @@ "InnerWhile" :> Sample!InnerWhile @@
    "LoopInsideLoop" :> Sample!LoopInsideLoop @@ "TwoCondition" :> Sample!TwoCondition @@
    "InfiniteRecursion" :> Sample!InfiniteRecursion @@
    "IntegerOperations" :> Sample!IntegerOperations @@
    "CompareAndIncrement" :> Sample!CompareAndIncrement @@
    "PushPopIncrementality" :> Sample!PushPopIncrementality @@ "Abs" :> Sample!Abs @@
    "ConstraintsFromInside" :> Sample!ConstraintsFromInside @@
    "BooleanNot" :> Sample!BooleanNot @@
    "Divide" :> Sample!Divide @@ "Calls" :> Sample!Calls @@
    "Recursive" :> Sample!Recursive @@ "Forever" :> Sample!Forever @@
    "Increment" :> Sample!Increment @@ "RangeLoop" :> Sample!RangeLoop @@
    "CallInLoop" :> Sample!CallInLoop

(***************************************************************************)
(* The nodes that the interpreter looks at (SsaProgram) are written where  *)
(* it takes them to be: what is computed is written in full as an          *)
(* instruction of a block or under an edge of a phi, and not as an operand;*)
(* and the edges of a phi that hold a node are those listed as nested.  A  *)
(* node that is mentioned in a phi first is written under its edge, unless *)
(* a block that is a predecessor in an earlier phi of the block holds it.  *)
(***************************************************************************)
NestedIsHeld ==
    phase = "decoded" /\ prog \in DOMAIN Samples =>
        \A n \in DOMAIN tree :
            /\ Sample!IsComputed(tree[n]) => tree[n].key \in {"instr", "edges"}
            /\ tree[n].kind = "Phi" =>
                  LET edges == Under(n, "edges")
                      held == {k \in DOMAIN edges :
                                 InFull(edges[k]) /\ tree[edges[k]].kind # "Const"}
                  IN  Samples[prog].nodes[tree[n].of].nested
                        = {At(tree[n].of, "preds")[k] : k \in held}

-----------------------------------------------------------------------------

(***************************************************************************)
(* recursiveStruct.go: WriteObjectField, and the type RecursiveTypeClass,  *)
(* which is a structure with a pointer to RecursiveTypeClass.              *)
(*   if node.Next == nil { node.Next = &RecursiveTypeClass{} }             *)
(*   node.Next.Value = node.Next.Value + 1; return node                    *)
(***************************************************************************)
RecursiveTypeClass ==
    "RecursiveTypeClass" :> Object("Named", "underlying" :> <<"struct">>) @@
    "struct" :> Object("Struct", "fields" :> <<"Next", "Value">>) @@
    "Next"   :> Object("Field", "elemType" :> <<"*class">>) @@
    "Value"  :> Object("Field", "elemType" :> <<"int">>) @@
    "*class" :> Object("Pointer", "elemType" :> <<"RecursiveTypeClass">>) @@
    "*int"   :> Object("Pointer", "elemType" :> <<"int">>) @@
    "**class" :> Object("Pointer", "elemType" :> <<"*class">>) @@
    "int" :> Object("Basic", Nothing) @@ "bool" :> Object("Basic", Nothing)

FieldAddr(type, x) == Object("FieldAddr", OfType(type, "x" :> <<x>>))
Load(type, x) == Object("UnOp", OfType(type, "x" :> <<x>>))
Store(addr, value) == Object("Store", "addr" :> <<addr>> @@ "value" :> <<value>>)

WriteObjectField ==
    [functions |-> {"WriteObjectField"},
     objects |-> RecursiveTypeClass @@
        "WriteObjectField" :> Function("WriteObjectField",
            OfType("sig", "params" :> <<"node">> @@ "body" :> <<"b0">>)) @@
        "sig"  :> Object("Signature", Nothing) @@
        "node" :> Object("Parameter", OfType("*class", Nothing)) @@
        "b0" :> Object("BasicBlock", "instr" :> <<"t0", "t1", "t2", "if">>) @@
        "t0" :> FieldAddr("**class", "node") @@ "t1" :> Load("*class", "t0") @@
        "t2" :> Object("BinOp", OfType("bool", "x" :> <<"t1">> @@ "y" :> <<"nil">>)) @@
        "nil" :> Object("Const", OfType("*class", Nothing)) @@
        "if" :> Object("If", "cond" :> <<"t2">> @@ "body" :> <<"b1">> @@ "elseBody" :> <<"b2">>) @@
        "b1" :> Object("BasicBlock", "instr" :> <<"t3", "t4", "st1", "jump">>) @@
        "t3" :> Object("Alloc", OfType("*class", Nothing)) @@
        "t4" :> FieldAddr("**class", "node") @@ "st1" :> Store("t4", "t3") @@
        "jump" :> Object("Jump", "successor" :> <<"b2">>) @@
        "b2" :> Object("BasicBlock",
                  "instr" :> <<"t5", "t6", "t7", "t8", "t9", "st2", "ret">>) @@
        "t5" :> FieldAddr("**class", "node") @@ "t6" :> Load("*class", "t5") @@
        "t7" :> FieldAddr("*int", "t6") @@ "t8" :> Load("int", "t7") @@
        "t9" :> Object("BinOp", OfType("int", "x" :> <<"t8">> @@ "y" :> <<"one">>)) @@
        "one" :> Object("Const", OfType("int", Nothing)) @@
        "st2" :> Store("t7", "t9") @@
        "ret" :> Object("Return", "results" :> <<"node">>)]

\* simpleCalls.go: NullAsParameter calls InvokeExample.DivBy, and that calls
\* InvokeClass.DivBy; two functions of the package are called DivBy.
Body(name, params, body) ==
    Function(name, OfType("sig " \o body, "params" :> params @@ "body" :> <<body>>))
Parameter == Object("Parameter", OfType("int", Nothing))
CallOf(f, args) == Object("Call", OfType("int", "value" :> <<f>> @@ "args" :> args))

DivBy ==
    [functions |-> {"NullAsParameter", "InvokeExample.DivBy", "InvokeClass.DivBy"},
     objects |-> [sig \in {"sig b1", "sig b2", "sig b3"} |-> Object("Signature", Nothing)] @@
        "int" :> Object("Basic", Nothing) @@
        "NullAsParameter" :> Body("NullAsParameter", <<"p1">>, "b1") @@ "p1" :> Parameter @@
        "b1" :> Object("BasicBlock", "instr" :> <<"c1", "r1">>) @@
        "c1" :> CallOf("InvokeExample.DivBy", <<"p1">>) @@
        "r1" :> Object("Return", "results" :> <<"c1">>) @@
        "InvokeExample.DivBy" :> Body("DivBy", <<"p2">>, "b2") @@ "p2" :> Parameter @@
        "b2" :> Object("BasicBlock", "instr" :> <<"c2", "r2">>) @@
        "c2" :> CallOf("InvokeClass.DivBy", <<"p2">>) @@
        "r2" :> Object("Return", "results" :> <<"c2">>) @@
        "InvokeClass.DivBy" :> Body("DivBy", <<"p3">>, "b3") @@ "p3" :> Parameter @@
        "b3" :> Object("BasicBlock", "instr" :> <<"r3">>) @@
        "r3" :> Object("Return", "results" :> <<"p3">>)]

(***************************************************************************)
(* A package with the other kinds of nodes and types, in the shapes that   *)
(* the samples have them (ssa/primitiveArrays.json, ssa/withPrimitives):   *)
(* an interface with a method that its embedded interface has as well, a   *)
(* named type that is its own receiver, and a type that has no case.       *)
(***************************************************************************)
OtherKinds ==
    [functions |-> {"Reverse", "init"},
     objects |->
        "init" :> Function("init", OfType("sig0", "params" :> <<>> @@ "body" :> <<>>)) @@
        "sig0" :> Object("Signature", Nothing) @@ "sig" :> Object("Signature", Nothing) @@
        "Reverse" :> Function("Reverse", OfType("sig",
                        "params" :> <<"array">> @@ "body" :> <<"b0">>)) @@
        "array" :> Object("Parameter", OfType("[]int", Nothing)) @@
        "int" :> Object("Basic", Nothing) @@
        "[]int" :> Object("Slice type", "elemType" :> <<"int">>) @@
        "[4]int" :> Object("Array", "elemType" :> <<"int">>) @@
        "*[4]int" :> Object("Pointer", "elemType" :> <<"[4]int">>) @@
        "*int" :> Object("Pointer", "elemType" :> <<"int">>) @@
        "error" :> Object("Named", "underlying" :> <<"interface">> @@ "methods" :> <<"Error">>) @@
        "interface" :> Object("Interface", "methods" :> <<"Error">> @@ "embedded" :> <<"any">>) @@
        "any" :> Object("Alias", "rhs" :> <<"interface">>) @@
        "Error" :> Object("Func", Nothing) @@
        "tuple" :> Object("Tuple", Nothing) @@ "chan" :> Object("Unknown type", Nothing) @@
        "len" :> Object("Builtin", OfType("sig0", Nothing)) @@
        "global" :> Object("Global", OfType("*int", Nothing)) @@
        "two" :> Object("Const", OfType("int", Nothing)) @@
        "b0" :> Object("BasicBlock",
            "instr" :> <<"t0", "t1", "t2", "t3", "t4", "t5", "t6", "t7", "t8", "t9",
                         "st", "defer", "panic">>) @@
        "t0" :> Object("Call", OfType("int", "value" :> <<"len">> @@ "args" :> <<"array">>)) @@
        "t1" :> Object("MakeSlice", OfType("[]int", "len" :> <<"t0">>)) @@
        "t2" :> Object("Alloc", OfType("*[4]int", Nothing)) @@
        "t3" :> Object("Slice", OfType("[]int", "x" :> <<"t2">> @@ "high" :> <<"two">>)) @@
        "t4" :> Object("IndexAddr", OfType("*int", "x" :> <<"t3">> @@ "index" :> <<"t0">>)) @@
        "t5" :> Load("int", "t4") @@
        "t6" :> Object("Convert", OfType("chan", "x" :> <<"t5">>)) @@
        "t7" :> Object("Call", OfType("tuple", "value" :> <<"init">> @@ "args" :> <<>>)) @@
        "t8" :> Object("Extract", OfType("error", Nothing)) @@
        "t9" :> Object("MakeInterface", OfType("any", "x" :> <<"t6">>)) @@
        "st" :> Store("global", "t5") @@ "defer" :> Object("Defer", Nothing) @@
        "panic" :> Object("Panic", Nothing)]

\* A body of one instruction.
OneInstruction(instr, others) ==
    [functions |-> {"F"},
     objects |-> "F" :> Body("F", <<"p">>, "b") @@ "p" :> Parameter @@
                 "sig b" :> Object("Signature", Nothing) @@ "int" :> Object("Basic", Nothing) @@
                 "b" :> Object("BasicBlock", "instr" :> <<"i">>) @@ "i" :> instr @@ others]

\* p[1:], and the method of an interface.
SliceWithLow ==
    OneInstruction(Object("Slice", OfType("int", "x" :> <<"p">> @@ "low" :> <<"one">>)),
                   "one" :> Object("Const", OfType("int", Nothing)))
InvokeMethod ==
    OneInstruction(Object("Invoke", "value" :> <<"p">> @@ "args" :> <<"p">>), Nothing)

-----------------------------------------------------------------------------

OtherPackages ==
    "WriteObjectField" :> WriteObjectField @@ "DivBy" :> DivBy @@
    "OtherKinds" :> OtherKinds @@ "SliceWithLow" :> SliceWithLow @@
    "InvokeMethod" :> InvokeMethod

Packages ==
    [name \in DOMAIN Samples \cup DOMAIN OtherPackages |->
        IF name \in DOMAIN Samples THEN PackageOf(Samples[name]) ELSE OtherPackages[name]]
==============================================================================
