--------------------------- MODULE SampleFunctions ---------------------------
(***************************************************************************)
(* Functions of src/main/resources/samples, with the nodes they have in    *)
(* src/main/resources/ssa.  The id of a node is its position: 1 is the     *)
(* function itself, its parameters come next, then its blocks, the         *)
(* functions it calls, and its constants.                                  *)
(*                                                                         *)
(* Left out are the receiver, which none of these functions uses, and the  *)
(* MakeInterface before a panic.                                           *)
(***************************************************************************)
EXTENDS SsaProgram

Prog(nodes) == [main |-> 1, nodes |-> nodes]

\* The least integer of the inputs that are checked stands for math.MinInt.
MinInt == -2

\* loops.go: if n > 10 { panic }; result := 0
\*           for i := 0; i < n; i++ { result += i }; return result
LoopWithSymbolicBound == Prog(<<
    FuncNode("LoopWithSymbolicBound", <<2>>, 3), ParamNode,
    BlockNode(<<4, 5>>), BinOpNode(">", 2, 21), IfNode(4, 6, 8),
    BlockNode(<<7>>), PanicNode(1),
    BlockNode(<<9>>), JumpNode(10),
    BlockNode(<<11, 12, 13, 14>>), PhiNode(8 :> 22 @@ 15 :> 16, {15}),
    PhiNode(8 :> 23 @@ 15 :> 17, {15}), BinOpNode("<", 12, 2),
    IfNode(13, 15, 19),
    BlockNode(<<16, 17, 18>>), BinOpNode("+", 11, 12), BinOpNode("+", 12, 24),
    JumpNode(10),
    BlockNode(<<20>>), ReturnNode(<<11>>, 1),
    ConstNode(10), ConstNode(0), ConstNode(0), ConstNode(1)>>)

\* loops.go: LoopWithSymbolicBoundAndComplexControlFlow. In the loop:
\*   if condition && i == 3 { break }; if i%2 != 0 { continue }; result += i
ComplexControlFlow == Prog(<<
    FuncNode("LoopWithSymbolicBoundAndComplexControlFlow", <<2, 3>>, 4),
    ParamNode, BoolParamNode,
    BlockNode(<<5, 6>>), BinOpNode(">", 2, 34), IfNode(5, 7, 9),
    BlockNode(<<8>>), PanicNode(1),
    BlockNode(<<10>>), JumpNode(11),
    BlockNode(<<12, 13, 14, 15>>), PhiNode(9 :> 35 @@ 27 :> 28, {27}),
    PhiNode(9 :> 36 @@ 27 :> 29, {27}), BinOpNode("<", 13, 2),
    IfNode(14, 16, 21),
    BlockNode(<<17>>), IfNode(3, 18, 23),
    BlockNode(<<19, 20>>), BinOpNode("==", 13, 37), IfNode(19, 21, 23),
    BlockNode(<<22>>), ReturnNode(<<12>>, 1),
    BlockNode(<<24, 25, 26>>), BinOpNode("%", 13, 38), BinOpNode("!=", 24, 39),
    IfNode(25, 27, 31),
    BlockNode(<<28, 29, 30>>), PhiNode(23 :> 12 @@ 31 :> 32, {31}),
    BinOpNode("+", 13, 40), JumpNode(11),
    BlockNode(<<32, 33>>), BinOpNode("+", 12, 13), JumpNode(27),
    ConstNode(10), ConstNode(0), ConstNode(0), ConstNode(3), ConstNode(2),
    ConstNode(0), ConstNode(1)>>)

\* loops.go: for { if x%519 == 0 { break } else { x++ } }; return x
FiniteCycle == Prog(<<
    FuncNode("FiniteCycle", <<2>>, 3), ParamNode,
    BlockNode(<<4>>), JumpNode(5),
    BlockNode(<<6, 7, 8, 9>>), PhiNode(3 :> 2 @@ 12 :> 13, {12}),
    BinOpNode("%", 6, 15), BinOpNode("==", 7, 16), IfNode(8, 10, 12),
    BlockNode(<<11>>), ReturnNode(<<6>>, 1),
    BlockNode(<<13, 14>>), BinOpNode("+", 6, 17), JumpNode(5),
    ConstNode(519), ConstNode(0), ConstNode(1)>>)

\* loops.go: if n < 5 { panic }; a loop as above; if x == 0 { panic }
\*           j /= x; the loop again; return 1
DivideByZeroCheckWithCycles == Prog(<<
    FuncNode("DivideByZeroCheckWithCycles", <<2, 3>>, 4), ParamNode, ParamNode,
    BlockNode(<<5, 6>>), BinOpNode("<", 2, 39), IfNode(5, 7, 9),
    BlockNode(<<8>>), PanicNode(1),
    BlockNode(<<10>>), JumpNode(11),
    BlockNode(<<12, 13, 14, 15>>), PhiNode(9 :> 40 @@ 16 :> 17, {16}),
    PhiNode(9 :> 41 @@ 16 :> 18, {16}), BinOpNode("<", 13, 2),
    IfNode(14, 16, 20),
    BlockNode(<<17, 18, 19>>), BinOpNode("+", 12, 13), BinOpNode("+", 13, 42),
    JumpNode(11),
    BlockNode(<<21, 22>>), BinOpNode("==", 3, 43), IfNode(21, 23, 25),
    BlockNode(<<24>>), PanicNode(1),
    BlockNode(<<26, 27>>), BinOpNode("/", 12, 3), JumpNode(28),
    BlockNode(<<29, 30, 31, 32>>), PhiNode(25 :> 26 @@ 33 :> 34, {33}),
    PhiNode(25 :> 44 @@ 33 :> 35, {33}), BinOpNode("<", 30, 2),
    IfNode(31, 33, 37),
    BlockNode(<<34, 35, 36>>), BinOpNode("+", 29, 30), BinOpNode("+", 30, 45),
    JumpNode(28),
    BlockNode(<<38>>), ReturnNode(<<46>>, 1),
    ConstNode(5), ConstNode(0), ConstNode(0), ConstNode(1), ConstNode(0),
    ConstNode(0), ConstNode(1), ConstNode(1)>>)

\* loops.go: i, sum := 0, 0; for i < x { sum += i; i++ }; return sum
WhileCycle == Prog(<<
    FuncNode("WhileCycle", <<2>>, 3), ParamNode,
    BlockNode(<<4>>), JumpNode(5),
    BlockNode(<<6, 7, 8, 9>>), PhiNode(3 :> 16 @@ 10 :> 12, {10}),
    PhiNode(3 :> 17 @@ 10 :> 11, {}), BinOpNode("<", 6, 2), IfNode(8, 10, 14),
    BlockNode(<<11, 12, 13>>), BinOpNode("+", 7, 6), BinOpNode("+", 6, 18),
    JumpNode(5),
    BlockNode(<<15>>), ReturnNode(<<7>>, 1),
    ConstNode(0), ConstNode(0), ConstNode(1)>>)

\* loops.go: res := a; for res >= border { res -= border }; return res
InnerWhile == Prog(<<
    FuncNode("InnerWhile", <<2, 3>>, 4), ParamNode, ParamNode,
    BlockNode(<<5>>), JumpNode(6),
    BlockNode(<<7, 8, 9>>), PhiNode(4 :> 2 @@ 10 :> 11, {10}),
    BinOpNode(">=", 7, 3), IfNode(8, 10, 13),
    BlockNode(<<11, 12>>), BinOpNode("-", 7, 3), JumpNode(6),
    BlockNode(<<14>>), ReturnNode(<<7>>, 1)>>)

\* loops.go: for i := x - 5; i < x; i++ { if i < 0 { return 2 } else {
\*             for j := i; j < x+i; j++ { if j == 7 { return 1 } } } }; return -1
LoopInsideLoop == Prog(<<
    FuncNode("LoopInsideLoop", <<2>>, 3), ParamNode,
    BlockNode(<<4, 5>>), BinOpNode("-", 2, 35), JumpNode(6),
    BlockNode(<<7, 8, 9>>), PhiNode(3 :> 4 @@ 30 :> 31, {30}),
    BinOpNode("<", 7, 2), IfNode(8, 10, 33),
    BlockNode(<<11, 12>>), BinOpNode("<", 7, 36), IfNode(11, 13, 15),
    BlockNode(<<14>>), ReturnNode(<<37>>, 1),
    BlockNode(<<16>>), JumpNode(17),
    BlockNode(<<18, 19, 20, 21>>), PhiNode(15 :> 7 @@ 27 :> 28, {27}),
    BinOpNode("+", 2, 7), BinOpNode("<", 18, 19), IfNode(20, 22, 30),
    BlockNode(<<23, 24>>), BinOpNode("==", 18, 38), IfNode(23, 25, 27),
    BlockNode(<<26>>), ReturnNode(<<39>>, 1),
    BlockNode(<<28, 29>>), BinOpNode("+", 18, 40), JumpNode(17),
    BlockNode(<<31, 32>>), BinOpNode("+", 7, 41), JumpNode(6),
    BlockNode(<<34>>), ReturnNode(<<42>>, 1),
    ConstNode(5), ConstNode(0), ConstNode(2), ConstNode(7), ConstNode(1),
    ConstNode(1), ConstNode(1), ConstNode(-1)>>)

\* loops.go: for i := 0; i < x; i++ { if i > 2 && x == 4 { return 1 } }; return 0
TwoCondition == Prog(<<
    FuncNode("TwoCondition", <<2>>, 3), ParamNode,
    BlockNode(<<4>>), JumpNode(5),
    BlockNode(<<6, 7, 8>>), PhiNode(3 :> 22 @@ 17 :> 18, {17}),
    BinOpNode("<", 6, 2), IfNode(7, 9, 20),
    BlockNode(<<10, 11>>), BinOpNode(">", 6, 23), IfNode(10, 12, 17),
    BlockNode(<<13, 14>>), BinOpNode("==", 2, 24), IfNode(13, 15, 17),
    BlockNode(<<16>>), ReturnNode(<<25>>, 1),
    BlockNode(<<18, 19>>), BinOpNode("+", 6, 26), JumpNode(5),
    BlockNode(<<21>>), ReturnNode(<<27>>, 1),
    ConstNode(0), ConstNode(2), ConstNode(4), ConstNode(1), ConstNode(1),
    ConstNode(0)>>)

\* recursion.go: InfiniteRecursion(i + 1)
InfiniteRecursion == Prog(<<
    FuncNode("InfiniteRecursion", <<2>>, 3), ParamNode,
    BlockNode(<<4, 5, 6>>), BinOpNode("+", 2, 7), CallNode(1, <<4>>),
    ReturnNode(<<>>, 1),
    ConstNode(1)>>)

\* numbers.go: a + b if a > b, a - b if a < b, else a * b
IntegerOperations == Prog(<<
    FuncNode("integerOperations", <<2, 3>>, 4), ParamNode, ParamNode,
    BlockNode(<<5, 6>>), BinOpNode(">", 2, 3), IfNode(5, 7, 10),
    BlockNode(<<8, 9>>), BinOpNode("+", 2, 3), ReturnNode(<<8>>, 1),
    BlockNode(<<11, 12>>), BinOpNode("<", 2, 3), IfNode(11, 13, 16),
    BlockNode(<<14, 15>>), BinOpNode("-", 2, 3), ReturnNode(<<14>>, 1),
    BlockNode(<<17, 18>>), BinOpNode("*", 2, 3), ReturnNode(<<17>>, 1)>>)

\* softcontraints.go: if a > b { c := a + 1; if c > b { return 1 } else
\*                    { return -1 } }; return 42
CompareAndIncrement == Prog(<<
    FuncNode("compareAndIncrement", <<2, 3>>, 4), ParamNode, ParamNode,
    BlockNode(<<5, 6>>), BinOpNode(">", 2, 3), IfNode(5, 7, 15),
    BlockNode(<<8, 9, 10>>), BinOpNode("+", 2, 17), BinOpNode(">", 8, 3),
    IfNode(9, 11, 13),
    BlockNode(<<12>>), ReturnNode(<<18>>, 1),
    BlockNode(<<14>>), ReturnNode(<<19>>, 1),
    BlockNode(<<16>>), ReturnNode(<<20>>, 1),
    ConstNode(1), ConstNode(1), ConstNode(-1), ConstNode(42)>>)

\* push_pop.go: result := j; for i := 1; i <= 10; i++ { result += i }
\*              if result%2 == 0 { result++ }; return result
PushPopIncrementality == Prog(<<
    FuncNode("pushPopIncrementality", <<2>>, 3), ParamNode,
    BlockNode(<<4>>), JumpNode(5),
    BlockNode(<<6, 7, 8, 9>>), PhiNode(3 :> 2 @@ 10 :> 11, {10}),
    PhiNode(3 :> 24 @@ 10 :> 12, {10}), BinOpNode("<=", 7, 25),
    IfNode(8, 10, 14),
    BlockNode(<<11, 12, 13>>), BinOpNode("+", 6, 7), BinOpNode("+", 7, 26),
    JumpNode(5),
    BlockNode(<<15, 16, 17>>), BinOpNode("%", 6, 27), BinOpNode("==", 15, 28),
    IfNode(16, 18, 21),
    BlockNode(<<19, 20>>), BinOpNode("+", 6, 29), JumpNode(21),
    BlockNode(<<22, 23>>), PhiNode(14 :> 6 @@ 18 :> 19, {}),
    ReturnNode(<<22>>, 1),
    ConstNode(1), ConstNode(10), ConstNode(1), ConstNode(2), ConstNode(0),
    ConstNode(1)>>)

\* simpleCalls.go: the absolute value of value, by mult(-1, value); 0 for MinInt
Abs == Prog(<<
    FuncNode("abs", <<2>>, 3), ParamNode,
    BlockNode(<<4, 5>>), BinOpNode("<", 2, 22), IfNode(4, 6, 14),
    BlockNode(<<7, 8>>), BinOpNode("==", 2, 23), IfNode(7, 9, 11),
    BlockNode(<<10>>), ReturnNode(<<24>>, 1),
    BlockNode(<<12, 13>>), CallNode(16, <<25, 2>>), ReturnNode(<<12>>, 1),
    BlockNode(<<15>>), ReturnNode(<<2>>, 1),
    FuncNode("mult", <<17, 18>>, 19), ParamNode, ParamNode,
    BlockNode(<<20, 21>>), BinOpNode("*", 17, 18), ReturnNode(<<20>>, 16),
    ConstNode(0), ConstNode(MinInt), ConstNode(0), ConstNode(-1)>>)

\* simpleCalls.go: value made positive; return helper(value), which is its sign
ConstraintsFromInside == Prog(<<
    FuncNode("ConstraintsFromInside", <<2>>, 3), ParamNode,
    BlockNode(<<4, 5>>), BinOpNode("<", 2, 27), IfNode(4, 6, 11),
    BlockNode(<<7, 8>>), BinOpNode("==", 2, 28), IfNode(7, 9, 15),
    BlockNode(<<10>>), JumpNode(11),
    BlockNode(<<12, 13, 14>>), PhiNode(3 :> 2 @@ 9 :> 29 @@ 15 :> 16, {15}),
    CallNode(18, <<12>>), ReturnNode(<<13>>, 1),
    BlockNode(<<16, 17>>), UnOpNode("-", 2), JumpNode(11),
    FuncNode("helper", <<19>>, 20), ParamNode,
    BlockNode(<<21, 22>>), BinOpNode("<", 19, 30), IfNode(21, 23, 25),
    BlockNode(<<24>>), ReturnNode(<<31>>, 18),
    BlockNode(<<26>>), ReturnNode(<<32>>, 18),
    ConstNode(0), ConstNode(MinInt), ConstNode(0), ConstNode(0), ConstNode(-1),
    ConstNode(1)>>)

\* bit.go: d := boolA && boolB; e := (!boolA) || boolB; 100 if d && e, else 200
BooleanNot == Prog(<<
    FuncNode("BooleanNot", <<2, 3>>, 4), BoolParamNode, BoolParamNode,
    BlockNode(<<5>>), IfNode(2, 6, 8),
    BlockNode(<<7>>), JumpNode(8),
    BlockNode(<<9, 10>>), PhiNode(4 :> 22 @@ 6 :> 3, {}), IfNode(2, 11, 13),
    BlockNode(<<12>>), JumpNode(13),
    BlockNode(<<14, 15>>), PhiNode(8 :> 23 @@ 11 :> 3, {}), IfNode(9, 16, 20),
    BlockNode(<<17>>), IfNode(14, 18, 20),
    BlockNode(<<19>>), ReturnNode(<<24>>, 1),
    BlockNode(<<21>>), ReturnNode(<<25>>, 1),
    ConstNode(FALSE), ConstNode(TRUE), ConstNode(100), ConstNode(200)>>)
==============================================================================
