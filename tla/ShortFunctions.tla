--------------------------- MODULE ShortFunctions ---------------------------
(***************************************************************************)
(* Functions that are short and hard.  The id of a node is its position,   *)
(* as in SampleFunctions.                                                  *)
(***************************************************************************)
EXTENDS SampleFunctions

\* func Divide(x, y): q := x / y; if y < x { return q }
\*                    if x == y { panic }; return y / x
Divide == Prog(<<
    FuncNode("Divide", <<2, 3>>, 4), ParamNode, ParamNode,
    BlockNode(<<5, 6, 7>>),
    BinOpNode("/", 2, 3), BinOpNode("<", 3, 2), IfNode(6, 8, 10),
    BlockNode(<<9>>),      ReturnNode(<<5>>, 1),
    BlockNode(<<11, 12>>), BinOpNode("==", 2, 3), IfNode(11, 13, 15),
    BlockNode(<<14>>),     PanicNode(1),
    BlockNode(<<16, 17>>), BinOpNode("/", 3, 2), ReturnNode(<<16>>, 1)>>)

\* func Calls(x, y): assume(x < 2); a := g(x, y)
\*                   if a == y { panic }; return a / x
\* func g(x, y): if x < y { r = x } else { r = 1 }; return r
Calls == Prog(<<
    FuncNode("Calls", <<2, 3>>, 4), ParamNode, ParamNode,
    BlockNode(<<5, 6, 7, 8, 9>>),
    BinOpNode("<", 2, 25), CallNode(26, <<5>>), CallNode(15, <<2, 3>>),
    BinOpNode("==", 7, 3), IfNode(8, 10, 12),
    BlockNode(<<11>>), PanicNode(1),
    BlockNode(<<13, 14>>), BinOpNode("/", 7, 2), ReturnNode(<<13>>, 1),
    FuncNode("g", <<16, 17>>, 18), ParamNode, ParamNode,
    BlockNode(<<19, 20>>), BinOpNode("<", 16, 17), IfNode(19, 21, 22),
    BlockNode(<<28>>), BlockNode(<<23>>), JumpNode(24),
    BlockNode(<<29, 30>>), ConstNode(2),
    FuncNode("assume", <<27>>, NoNode), ParamNode,
    JumpNode(24),
    PhiNode([b \in {21, 22} |-> IF b = 21 THEN 16 ELSE 31], {}),
    ReturnNode(<<29>>, 15), ConstNode(1)>>)

\* func Recursive(x): if x < 1 { return 0 }; return Recursive(x - 1) + 2
Recursive == Prog(<<
    FuncNode("Recursive", <<2>>, 3), ParamNode,
    BlockNode(<<4, 5>>), BinOpNode("<", 2, 14), IfNode(4, 6, 8),
    BlockNode(<<7>>), ReturnNode(<<12>>, 1),
    BlockNode(<<9, 10, 11, 13>>),
    BinOpNode("-", 2, 14), CallNode(1, <<9>>), BinOpNode("+", 10, 15),
    ConstNode(0), ReturnNode(<<11>>, 1), ConstNode(1), ConstNode(2)>>)

\* func Forever(x): for x == x { }; return x
Forever == Prog(<<
    FuncNode("Forever", <<2>>, 3), ParamNode,
    BlockNode(<<4>>), JumpNode(5),
    BlockNode(<<6, 7>>), BinOpNode("==", 2, 2), IfNode(6, 8, 10),
    BlockNode(<<9>>), JumpNode(5),
    BlockNode(<<11>>), ReturnNode(<<2>>, 1)>>)

\* func Increment(x): for { x++; if 1 < x { return x } }
Increment == Prog(<<
    FuncNode("Increment", <<2>>, 3), ParamNode,
    BlockNode(<<4>>), JumpNode(5),
    BlockNode(<<6, 7, 8, 9>>),
    PhiNode([b \in {3, 5} |-> IF b = 3 THEN 2 ELSE 7], {5}),
    BinOpNode("+", 6, 10), BinOpNode("<", 10, 7), IfNode(8, 11, 5),
    ConstNode(1),
    BlockNode(<<12>>), ReturnNode(<<7>>, 1)>>)

\* func Range(x): sum := 0; for idx := range x { sum += 1 }; return sum
\* with the nodes of changeArrayValues in ssa/invokes.json for the range.
RangeLoop == Prog(<<
    FuncNode("Range", <<2>>, 3), ParamNode,
    BlockNode(<<4>>), JumpNode(5),
    BlockNode(<<6, 7, 8, 9, 10>>),
    PhiNode([b \in {3, 11} |-> IF b = 3 THEN 14 ELSE 12], {11}),
    PhiNode([b \in {3, 11} |-> IF b = 3 THEN 15 ELSE 8], {11}),
    BinOpNode("+", 7, 16), BinOpNode("<", 8, 2), IfNode(9, 11, 17),
    BlockNode(<<12, 13>>), BinOpNode("+", 6, 16), JumpNode(5),
    ConstNode(0), ConstNode(-1), ConstNode(1),
    BlockNode(<<18>>), ReturnNode(<<6>>, 1)>>)

\* func CallInLoop(x): for x < 2 { x = g(x) }; return x
\* func g(x): return x + 1
CallInLoop == Prog(<<
    FuncNode("CallInLoop", <<2>>, 3), ParamNode,
    BlockNode(<<4>>), JumpNode(5),
    BlockNode(<<6, 7, 8>>), PhiNode(3 :> 2 @@ 9 :> 10, {9}),
    BinOpNode("<", 6, 19), IfNode(7, 9, 12),
    BlockNode(<<10, 11>>), CallNode(14, <<6>>), JumpNode(5),
    BlockNode(<<13>>), ReturnNode(<<6>>, 1),
    FuncNode("g", <<15>>, 16), ParamNode,
    BlockNode(<<17, 18>>), BinOpNode("+", 15, 20), ReturnNode(<<17>>, 14),
    ConstNode(2), ConstNode(1)>>)
=============================================================================
