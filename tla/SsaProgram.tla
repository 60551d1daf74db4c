----------------------------- MODULE SsaProgram -----------------------------
(***************************************************************************)
(* Programs in SSA form as the interpreter sees them (SsaClasses.kt), and  *)
(* the analysis that is done on their graph before a function is           *)
(* interpreted (Main.kt): which terminal nodes can still follow a node.    *)
(*                                                                         *)
(* A program is a function from the ids of its nodes to the nodes.  A      *)
(* reference from one node to another is the id of the other: the LinkTo*  *)
(* nodes of the JSON are followed here, as deLink() follows them.          *)
(***************************************************************************)
EXTENDS Integers, SequencesExt

NoNode == 0  \* ids of nodes of the program are > 0

\* kind and fields of each class of node; fn is the function it belongs to
\* (parentF), and a function without a body is external.
FuncNode(name, params, body) ==
    [kind |-> "Func", name |-> name, params |-> params, body |-> body]
BlockNode(instr) == [kind |-> "Block", instr |-> instr]
IfNode(cond, body, elseBody) ==
    [kind |-> "If", cond |-> cond, body |-> body, elseBody |-> elseBody]
JumpNode(successor) == [kind |-> "Jump", successor |-> successor]
ReturnNode(res, fn) == [kind |-> "Return", res |-> res, fn |-> fn]
PanicNode(fn) == [kind |-> "Panic", fn |-> fn]
CallNode(func, args) == [kind |-> "Call", func |-> func, args |-> args]
BinOpNode(op, x, y) == [kind |-> "BinOp", op |-> op, x |-> x, y |-> y]
UnOpNode(op, x) == [kind |-> "UnOp", op |-> op, x |-> x]
ConstNode(value) == [kind |-> "Const", value |-> value]
ParamNode == [kind |-> "Param", type |-> "int"]
BoolParamNode == [kind |-> "Param", type |-> "bool"]

\* The value of a parameter when its part of the input is k.
ParamValue(node, k) == IF node.type = "bool" THEN k = 1 ELSE k

(***************************************************************************)
(* A phi: edges[b] is the value that comes from the block b.  In the JSON  *)
(* the first mention of a node holds the node, the others are links to it; *)
(* nested is the set of the blocks whose edge holds the node itself.       *)
(***************************************************************************)
PhiNode(edges, nested) == [kind |-> "Phi", edges |-> edges, nested |-> nested]

\* The node is computed each time the interpreter comes to it; the value of a
\* phi or a parameter is read.
IsComputed(node) == node.kind \in {"BinOp", "UnOp", "Call"}

(***************************************************************************)
(* What a program is: the fields of a node of each class hold the ids of   *)
(* nodes of the classes that SsaClasses.kt declares for them, and the      *)
(* edges that hold a node are among the edges of their phi.                *)
(***************************************************************************)
IsProgram(P) ==
    LET G == P.nodes
        Nodes == DOMAIN G
        Blocks == {n \in Nodes : G[n].kind = "Block"}
        Funcs == {n \in Nodes : G[n].kind = "Func"}
        IsPhi(node) == /\ node = PhiNode(node.edges, node.nested)
                       /\ Range(node.edges) \subseteq Nodes
                       /\ node.nested \subseteq DOMAIN node.edges
    IN  /\ NoNode \notin Nodes
        /\ P.main \in Funcs
        /\ \A n \in Nodes :
              \/ G[n] \in [kind : {"Func"}, name : STRING, params : Seq(Nodes),
                           body : Blocks \cup {NoNode}]
              \/ G[n] \in [kind : {"Block"}, instr : Seq(Nodes)]
              \/ G[n] \in [kind : {"If"}, cond : Nodes, body : Blocks, elseBody : Blocks]
              \/ G[n] \in [kind : {"Jump"}, successor : Blocks]
              \/ G[n] \in [kind : {"Return"}, res : Seq(Nodes), fn : Funcs]
              \/ G[n] \in [kind : {"Panic"}, fn : Funcs]
              \/ G[n] \in [kind : {"Call"}, func : Funcs, args : Seq(Nodes)]
              \/ G[n] \in [kind : {"BinOp"}, op : STRING, x : Nodes, y : Nodes]
              \/ G[n] \in [kind : {"UnOp"}, op : STRING, x : Nodes]
              \/ G[n].kind = "Const" /\ G[n] = ConstNode(G[n].value)
              \/ G[n] \in [kind : {"Param"}, type : {"int", "bool"}]
              \/ G[n].kind = "Phi" /\ IsPhi(G[n])

Singletons(ids) == [i \in DOMAIN ids |-> {ids[i]}]

\* children(): the sets come one after the other, the members of one set are
\* alternatives.
Children(node) ==
    CASE node.kind = "Func" ->
           Singletons(node.params \o IF node.body = NoNode THEN <<>> ELSE <<node.body>>)
      [] node.kind = "Block"  -> Singletons(node.instr)
      [] node.kind = "If"     -> <<{node.cond}, {node.body, node.elseBody}>>
      [] node.kind = "Jump"   -> <<{node.successor}>>
      [] node.kind = "Return" -> Singletons(node.res)
      [] node.kind = "Call"   -> Singletons(Append(node.args, node.func))
      [] node.kind = "BinOp"  -> <<{node.x}, {node.y}>>
      [] node.kind = "UnOp"   -> <<{node.x}>>
      [] node.kind = "Phi"    -> <<{node.edges[b] : b \in DOMAIN node.edges}>>
      [] OTHER                -> <<>>

-----------------------------------------------------------------------------

\* getAllReachable: the nodes found from n by following children.
Reachable(G, n) ==
    LET closure[S \in SUBSET DOMAIN G] ==
          LET T == S \cup UNION {UNION Range(Children(G[m])) : m \in S}
          IN  IF T = S THEN S ELSE closure[T]
    IN  closure[{n}]

\* Mutant: the search never goes back to a parent.
PlacesBelow(G, n, s) ==
    IF s = Len(Children(G[n])) THEN {}
    ELSE {<<m, 0>> : m \in Children(G[n])[s + 1]}

(***************************************************************************)
(* bfs: a place <<n, s>> is node n with its first s sets of children done. *)
(* From a node that is not done the search goes down to the next set of    *)
(* children; from a node that is done it goes back to every parent, which  *)
(* then has one more set done.                                             *)
(***************************************************************************)
NextPlaces(G, n, s) ==
    LET children == Children(G[n]) IN
    IF s = Len(children)
    THEN UNION {{<<m, i>> : i \in {j \in DOMAIN Children(G[m]) :
                                      n \in Children(G[m])[j]}} : m \in DOMAIN G}
    ELSE {<<m, 0>> : m \in children[s + 1]}

PlacesFrom(G, n) ==
    LET closure[S \in SUBSET ((DOMAIN G) \X Nat)] ==
          LET T == S \cup UNION {NextPlaces(G, a[1], a[2]) : a \in S}
          IN  IF T = S THEN S ELSE closure[T]
    IN  closure[{<<n, 0>>}]

BfsTerminals(G, n, terminalNodes) ==
    {t \in terminalNodes : <<t, Len(Children(G[t]))>> \in PlacesFrom(G, n)}

IsTerminal(node) == node.kind \in {"Return", "Panic"}

\* The terminal nodes of function f itself, not of the functions it calls.
TerminalNodes(G, f) ==
    {n \in Reachable(G, f) : IsTerminal(G[n]) /\ G[n].fn = f}

\* distToTerminal: a node that is not a key of the map is not in the domain.
KeyNodes(G, f) ==
    {n \in Reachable(G, f) : G[n].kind \in {"Block", "Return", "Jump", "Phi"}} \cup {f}

DistToTerminal(G, f) ==
    [n \in KeyNodes(G, f) |-> BfsTerminals(G, n, TerminalNodes(G, f))]
=============================================================================
