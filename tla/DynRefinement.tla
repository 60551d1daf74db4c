---------------------------- MODULE DynRefinement ----------------------------
(***************************************************************************)
(* The state of the dynamic interpreter, and the abstract exploration that *)
(* it implements (PathExploration).                                        *)
(***************************************************************************)
EXTENDS DynInterpreter

\* The constants of an input are bit vectors: there are finitely many inputs.
ASSUME InputsAreFinite == IsFiniteSet(Inputs)

Kinds == {"return", "error"}
Causes == {"return", "Panic", "Prune", "divisionByZero"}
Levels == Seq(Seq(DOMAIN G))

\* The functions that a path is in: those that have locals.
CallFrames(s) == {k \in DOMAIN s.stack : /\ s.stack[k].node.kind = "StartFunction"
                                         /\ HasBody(s.stack[k].node.func)}

(***************************************************************************)
(* Every variable has its type; of the state of a path, the parts that     *)
(* exitFunction shrinks: a live path has a frame to go on with, a level to *)
(* add its blocks to, and locals for each function it is in, from however  *)
(* many branches a function returned.                                      *)
(***************************************************************************)
TypeOK ==
    /\ created \in PathIds
    /\ queue \subseteq 1 .. created
    /\ mem \in [PathIds -> Memories]
    /\ \A p \in queue : /\ st[p].stack # <<>>
                        /\ st[p].levels # <<>>
                        /\ st[p].levels \in Levels
                        /\ Len(st[p].locals) = 1 + Cardinality(CallFrames(st[p]))
                        /\ st[p].visited \subseteq DOMAIN G
                        /\ {e.cond : e \in st[p].found} = mem[p].errors
    /\ terminals \subseteq Terminals0[prog]
    /\ \A r \in results : r.kind \in Kinds /\ r.what \in Causes
                          /\ r.cond \in Conditions
    /\ dropped \in Conditions
    /\ phase \in {"run", "done", "timeout", "crashed"}

-----------------------------------------------------------------------------

(* The interpreter implements PathExploration. *)

PendingOf(s) == IF s.stack # <<>> /\ IsWaiting(s) /\ Waiting(s).kind = "StartBranch"
                THEN Waiting(s).cond ELSE Inputs

PathPending == [p \in PathIds |-> PendingOf(st[p])]
PathResults == {[kind |-> r.kind, cond |-> r.cond] : r \in results}

\* The errors of a path are sets of inputs: there is a bound that none exceeds.
PE == INSTANCE PathExploration
        WITH pending <- PathPending, results <- PathResults,
             MaxErrors <- 1 + Cardinality(Conditions)

(***************************************************************************)
(* Every step of the interpreter is a step of PathExploration or leaves    *)
(* its variables alone; so what is proved of PathExploration holds of the  *)
(* interpreter.                                                            *)
(***************************************************************************)
Exploration == PE!Spec
=============================================================================
