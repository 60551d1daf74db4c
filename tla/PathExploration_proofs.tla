----------------------- MODULE PathExploration_proofs -----------------------
(***************************************************************************)
(* Proofs about PathExploration, for every set of inputs, every bound and  *)
(* a solver that may or may not run into its timeout.                      *)
(***************************************************************************)
EXTENDS PathExploration, PathCondition_proofs, TLAPS

(***************************************************************************)
(* The errors a path leaves to the results.                                *)
(***************************************************************************)
LEMMA ErrorsOfFacts ==
    ASSUME NEW m \in Memories
    PROVE  /\ ErrorsOf(m) \subseteq [kind : Kinds, cond : Conditions]
           /\ \A r \in ErrorsOf(m) : r.kind = "error"
           /\ \A c \in m.errors : \E r \in ErrorsOf(m) : r.cond = c
<1>1. m.errors \subseteq Conditions
  BY DEF Memories
<1>2. ASSUME NEW c \in m.errors
      PROVE  /\ ResultOf("error", c) \in ErrorsOf(m)
             /\ ResultOf("error", c).cond = c
  BY DEF ErrorsOf, ResultOf
<1>3. ASSUME NEW r \in ErrorsOf(m)
      PROVE  r \in [kind : Kinds, cond : Conditions] /\ r.kind = "error"
  BY <1>1 DEF ErrorsOf, ResultOf, Kinds
<1> QED
  BY <1>2, <1>3

(***************************************************************************)
(* The state has the types it should have.                                 *)
(***************************************************************************)
LEMMA TypeInit == Init => TypeOK
BY MaxPathsAssumption, NewMemoryFacts DEF Init, TypeOK, PathIds, Conditions, Kinds

LEMMA QueueIds == TypeOK => queue \subseteq PathIds /\ created \in Nat
BY MaxPathsAssumption DEF TypeOK, PathIds

LEMMA TypeNext == TypeOK /\ [Next]_vars => TypeOK'
<1> SUFFICES ASSUME TypeOK, [Next]_vars PROVE TypeOK'
  OBVIOUS
<1> USE DEF TypeOK, Running
<1>1. ASSUME NEW p \in PathIds, NEW c \in Conditions, CheckError(p, c)
      PROVE  TypeOK'
  <2>1. PICK sat \in ErrorAnswers(mem[p], c) :
           mem' = [mem EXCEPT ![p] = AddError(mem[p], c, sat)]
    BY <1>1 DEF CheckError
  <2>2. sat \in SolverAnswers
    BY AnswersFacts DEF ErrorAnswers
  <2>3. mem' \in [PathIds -> Memories]
    BY <2>1, <2>2, AddErrorFacts
  <2>4. ErrorsOf(mem'[p]) \subseteq [kind : Kinds, cond : Conditions]
    BY <2>3, ErrorsOfFacts
  <2>5. /\ queue' \subseteq 1 .. created
        /\ results' \subseteq [kind : Kinds, cond : Conditions]
    BY <1>1, <2>4 DEF CheckError, End
  <2> QED
    BY <1>1, <2>3, <2>5 DEF CheckError
<1>2. ASSUME NEW p \in PathIds, NEW c \in Conditions, Assume(p, c)
      PROVE  TypeOK'
  BY <1>2, AddCondFacts DEF Assume, Memories, Conditions
<1>3. ASSUME NEW p \in PathIds, NEW c \in Conditions, Fork(p, c)
      PROVE  TypeOK'
  <2>1. created + 1 \in PathIds
    BY <1>3, MaxPathsAssumption DEF Fork, PathIds
  <2>2. queue' \subseteq 1 .. created'
    BY <1>3, MaxPathsAssumption DEF Fork, PathIds
  <2> QED
    BY <1>3, <2>1, <2>2, CloneFacts DEF Fork, Conditions
<1>4. ASSUME NEW p \in PathIds, StartBranch(p)
      PROVE  TypeOK'
  BY <1>4, AddCondFacts DEF StartBranch, Conditions
<1>5. ASSUME NEW p \in PathIds, Return(p)
      PROVE  TypeOK'
  <2>1. ErrorsOf(mem[p]) \subseteq [kind : Kinds, cond : Conditions]
    BY ErrorsOfFacts
  <2>2. ResultOf("return", FullPathCond(mem[p])) \in [kind : Kinds, cond : Conditions]
    BY DEF ResultOf, FullPathCond, Kinds, Memories, Conditions
  <2> QED
    BY <1>5, <2>1, <2>2 DEF Return, End
<1>6. ASSUME NEW p \in PathIds, Stop(p)
      PROVE  TypeOK'
  <2>1. ErrorsOf(mem[p]) \subseteq [kind : Kinds, cond : Conditions]
    BY ErrorsOfFacts
  <2> QED
    BY <1>6, <2>1 DEF Stop, End
<1>7. CASE Timeout
  <2>1. \A p \in queue : ErrorsOf(mem[p]) \subseteq [kind : Kinds, cond : Conditions]
    BY ErrorsOfFacts, QueueIds
  <2> QED
    BY <1>7, <2>1 DEF Timeout
<1>8. CASE Crash
  BY <1>8 DEF Crash
<1>9. CASE Finish
  BY <1>9 DEF Finish
<1>10. CASE Terminated \/ UNCHANGED vars
  BY <1>10 DEF Terminated, vars
<1> QED
  BY <1>1, <1>2, <1>3, <1>4, <1>5, <1>6, <1>7, <1>8, <1>9, <1>10 DEF Next, Step

(***************************************************************************)
(* Every variable of the exploration keeps its type.                       *)
(***************************************************************************)
THEOREM TypeCorrect == Spec => []TypeOK
BY TypeInit, TypeNext, PTL DEF Spec

-----------------------------------------------------------------------------

(***************************************************************************)
(* What CheckError does to the path it is about.                           *)
(***************************************************************************)
LEMMA CheckErrorEffect ==
    ASSUME TypeOK, SolverKnowsPath,
           NEW p \in PathIds, NEW c \in Conditions, CheckError(p, c)
    PROVE  /\ p \in queue
           /\ pending[p] = Inputs
           /\ UNCHANGED <<created, pending, dropped, phase>>
           /\ \A q \in PathIds : q # p => mem'[q] = mem[q]
           /\ mem'[p] \in Memories
           /\ mem'[p].path = mem[p].path
           /\ mem'[p].asserted = mem[p].asserted \ c
           /\ mem'[p].fullErrorsCond \in {c, mem[p].fullErrorsCond}
           /\ mem[p].errors \subseteq mem'[p].errors
           /\ \A i \in mem[p].asserted \cap c :
                 \E e \in mem'[p].errors : i \in e
           /\ \/ queue' = queue /\ results' = results
              \/ /\ queue' = queue \ {p}
                 /\ results' = results \cup ErrorsOf(mem'[p])
                 /\ mem'[p].asserted = {}
<1>1. PICK sat \in ErrorAnswers(mem[p], c) :
         mem' = [mem EXCEPT ![p] = AddError(mem[p], c, sat)]
  BY DEF CheckError
<1>2. sat \in SolverAnswers
  BY AnswersFacts DEF ErrorAnswers
<1>3. mem[p] \in Memories /\ p \in queue
  BY DEF TypeOK, CheckError, Running
<1>4. mem'[p] = AddError(mem[p], c, sat) /\ \A q \in PathIds : q # p => mem'[q] = mem[q]
  BY <1>1 DEF TypeOK
<1>5. ASSUME NEW i \in mem[p].asserted \cap c
      PROVE  \E e \in mem'[p].errors : i \in e
  <2>1. i \in mem[p].asserted \cap FullPathCond(mem[p]) \cap c
    BY <1>3 DEF SolverKnowsPath
  <2>2. sat # "UNSAT"
    BY <2>1, AnswersFacts DEF ErrorAnswers
  <2>3. c \cap FullPathCond(mem[p]) \in mem'[p].errors
    BY <1>2, <1>3, <1>4, <2>2, AddErrorSaves
  <2> QED
    BY <2>1, <2>3
<1>6. \/ queue' = queue /\ results' = results
      \/ /\ queue' = queue \ {p}
         /\ results' = results \cup ErrorsOf(mem'[p])
         /\ mem[p].asserted \ c = {}
  <2>1. PICK answer \in Answers(mem[p].asserted \ c) :
           IF answer = "UNSAT" THEN End(p, {}) ELSE UNCHANGED <<queue, results>>
    BY DEF CheckError
  <2> QED
    BY <2>1, AnswersFacts DEF End
<1>7. /\ mem'[p] \in Memories
      /\ mem'[p].path = mem[p].path
      /\ mem'[p].asserted = mem[p].asserted \ c
      /\ mem'[p].fullErrorsCond \in {c, mem[p].fullErrorsCond}
      /\ mem[p].errors \subseteq mem'[p].errors
  BY <1>2, <1>3, <1>4, AddErrorFacts
<1>8. pending[p] = Inputs /\ UNCHANGED <<created, pending, dropped, phase>>
  BY DEF CheckError
<1>9. \/ queue' = queue /\ results' = results
      \/ /\ queue' = queue \ {p}
         /\ results' = results \cup ErrorsOf(mem'[p])
         /\ mem'[p].asserted = {}
  BY <1>6, <1>7
<1> QED
  BY <1>3, <1>4, <1>5, <1>7, <1>8, <1>9

(***************************************************************************)
(* How a fork changes the memories and what waits in them.                 *)
(***************************************************************************)
LEMMA ForkEffect ==
    ASSUME TypeOK, NEW p \in PathIds, NEW c \in Conditions, Fork(p, c)
    PROVE  /\ p \in queue /\ created + 1 \in PathIds
           /\ created + 1 \notin queue /\ created + 1 # p
           /\ pending[p] = Inputs
           /\ queue' = queue \cup {created + 1}
           /\ mem'[created + 1] = Clone(mem[p])
           /\ \A q \in PathIds : q # created + 1 => mem'[q] = mem[q]
           /\ pending'[p] = c
           /\ pending'[created + 1] = Inputs \ c
           /\ \A q \in PathIds :
                 q # created + 1 /\ q # p => pending'[q] = pending[q]
           /\ UNCHANGED <<results, dropped, phase>>
<1>1. created \in 1 .. MaxPaths /\ created < MaxPaths
  BY DEF Fork, TypeOK, PathIds
<1>2. created + 1 \in PathIds /\ created + 1 \notin 1 .. created
  BY <1>1, MaxPathsAssumption DEF PathIds
<1>3. p \in queue /\ p \in 1 .. created
  BY DEF Fork, Running, TypeOK
<1>4. created + 1 # p
  BY <1>2, <1>3
<1> QED
  BY <1>2, <1>3, <1>4 DEF Fork, TypeOK

-----------------------------------------------------------------------------

(***************************************************************************)
(* The solver of a live path knows at least fullPathCond().                *)
(***************************************************************************)
LEMMA SolverKnowsPathInit == Init => SolverKnowsPath
BY NewMemoryFacts, MaxPathsAssumption
   DEF Init, SolverKnowsPath, FullPathCond, PathIds

LEMMA SolverKnowsPathNext ==
    TypeOK /\ SolverKnowsPath /\ [Next]_vars => SolverKnowsPath'
<1> SUFFICES ASSUME TypeOK, SolverKnowsPath, [Next]_vars,
                    NEW q \in queue'
             PROVE  mem'[q].asserted \subseteq FullPathCond(mem'[q])
  BY DEF SolverKnowsPath
<1>0. \A r \in queue : /\ r \in PathIds
                        /\ mem[r] \in Memories
                        /\ mem[r].asserted \subseteq mem[r].path \ mem[r].fullErrorsCond
  BY QueueIds DEF SolverKnowsPath, FullPathCond, TypeOK
<1>1. ASSUME NEW p \in PathIds, NEW c \in Conditions, CheckError(p, c)
      PROVE  mem'[q].asserted \subseteq FullPathCond(mem'[q])
  <2>1. CASE q = p
    BY <1>0, <1>1, <2>1, CheckErrorEffect DEF FullPathCond
  <2>2. CASE q # p
    BY <1>0, <1>1, <2>2, CheckErrorEffect DEF FullPathCond
  <2> QED
    BY <2>1, <2>2
<1>2. ASSUME NEW p \in PathIds, NEW c \in Conditions, Assume(p, c)
      PROVE  mem'[q].asserted \subseteq FullPathCond(mem'[q])
  <2>1. queue' = queue /\ mem' = [mem EXCEPT ![p] = AddCond(mem[p], c)]
    BY <1>2 DEF Assume
  <2>2. /\ mem'[p].asserted = mem[p].asserted \cap c
        /\ mem'[p].path = mem[p].path \cap c
        /\ mem'[p].fullErrorsCond = mem[p].fullErrorsCond
    BY <2>1, AddCondFacts DEF TypeOK
  <2>3. \A r \in PathIds : r # p => mem'[r] = mem[r]
    BY <2>1 DEF TypeOK
  <2>4. q \in queue
    BY <2>1
  <2>5. CASE q = p
    BY <1>0, <2>2, <2>4, <2>5 DEF FullPathCond
  <2>6. CASE q # p
    BY <1>0, <2>3, <2>4, <2>6 DEF FullPathCond
  <2> QED
    BY <2>5, <2>6
<1>3. ASSUME NEW p \in PathIds, NEW c \in Conditions, Fork(p, c)
      PROVE  mem'[q].asserted \subseteq FullPathCond(mem'[q])
  <2>1. CASE q = created + 1
    BY <1>0, <1>3, <2>1, ForkEffect, CloneFacts DEF FullPathCond
  <2>2. CASE q # created + 1
    BY <1>0, <1>3, <2>2, ForkEffect DEF FullPathCond
  <2> QED
    BY <2>1, <2>2
<1>4. ASSUME NEW p \in PathIds, StartBranch(p)
      PROVE  mem'[q].asserted \subseteq FullPathCond(mem'[q])
  <2>1. queue' = queue /\ mem' = [mem EXCEPT ![p] = AddCond(mem[p], pending[p])]
    BY <1>4 DEF StartBranch
  <2>2. /\ mem'[p].asserted = mem[p].asserted \cap pending[p]
        /\ mem'[p].path = mem[p].path \cap pending[p]
        /\ mem'[p].fullErrorsCond = mem[p].fullErrorsCond
    BY <2>1, AddCondFacts DEF TypeOK
  <2>3. \A r \in PathIds : r # p => mem'[r] = mem[r]
    BY <2>1 DEF TypeOK
  <2>4. q \in queue
    BY <2>1
  <2>5. CASE q = p
    BY <1>0, <2>2, <2>4, <2>5 DEF FullPathCond
  <2>6. CASE q # p
    BY <1>0, <2>3, <2>4, <2>6 DEF FullPathCond
  <2> QED
    BY <2>5, <2>6
<1>5. ASSUME NEW p \in PathIds, Return(p) \/ Stop(p)
      PROVE  mem'[q].asserted \subseteq FullPathCond(mem'[q])
  BY <1>0, <1>5 DEF Return, Stop, End, FullPathCond
<1>6. CASE Timeout \/ Crash
  BY <1>6 DEF Timeout, Crash
<1>7. CASE Finish \/ Terminated \/ UNCHANGED vars
  BY <1>0, <1>7 DEF Finish, Terminated, vars, FullPathCond
<1> QED
  BY <1>1, <1>2, <1>3, <1>4, <1>5, <1>6, <1>7 DEF Next, Step

(***************************************************************************)
(* The solver of a live path never forgets a condition of the path.        *)
(***************************************************************************)
THEOREM SolverSoundness == Spec => []SolverKnowsPath
<1>1. Init => TypeOK /\ SolverKnowsPath
  BY TypeInit, SolverKnowsPathInit
<1>2. TypeOK /\ SolverKnowsPath /\ [Next]_vars => (TypeOK /\ SolverKnowsPath)'
  BY TypeNext, SolverKnowsPathNext
<1> QED
  BY <1>1, <1>2, PTL DEF Spec

-----------------------------------------------------------------------------

(***************************************************************************)
(* No step gives a path an inhabitant it did not have: a path only loses   *)
(* inputs, and a new path takes its inputs from the one it was cloned from.*)
(***************************************************************************)
LEMMA InhabitantsShrink ==
    ASSUME TypeOK, SolverKnowsPath, NEW p \in PathIds, NEW c \in Conditions,
           \/ CheckError(p, c)
           \/ Assume(p, c)
           \/ StartBranch(p)
           \/ Return(p)
           \/ Stop(p)
    PROVE  /\ queue' \subseteq queue
           /\ \A q \in queue' : Inhabitants(q)' \subseteq Inhabitants(q)
<1> USE DEF Inhabitants
<1>0. \A r \in queue : r \in PathIds /\ mem[r] \in Memories
  BY QueueIds DEF TypeOK
<1>1. CASE CheckError(p, c)
  <2>1. queue' \subseteq queue /\ pending' = pending
    BY <1>1, CheckErrorEffect
  <2>2. \A q \in PathIds : mem'[q].path = mem[q].path
    BY <1>1, CheckErrorEffect
  <2> QED
    BY <1>0, <2>1, <2>2
<1>2. CASE Assume(p, c)
  BY <1>0, <1>2, AddCondFacts DEF Assume, TypeOK
<1>3. CASE StartBranch(p)
  <2>1. mem[p].path \subseteq Inputs
    BY DEF TypeOK, Memories, Conditions
  <2>2. /\ mem' = [mem EXCEPT ![p] = AddCond(mem[p], pending[p])]
        /\ pending' = [pending EXCEPT ![p] = Inputs]
        /\ queue' = queue
    BY <1>3 DEF StartBranch
  <2>3. pending[p] \in Conditions /\ mem[p] \in Memories
    BY DEF TypeOK
  <2>4. mem'[p].path = mem[p].path \cap pending[p]
    BY <2>2, <2>3, AddCondFacts DEF TypeOK
  <2>5. \A q \in PathIds : q # p => mem'[q] = mem[q] /\ pending'[q] = pending[q]
    BY <2>2 DEF TypeOK
  <2>6. pending'[p] = Inputs
    BY <2>2 DEF TypeOK
  <2> QED
    BY <1>0, <2>1, <2>2, <2>4, <2>5, <2>6
<1>4. CASE Return(p) \/ Stop(p)
  BY <1>4 DEF Return, Stop, End
<1> QED
  BY <1>1, <1>2, <1>3, <1>4

LEMMA ForkSplits ==
    ASSUME TypeOK, NEW p \in PathIds, NEW c \in Conditions, Fork(p, c),
           NEW n, n = created + 1
    PROVE  /\ Inhabitants(p)' = Inhabitants(p) \cap c
           /\ Inhabitants(n)' = Inhabitants(p) \ c
           /\ \A q \in queue : q # p => Inhabitants(q)' = Inhabitants(q)
<1> USE DEF Inhabitants
<1>1. \A r \in queue : r \in PathIds /\ mem[r].path \subseteq Inputs
  BY QueueIds DEF TypeOK, Memories, Conditions
<1>2. mem'[n].path = mem[p].path /\ pending'[n] = Inputs \ c
  BY ForkEffect, CloneFacts DEF TypeOK
<1>3. mem'[p] = mem[p] /\ pending'[p] = c /\ pending[p] = Inputs /\ p \in queue
  BY ForkEffect
<1>4. \A q \in queue : q # p => mem'[q] = mem[q] /\ pending'[q] = pending[q]
  BY <1>1, ForkEffect
<1> QED
  BY <1>1, <1>2, <1>3, <1>4

(***************************************************************************)
(* Two live paths share no inhabitant.                                     *)
(***************************************************************************)
LEMMA PathsExclusiveNext ==
    TypeOK /\ SolverKnowsPath /\ PathsExclusive /\ [Next]_vars => PathsExclusive'
<1> SUFFICES ASSUME TypeOK, SolverKnowsPath, PathsExclusive, [Next]_vars,
                    NEW q \in queue', NEW r \in queue', q # r
             PROVE  Inhabitants(q)' \cap Inhabitants(r)' = {}
  BY DEF PathsExclusive
<1>1. ASSUME queue' \subseteq queue,
             \A s \in queue' : Inhabitants(s)' \subseteq Inhabitants(s)
      PROVE  Inhabitants(q)' \cap Inhabitants(r)' = {}
  BY <1>1 DEF PathsExclusive
<1>2. ASSUME NEW p \in PathIds, NEW c \in Conditions, Fork(p, c)
      PROVE  Inhabitants(q)' \cap Inhabitants(r)' = {}
  <2>1. PICK n : n = created + 1
    OBVIOUS
  <2>2. /\ p \in queue /\ n \notin queue
        /\ queue' = queue \cup {n}
    BY <1>2, <2>1, ForkEffect
  <2>3. /\ Inhabitants(p)' = Inhabitants(p) \cap c
        /\ Inhabitants(n)' = Inhabitants(p) \ c
        /\ \A s \in queue : s # p => Inhabitants(s)' = Inhabitants(s)
    BY <1>2, <2>1, ForkSplits
  <2>4. \A s \in queue : s # p => Inhabitants(s) \cap Inhabitants(p) = {}
    BY <2>2 DEF PathsExclusive
  <2>5. CASE q = n
    BY <2>2, <2>3, <2>4, <2>5
  <2>6. CASE r = n
    BY <2>2, <2>3, <2>4, <2>6
  <2>7. CASE q \in queue /\ r \in queue
    BY <2>3, <2>7 DEF PathsExclusive
  <2> QED
    BY <2>2, <2>5, <2>6, <2>7
<1>3. CASE Timeout \/ Crash
  BY <1>3 DEF Timeout, Crash
<1>4. CASE Finish \/ Terminated \/ UNCHANGED vars
  BY <1>1, <1>4 DEF Finish, Terminated, vars, Inhabitants
<1>5. ASSUME NEW p \in PathIds, NEW c \in Conditions,
             CheckError(p, c) \/ Assume(p, c) \/ StartBranch(p) \/ Return(p) \/ Stop(p)
      PROVE  Inhabitants(q)' \cap Inhabitants(r)' = {}
  BY <1>1, <1>5, InhabitantsShrink
<1>6. Conditions # {}
  BY DEF Conditions
<1> QED
  BY <1>2, <1>3, <1>4, <1>5, <1>6 DEF Next, Step

-----------------------------------------------------------------------------

(***************************************************************************)
(* What the end of a path adds to the results.                             *)
(***************************************************************************)
LEMMA ReturnEffect ==
    ASSUME TypeOK, NEW p \in PathIds, Return(p)
    PROVE  LET ret == ResultOf("return", FullPathCond(mem[p])) IN
           /\ p \in queue /\ queue' = queue \ {p}
           /\ UNCHANGED <<mem, pending, dropped, phase>>
           /\ results' = results \cup ErrorsOf(mem[p]) \cup {ret}
           /\ ret.cond = FullPathCond(mem[p])
           /\ ret.cond \subseteq Inhabitants(p)
<1>1. mem[p].path \subseteq Inputs /\ pending[p] = Inputs
  BY DEF TypeOK, Memories, Conditions, Return
<1> QED
  BY <1>1 DEF Return, Running, End, ResultOf, FullPathCond, Inhabitants

\* The returns collected so far, apart from the one a step adds.
LEMMA NewReturns ==
    ASSUME TypeOK, SolverKnowsPath, [Next]_vars, NEW r \in Returns', r \notin Returns
    PROVE  \E p \in PathIds :
             Return(p) /\ r = ResultOf("return", FullPathCond(mem[p]))
<1> USE DEF Returns
<1>0. \A p \in PathIds : \A e \in ErrorsOf(mem[p]) : e.kind # "return"
  BY ErrorsOfFacts DEF TypeOK
<1>1. ASSUME NEW p \in PathIds, NEW c \in Conditions, CheckError(p, c)
      PROVE  FALSE
  <2>1. \A e \in ErrorsOf(mem'[p]) : e.kind # "return"
    BY <1>1, CheckErrorEffect, ErrorsOfFacts
  <2> QED
    BY <1>1, <2>1, CheckErrorEffect
<1>2. ASSUME NEW p \in PathIds, NEW c \in Conditions,
             Assume(p, c) \/ Fork(p, c) \/ StartBranch(p)
      PROVE  FALSE
  BY <1>2 DEF Assume, Fork, StartBranch
<1>3. ASSUME NEW p \in PathIds, Stop(p)
      PROVE  FALSE
  BY <1>0, <1>3 DEF Stop, End
<1>4. CASE Timeout
  <2>1. \A p \in queue : p \in PathIds
    BY QueueIds
  <2> QED
    BY <1>0, <1>4, <2>1 DEF Timeout
<1>5. CASE Crash \/ Finish \/ Terminated \/ UNCHANGED vars
  BY <1>5 DEF Crash, Finish, Terminated, vars
<1>6. ASSUME NEW p \in PathIds, Return(p)
      PROVE  r = ResultOf("return", FullPathCond(mem[p]))
  BY <1>0, <1>6, ReturnEffect
<1>7. Conditions # {}
  BY DEF Conditions
<1>8. CASE \E p \in PathIds : Step(p)
  BY <1>1, <1>2, <1>3, <1>6, <1>7, <1>8 DEF Step
<1> QED
  BY <1>4, <1>5, <1>8 DEF Next

(***************************************************************************)
(* The condition of a return meets no live path and no other return.       *)
(***************************************************************************)
LEMMA ReturnsExclusiveNext ==
    /\ TypeOK /\ SolverKnowsPath /\ PathsExclusive /\ ReturnsExclusive
    /\ [Next]_vars
    => ReturnsExclusive'
<1> SUFFICES ASSUME TypeOK, SolverKnowsPath, PathsExclusive, ReturnsExclusive,
                    [Next]_vars, NEW r \in Returns'
             PROVE  /\ \A q \in queue' : r.cond \cap Inhabitants(q)' = {}
                    /\ \A s \in Returns' : r # s => r.cond \cap s.cond = {}
  BY DEF ReturnsExclusive
<1>1. ASSUME NEW t \in Returns
      PROVE  \A q \in queue' : t.cond \cap Inhabitants(q)' = {}
  <2>1. \A q \in queue : t.cond \cap Inhabitants(q) = {}
    BY <1>1 DEF ReturnsExclusive
  <2>2. ASSUME NEW p \in PathIds, NEW c \in Conditions, Fork(p, c)
        PROVE  \A q \in queue' : t.cond \cap Inhabitants(q)' = {}
    <3>1. PICK n : n = created + 1
      OBVIOUS
    <3>2. p \in queue /\ queue' = queue \cup {n}
      BY <2>2, <3>1, ForkEffect
    <3>3. /\ Inhabitants(p)' = Inhabitants(p) \cap c
          /\ Inhabitants(n)' = Inhabitants(p) \ c
          /\ \A s \in queue : s # p => Inhabitants(s)' = Inhabitants(s)
      BY <2>2, <3>1, ForkSplits
    <3> QED
      BY <2>1, <3>2, <3>3
  <2>3. ASSUME NEW p \in PathIds, NEW c \in Conditions,
               CheckError(p, c) \/ Assume(p, c) \/ StartBranch(p) \/ Return(p) \/ Stop(p)
        PROVE  \A q \in queue' : t.cond \cap Inhabitants(q)' = {}
    BY <2>1, <2>3, InhabitantsShrink
  <2>4. CASE Timeout \/ Crash
    BY <2>4 DEF Timeout, Crash
  <2>5. CASE Finish \/ Terminated \/ UNCHANGED vars
    BY <2>1, <2>5 DEF Finish, Terminated, vars, Inhabitants
  <2>6. Conditions # {}
    BY DEF Conditions
  <2> QED
    BY <2>2, <2>3, <2>4, <2>5, <2>6 DEF Next, Step
<1>2. ASSUME NEW t \in Returns', t \notin Returns
      PROVE  /\ \A q \in queue' : t.cond \cap Inhabitants(q)' = {}
             /\ \A s \in Returns : s.cond \cap t.cond = {}
             /\ \A s \in Returns' : s \in Returns \/ s = t
  <2>1. PICK p \in PathIds : Return(p) /\ t = ResultOf("return", FullPathCond(mem[p]))
    BY <1>2, NewReturns
  <2>2. /\ p \in queue /\ queue' = queue \ {p}
        /\ UNCHANGED <<mem, pending>>
        /\ t.cond \subseteq Inhabitants(p)
    BY <2>1, ReturnEffect
  <2>3. \A q \in queue' : Inhabitants(q)' = Inhabitants(q)
    BY <2>2 DEF Inhabitants
  <2>4. \A q \in queue' : Inhabitants(p) \cap Inhabitants(q) = {}
    BY <2>2 DEF PathsExclusive
  <2>5. \A s \in Returns : s.cond \cap Inhabitants(p) = {}
    BY <2>2 DEF ReturnsExclusive
  <2>6. ASSUME NEW s \in Returns', s \notin Returns
        PROVE  s = t
    <3>1. results' = results \cup ErrorsOf(mem[p]) \cup {t}
      BY <2>1, ReturnEffect
    <3>2. \A e \in ErrorsOf(mem[p]) : e.kind # "return"
      BY ErrorsOfFacts DEF TypeOK
    <3> QED
      BY <2>6, <3>1, <3>2 DEF Returns
  <2> QED
    BY <2>2, <2>3, <2>4, <2>5, <2>6
<1>3. CASE r \in Returns
  <2>1. \A s \in Returns : r # s => r.cond \cap s.cond = {}
    BY <1>3 DEF ReturnsExclusive
  <2> QED
    BY <1>1, <1>2, <1>3, <2>1
<1>4. CASE r \notin Returns
  BY <1>2, <1>4
<1> QED
  BY <1>3, <1>4

-----------------------------------------------------------------------------

(***************************************************************************)
(* An input that is accounted for stays accounted for.                     *)
(***************************************************************************)
Accounted(i) == i \in dropped \/ Alive(i) \/ Failed(i) \/ Reported(i)

LEMMA CheckErrorAccounts ==
    ASSUME TypeOK, SolverKnowsPath, NEW p \in PathIds, NEW c \in Conditions,
           CheckError(p, c), NEW i \in Inputs, Accounted(i)
    PROVE  Accounted(i)'
<1> USE DEF Accounted
<1>0. \A q \in queue : q \in PathIds /\ (q # p => mem'[q] = mem[q])
  BY QueueIds, CheckErrorEffect
<1>1. pending' = pending /\ dropped' = dropped /\ results \subseteq results'
  BY CheckErrorEffect
<1>2. \A q \in queue : q # p => q \in queue'
  BY CheckErrorEffect
<1>3. ASSUME NEW e \in mem'[p].errors, i \in e
      PROVE  Failed(i)' \/ Reported(i)'
  <2>1. CASE queue' = queue
    BY <1>3, <2>1, CheckErrorEffect DEF Failed
  <2>2. CASE results' = results \cup ErrorsOf(mem'[p])
    <3>1. PICK r \in ErrorsOf(mem'[p]) : r.cond = e
      BY CheckErrorEffect, ErrorsOfFacts
    <3> QED
      BY <1>3, <2>2, <3>1 DEF Reported
  <2> QED
    BY <2>1, <2>2, CheckErrorEffect
<1>4. CASE i \in dropped \/ Reported(i)
  BY <1>1, <1>4 DEF Reported
<1>5. CASE Failed(i)
  <2>1. PICK q \in queue : \E e \in mem[q].errors : i \in e
    BY <1>5 DEF Failed
  <2>2. CASE q = p
    BY <1>3, <2>1, <2>2, CheckErrorEffect
  <2>3. CASE q # p
    BY <1>0, <1>2, <2>1, <2>3 DEF Failed
  <2> QED
    BY <2>2, <2>3
<1>6. CASE Alive(i)
  <2>1. PICK q \in queue : i \in mem[q].asserted \cap pending[q]
    BY <1>6 DEF Alive
  <2>2. CASE q # p
    BY <1>0, <1>1, <1>2, <2>1, <2>2 DEF Alive
  <2>3. CASE q = p /\ i \in c
    <3>1. \E e \in mem'[p].errors : i \in e
      BY <2>1, <2>3, CheckErrorEffect
    <3> QED
      BY <1>3, <3>1
  <2>4. CASE q = p /\ i \notin c
    <3>1. i \in mem'[p].asserted
      BY <2>1, <2>4, CheckErrorEffect
    <3>2. queue' = queue
      BY <3>1, CheckErrorEffect
    <3> QED
      BY <1>1, <2>1, <2>4, <3>1, <3>2 DEF Alive
  <2> QED
    BY <2>2, <2>3, <2>4
<1> QED
  BY <1>4, <1>5, <1>6

\* The end of p by Return or Stop accounts for the inputs of p.
LEMMA EndAccounts ==
    ASSUME TypeOK, SolverKnowsPath, NEW p \in PathIds, Return(p) \/ Stop(p),
           NEW i \in Inputs, Accounted(i)
    PROVE  Accounted(i)'
<1> USE DEF Accounted
<1>1. /\ UNCHANGED <<mem, pending, dropped>>
      /\ queue' = queue \ {p}
      /\ results \subseteq results'
      /\ ErrorsOf(mem[p]) \subseteq results'
  BY DEF Return, Stop, End
<1>2. CASE i \in dropped \/ Reported(i)
  BY <1>1, <1>2 DEF Reported
<1>3. CASE Failed(i)
  <2>1. PICK q \in queue : \E e \in mem[q].errors : i \in e
    BY <1>3 DEF Failed
  <2>2. CASE q = p
    <3>1. PICK e \in mem[p].errors : i \in e
      BY <2>1, <2>2
    <3>2. PICK r \in ErrorsOf(mem[p]) : r.cond = e
      BY ErrorsOfFacts DEF TypeOK
    <3> QED
      BY <1>1, <3>1, <3>2 DEF Reported
  <2>3. CASE q # p
    BY <1>1, <2>1, <2>3 DEF Failed
  <2> QED
    BY <2>2, <2>3
<1>4. CASE Alive(i)
  <2>1. PICK q \in queue : i \in mem[q].asserted \cap pending[q]
    BY <1>4 DEF Alive
  <2>2. CASE q # p
    BY <1>1, <2>1, <2>2 DEF Alive
  <2>3. CASE q = p /\ Return(p)
    <3>1. i \in FullPathCond(mem[p])
      BY <2>1, <2>3 DEF SolverKnowsPath
    <3>2. /\ ResultOf("return", FullPathCond(mem[p])) \in results'
          /\ ResultOf("return", FullPathCond(mem[p])).cond = FullPathCond(mem[p])
      BY <2>3, ReturnEffect
    <3> QED
      BY <3>1, <3>2 DEF Reported
  <2>4. CASE q = p /\ Stop(p)
    BY <2>1, <2>4 DEF Stop
  <2> QED
    BY <2>2, <2>3, <2>4
<1> QED
  BY <1>2, <1>3, <1>4

LEMMA ForkAccounts ==
    ASSUME TypeOK, SolverKnowsPath, NEW p \in PathIds, NEW c \in Conditions,
           Fork(p, c), NEW i \in Inputs, Accounted(i)
    PROVE  Accounted(i)'
<1> USE DEF Accounted
<1>1. PICK n : n = created + 1
  OBVIOUS
<1>2. /\ p \in queue /\ n # p /\ n \notin queue
      /\ queue' = queue \cup {n}
      /\ UNCHANGED <<results, dropped>>
      /\ mem'[n].asserted = mem[p].path /\ pending'[n] = Inputs \ c
      /\ mem'[p] = mem[p] /\ pending'[p] = c
  BY <1>1, ForkEffect, CloneFacts DEF TypeOK
<1>3. \A q \in queue : mem'[q] = mem[q] /\ (q # p => pending'[q] = pending[q])
  BY <1>1, <1>2, ForkEffect, QueueIds
<1>4. mem[p].asserted \subseteq mem[p].path
  BY <1>2 DEF SolverKnowsPath, FullPathCond
<1>5. CASE i \in dropped \/ Reported(i)
  BY <1>2, <1>5 DEF Reported
<1>6. CASE Failed(i)
  BY <1>2, <1>3, <1>6 DEF Failed
<1>7. CASE Alive(i)
  <2>1. PICK q \in queue : i \in mem[q].asserted \cap pending[q]
    BY <1>7 DEF Alive
  <2>2. CASE q # p
    BY <1>2, <1>3, <2>1, <2>2 DEF Alive
  <2>3. CASE q = p /\ i \in c
    BY <1>2, <2>1, <2>3 DEF Alive
  <2>4. CASE q = p /\ i \notin c
    BY <1>2, <1>4, <2>1, <2>4 DEF Alive
  <2> QED
    BY <2>2, <2>3, <2>4
<1> QED
  BY <1>5, <1>6, <1>7

\* A condition, of assume() or of a branch, is added to the path p.
LEMMA ConstrainAccounts ==
    ASSUME TypeOK, NEW p \in PathIds, NEW c \in Conditions,
           Assume(p, c) \/ StartBranch(p), NEW i \in Inputs, Accounted(i)
    PROVE  Accounted(i)'
<1> USE DEF Accounted
<1>0. PICK d \in Conditions : mem' = [mem EXCEPT ![p] = AddCond(mem[p], d)]
  BY DEF Assume, StartBranch, TypeOK
<1>1. /\ queue' = queue /\ results' = results /\ dropped \subseteq dropped'
      /\ \A q \in PathIds : mem'[q].errors = mem[q].errors
      /\ \A q \in PathIds : q # p => mem'[q] = mem[q] /\ pending'[q] = pending[q]
  <2>1. mem'[p].errors = mem[p].errors
    BY <1>0, AddCondFacts DEF TypeOK
  <2>2. \A q \in PathIds : q # p => mem'[q] = mem[q] /\ pending'[q] = pending[q]
    BY <1>0 DEF Assume, StartBranch, TypeOK
  <2>3. queue' = queue /\ results' = results /\ dropped \subseteq dropped'
    BY DEF Assume, StartBranch
  <2> QED
    BY <2>1, <2>2, <2>3
<1>2. \A q \in queue : q \in PathIds
  BY QueueIds
<1>3. CASE i \in dropped \/ Reported(i)
  BY <1>1, <1>3 DEF Reported
<1>4. CASE Failed(i)
  BY <1>1, <1>2, <1>4 DEF Failed
<1>5. CASE Alive(i)
  <2>1. PICK q \in queue : i \in mem[q].asserted \cap pending[q]
    BY <1>5 DEF Alive
  <2>2. CASE q # p
    BY <1>1, <1>2, <2>1, <2>2 DEF Alive
  <2>3. CASE q = p /\ Assume(p, c)
    <3>1. /\ mem'[p].asserted = mem[p].asserted \cap c
          /\ pending' = pending
          /\ dropped' = dropped \cup (mem[p].asserted \ c)
      BY <2>3, AddCondFacts DEF Assume, TypeOK
    <3> QED
      BY <1>1, <2>1, <2>3, <3>1 DEF Alive
  <2>4. CASE q = p /\ StartBranch(p)
    <3>1. /\ mem'[p].asserted = mem[p].asserted \cap pending[p]
          /\ pending'[p] = Inputs
      BY <2>4, AddCondFacts DEF StartBranch, TypeOK
    <3> QED
      BY <1>1, <2>1, <2>4, <3>1 DEF Alive
  <2> QED
    BY <2>2, <2>3, <2>4
<1> QED
  BY <1>3, <1>4, <1>5

LEMMA NoInputLostNext ==
    TypeOK /\ SolverKnowsPath /\ NoInputLost /\ [Next]_vars => NoInputLost'
<1> SUFFICES ASSUME TypeOK, SolverKnowsPath, NoInputLost, [Next]_vars,
                    phase' \in {"run", "done"}, NEW i \in Inputs
             PROVE  Accounted(i)'
  BY DEF NoInputLost, Accounted
<1>1. CASE UNCHANGED vars
  BY <1>1 DEF vars, NoInputLost, Accounted, Alive, Failed, Reported
<1>2. CASE Timeout \/ Crash
  BY <1>2 DEF Timeout, Crash
<1>3. CASE Finish \/ Terminated
  BY <1>1, <1>3
     DEF Finish, Terminated, NoInputLost, Accounted, Alive, Failed, Reported
<1>4. ASSUME NEW p \in PathIds, Step(p)
      PROVE  Accounted(i)'
  <2>1. Accounted(i)
    BY <1>4 DEF Step, CheckError, Assume, Fork, StartBranch, Return, Stop,
                Running, NoInputLost, Accounted
  <2>2. Conditions # {}
    BY DEF Conditions
  <2> QED
    BY <1>4, <2>1, <2>2, CheckErrorAccounts, EndAccounts, ForkAccounts,
       ConstrainAccounts DEF Step
<1> QED
  BY <1>1, <1>2, <1>3, <1>4 DEF Next

-----------------------------------------------------------------------------

(***************************************************************************)
(* The inductive invariant.  Each part needs those before it: that a path  *)
(* keeps the inputs the solver allows is what makes an UNSAT answer and a  *)
(* return account for them, and that paths are exclusive is what makes the *)
(* returns exclusive.                                                      *)
(***************************************************************************)
IInv ==
    /\ TypeOK
    /\ SolverKnowsPath
    /\ PathsExclusive
    /\ ReturnsExclusive
    /\ NoInputLost

LEMMA IInvInit == Init => IInv
<1> SUFFICES ASSUME Init PROVE IInv
  OBVIOUS
<1>1. 1 \in PathIds
  BY MaxPathsAssumption DEF PathIds
<1>2. mem[1].asserted = Inputs /\ pending[1] = Inputs
  BY <1>1, NewMemoryFacts DEF Init
<1>3. PathsExclusive /\ ReturnsExclusive
  BY DEF Init, PathsExclusive, ReturnsExclusive, Returns
<1>4. NoInputLost
  BY <1>2 DEF Init, NoInputLost, Alive
<1> QED
  BY <1>3, <1>4, TypeInit, SolverKnowsPathInit DEF IInv

LEMMA IInvNext == IInv /\ [Next]_vars => IInv'
BY TypeNext, SolverKnowsPathNext, PathsExclusiveNext, ReturnsExclusiveNext,
   NoInputLostNext DEF IInv

LEMMA Invariance == Spec => []IInv
BY IInvInit, IInvNext, PTL DEF Spec

(***************************************************************************)
(* Two states of the queue never explore the same input, whatever          *)
(* conditions the program branches on and however the clones are timed.    *)
(***************************************************************************)
THEOREM PathsNeverMeet == Spec => []PathsExclusive
<1>1. IInv => PathsExclusive
  BY DEF IInv
<1> QED
  BY <1>1, Invariance, PTL

(***************************************************************************)
(* The conditions of the SymbolicReturns of a function are exclusive, and  *)
(* an input that returned is explored no more.                             *)
(***************************************************************************)
THEOREM ReturnsNeverMeet == Spec => []ReturnsExclusive
<1>1. IInv => ReturnsExclusive
  BY DEF IInv
<1> QED
  BY <1>1, Invariance, PTL

(***************************************************************************)
(* An exploration that was not cut short accounts for every input that the *)
(* program's assume() lets through.                                        *)
(***************************************************************************)
THEOREM EveryInputAccounted == Spec => []NoInputLost
<1>1. IInv => NoInputLost
  BY DEF IInv
<1> QED
  BY <1>1, Invariance, PTL

-----------------------------------------------------------------------------

(***************************************************************************)
(* A found error is never given up, except by a crash.                     *)
(***************************************************************************)
LEMMA ErrorsKeptStep ==
    TypeOK /\ SolverKnowsPath /\ [Next]_vars /\ phase' # "crashed"
    => FoundErrors \subseteq FoundErrors'
<1> SUFFICES ASSUME TypeOK, SolverKnowsPath, [Next]_vars, phase' # "crashed",
                    NEW r \in FoundErrors
             PROVE  r \in FoundErrors'
  OBVIOUS
<1>0. \A p \in queue : p \in PathIds /\ mem[p] \in Memories
  BY QueueIds DEF TypeOK
<1>a. \/ r \in results /\ r.kind = "error"
      \/ \E q \in queue : r \in ErrorsOf(mem[q])
  BY Zenon DEF FoundErrors
<1>1. r.kind = "error"
  BY <1>0, <1>a, ErrorsOfFacts
<1>2. ASSUME r \in results'
      PROVE  r \in FoundErrors'
  BY <1>1, <1>2, Zenon DEF FoundErrors
<1>3. ASSUME NEW q \in queue', r \in ErrorsOf(mem'[q])
      PROVE  r \in FoundErrors'
  BY <1>3, Zenon DEF FoundErrors
<1>4. CASE r \in results
  <2>1. results \subseteq results'
    BY DEF Next, Step, CheckError, Assume, Fork, StartBranch, Return, Stop,
           Timeout, Crash, Finish, Terminated, End, vars
  <2> QED
    BY <1>2, <1>4, <2>1
<1>5. ASSUME NEW q \in queue, r \in ErrorsOf(mem[q])
      PROVE  r \in FoundErrors'
  <2>1. ASSUME NEW m, mem[q].errors \subseteq m.errors
        PROVE  r \in ErrorsOf(m)
    BY <1>5, <2>1 DEF ErrorsOf
  <2>2. ASSUME NEW p \in PathIds, NEW c \in Conditions, CheckError(p, c)
        PROVE  r \in FoundErrors'
    <3>1. mem[q].errors \subseteq mem'[q].errors
      BY <1>0, <2>2, CheckErrorEffect
    <3>2. q \in queue' \/ ErrorsOf(mem'[q]) \subseteq results'
      BY <2>2, CheckErrorEffect
    <3> QED
      BY <1>2, <1>3, <2>1, <3>1, <3>2
  <2>3. ASSUME NEW p \in PathIds, NEW c \in Conditions, Assume(p, c) \/ StartBranch(p)
        PROVE  r \in FoundErrors'
    <3>1. PICK d \in Conditions : mem' = [mem EXCEPT ![p] = AddCond(mem[p], d)]
      BY <2>3 DEF Assume, StartBranch, TypeOK
    <3>2. mem'[q].errors = mem[q].errors
      <4>1. CASE q = p
        BY <1>0, <3>1, <4>1, AddCondFacts DEF TypeOK
      <4>2. CASE q # p
        BY <1>0, <3>1, <4>2 DEF TypeOK
      <4> QED
        BY <4>1, <4>2
    <3>3. q \in queue'
      BY <2>3 DEF Assume, StartBranch
    <3> QED
      BY <1>3, <2>1, <3>2, <3>3
  <2>4. ASSUME NEW p \in PathIds, NEW c \in Conditions, Fork(p, c)
        PROVE  r \in FoundErrors'
    <3>1. q \in queue' /\ mem'[q] = mem[q]
      BY <1>0, <2>4, ForkEffect
    <3> QED
      BY <1>3, <1>5, <3>1
  <2>5. ASSUME NEW p \in PathIds, Return(p) \/ Stop(p)
        PROVE  r \in FoundErrors'
    <3>1. mem' = mem /\ (q \in queue' \/ ErrorsOf(mem[q]) \subseteq results')
      BY <2>5 DEF Return, Stop, End
    <3> QED
      BY <1>2, <1>3, <1>5, <3>1
  <2>6. CASE Timeout
    BY <1>2, <1>5, <2>6 DEF Timeout
  <2>7. CASE Finish \/ Terminated \/ UNCHANGED vars
    BY <1>3, <1>5, <2>7 DEF Finish, Terminated, vars
  <2>8. ~ Crash
    BY DEF Crash
  <2>9. CASE \E p \in PathIds : Step(p)
    <3>1. Conditions # {}
      BY DEF Conditions
    <3> QED
      BY <2>2, <2>3, <2>4, <2>5, <2>9, <3>1 DEF Step
  <2> QED
    BY <2>6, <2>7, <2>8, <2>9 DEF Next
<1> QED
  BY <1>a, <1>4, <1>5

(***************************************************************************)
(* No step but a crash, and in particular no timeout, loses a found error. *)
(***************************************************************************)
THEOREM FoundErrorsStay == Spec => ErrorsKept
<1>1. IInv => TypeOK /\ SolverKnowsPath
  BY DEF IInv
<1> QED
  BY <1>1, Invariance, ErrorsKeptStep, PTL DEF Spec, ErrorsKept
=============================================================================
