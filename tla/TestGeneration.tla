---------------------------- MODULE TestGeneration ----------------------------
(***************************************************************************)
(* TestGenerator.generateTests: which of the results of a function become  *)
(* test cases, and with which inputs.                                      *)
(*                                                                         *)
(* A first pass over the results wants every terminal node covered, a      *)
(* second every node.  The inputs of a test are a model of the condition   *)
(* of its result: the first one the solver gives, or a simpler one that    *)
(* evolutionaryAlgorithm finds, by adding constraints on single variables  *)
(* as assumptions.                                                         *)
(*                                                                         *)
(* The loops of the search look at the clock, and time may be up whenever  *)
(* one does; the solver may give no answer.  testCreature has no such way  *)
(* out: a call that was slow calls itself until the solver finds a model   *)
(* or gives no answer, or until the stack is full.                         *)
(***************************************************************************)
EXTENDS Integers, FiniteSets, SequencesExt

CONSTANTS Functions,    \* Functions[f]: nodes and terminals of f, its
                        \* variables, and its results, as visited, cond and
                        \* the variables that occur in cond
          Values,       \* of a variable
          Constraints,  \* what simpleConstraintGenerator makes: sets of Values
          Ugliness,     \* evaluateModelSimplicity, of the values of a model
          PopulationSize, MaxEpochs, NumberOfChildren,
          StackDepth    \* calls of testCreature within each other

ASSUME SizesAssumption == /\ PopulationSize \in Nat \ {0}
                          /\ MaxEpochs \in Nat
                          /\ NumberOfChildren \in Nat
                          /\ StackDepth \in Nat \ {0}

\* The models of a condition are those of the values of the variables in it.
ASSUME FunctionsAssumption ==
    \A g \in DOMAIN Functions :
        /\ Functions[g].results \in Seq(Range(Functions[g].results))
        /\ Functions[g].terminals \subseteq Functions[g].nodes
        /\ \A r \in Range(Functions[g].results) :
              LET models == [Functions[g].variables -> Values]
              IN  /\ IsFiniteSet(r.visited)
                  /\ r.reads \subseteq Functions[g].variables
                  /\ r.cond \subseteq models
                  /\ \A m \in r.cond, n \in models :
                        (\A v \in r.reads : n[v] = m[v]) => n \in r.cond

ASSUME UglinessAssumption ==
    \A g \in DOMAIN Functions :
        \A m \in [Functions[g].variables -> Values] : Ugliness[m] \in Int

VARIABLES f,          \* the function (never changes)
          step,       \* what generateTests does next
          pass,       \* its first or its second loop over the results
          next,       \* the index of the result
          remainingNodes, remainingTerminals, tests,
          firstModel, population,
          newcomers,  \* the result of generateInitialPopulation in an epoch
          parents, children,
          mutations,  \* made of the first of the parents
          epoch, equalTimes, bestFitness,
          tested,     \* <<the creature that testCreature is called for>>
          calls,      \* of testCreature on the stack
          failed      \* results that generateTest gave null for in the
                      \* second loop (auxiliary)

\* The variables of one generateTest, which start afresh in the next.
generation == <<population, newcomers, parents, children, mutations>>
progress == <<epoch, equalTimes, bestFitness>>
call == <<tested, calls>>
evolution == <<generation, progress, call>>
vars == <<f, step, pass, next, remainingNodes, remainingTerminals, tests,
          firstModel, evolution, failed>>

Variables == Functions[f].variables
Models == [Variables -> Values]

\* sortedBy, which keeps the order of equals.
SortedBy(q, key) ==
    LET First(i) == {j \in DOMAIN q : key[j] < key[i] \/ (key[j] = key[i] /\ j < i)}
    IN  [n \in DOMAIN q |-> q[CHOOSE i \in DOMAIN q : Cardinality(First(i)) = n - 1]]

\* sortedBy { -it.visitedNodes.size }
Results == LET q == Functions[f].results
           IN  SortedBy(q, [i \in DOMAIN q |-> - Cardinality(q[i].visited)])
Result == Results[next]

Remaining == IF pass = 1 THEN remainingTerminals ELSE remainingNodes

-----------------------------------------------------------------------------

(* Creatures *)

\* A creature has a list of constraints for each variable.
NewCreatures == [Variables -> {{c} : c \in Constraints}]

Meets(model, creature) == \A v \in Variables : \A c \in creature[v] : model[v] \in c

\* checkWithAssumptions, with the condition of the result asserted.
ModelsOf(creature) == {m \in Models : m \in Result.cond /\ Meets(m, creature)}

Fitness(creature) == Ugliness[creature.model]

\* Mutant: all constraints of a variable may go.
MutatedAnyway(creature) ==
    {m \in [Variables -> SUBSET Constraints] :
        \A v \in Variables :
            \/ m[v] \subseteq creature[v]
            \/ \E c \in Constraints : c \in m[v] /\ m[v] \ {c} \subseteq creature[v]}

\* mutateCreature: constraints are removed, and one is added, in any case if
\* none is left.
Mutated(creature) ==
    {m \in MutatedAnyway(creature) : \A v \in Variables : m[v] # {}}

\* What is left of a creature without the constraints of the core; a variable
\* that has none left gets a new one.
Fixed(creature, core) ==
    {fixed \in [Variables -> SUBSET Constraints] :
        \A v \in Variables :
            IF creature[v] \subseteq core[v]
            THEN \E c \in Constraints : fixed[v] = {c}
            ELSE fixed[v] = creature[v] \ core[v]}

\* unsatCore: constraints of the creature that contradict the condition.
Cores(creature) ==
    {core \in [Variables -> SUBSET Constraints] :
        /\ \A v \in Variables : core[v] \subseteq creature[v]
        /\ ModelsOf(core) = {}}

\* A model has values for the variables that occur in what was asserted.
Occur(c) == Result.reads \cup {v \in Variables : c[v] # {}}

Found(c, m) == [constraints |-> c, model |-> [v \in Occur(c) |-> m[v]]]

-----------------------------------------------------------------------------

Init ==
    /\ f \in DOMAIN Functions
    /\ step = "select" /\ pass = 1 /\ next = 1
    /\ remainingNodes = Functions[f].nodes
    /\ remainingTerminals = Functions[f].terminals
    /\ tests = <<>>
    /\ firstModel = <<>> /\ population = <<>> /\ newcomers = <<>>
    /\ parents = <<>> /\ children = <<>> /\ mutations = 0
    /\ tested = <<>> /\ calls = 0
    /\ epoch = 0 /\ equalTimes = -1 /\ bestFitness = 0
    /\ failed = {}

Bookkeeping == <<remainingNodes, remainingTerminals, tests>>

\* The loop goes on with the next result if this one adds nothing.
SkipResult ==
    /\ step = "select"
    /\ Remaining # {}
    /\ next <= Len(Results)
    /\ Remaining \cap Result.visited = {}
    /\ next' = next + 1
    /\ UNCHANGED <<f, step, pass, Bookkeeping, firstModel, evolution, failed>>

SelectResult ==
    /\ step = "select"
    /\ next <= Len(Results)
    /\ Remaining \cap Result.visited # {}
    /\ step' = "check"
    /\ UNCHANGED <<f, pass, next, Bookkeeping, firstModel, evolution, failed>>

IsPassDone == Remaining = {} \/ next > Len(Results)

\* Mutant: the second loop goes on where the first one stopped.
EndPassInPlace ==
    /\ step = "select"
    /\ IsPassDone
    /\ IF pass = 1 THEN pass' = 2 /\ UNCHANGED <<step, next>>
                   ELSE step' = "done" /\ UNCHANGED <<pass, next>>
    /\ UNCHANGED <<f, Bookkeeping, firstModel, evolution, failed>>

EndPass ==
    /\ step = "select"
    /\ IsPassDone
    /\ IF pass = 1 THEN pass' = 2 /\ next' = 1 /\ UNCHANGED step
                   ELSE step' = "done" /\ UNCHANGED <<pass, next>>
    /\ UNCHANGED <<f, Bookkeeping, firstModel, evolution, failed>>

(* generateTest *)

\* Only the variables of the condition have values in the model.
Check ==
    /\ step = "check"
    /\ \E m \in Result.cond : firstModel' = [v \in Result.reads |-> m[v]]
    /\ step' = "populate"
    /\ UNCHANGED <<f, pass, next, Bookkeeping, evolution, failed>>

\* UNSAT, or no answer in time.
CheckFails ==
    /\ step = "check"
    /\ failed' = IF pass = 2 THEN failed \cup {Result} ELSE failed
    /\ next' = next + 1
    /\ step' = "select"
    /\ UNCHANGED <<f, pass, Bookkeeping, firstModel, evolution>>

\* generateInitialPopulation, for the first population and in every epoch.
HasRoom == \/ step = "populate" /\ Len(population) < PopulationSize
           \/ step = "newcomers" /\ Len(newcomers) < equalTimes

Call(creature) == tested' = <<creature>> /\ calls' = 1

Populate ==
    /\ tested = <<>>
    /\ HasRoom
    /\ \E creature \in NewCreatures : Call(creature)
    /\ UNCHANGED <<f, step, pass, next, Bookkeeping, firstModel, generation,
                   progress, failed>>

StopPopulating ==
    /\ tested = <<>>
    /\ step' = IF step = "newcomers" THEN "breed"
               ELSE IF population = <<>> THEN "end" ELSE "epoch"
    /\ bestFitness' = IF step = "populate" /\ population # <<>>
                      THEN Fitness(population[1]) ELSE bestFitness
    /\ parents' = IF step = "newcomers" THEN population \o newcomers ELSE parents
    /\ newcomers' = <<>>
    /\ UNCHANGED <<f, pass, next, Bookkeeping, firstModel, population,
                   children, mutations, epoch, equalTimes, call, failed>>

Populated == step \in {"populate", "newcomers"} /\ ~ HasRoom /\ StopPopulating

\* Mutant: the loop does not look at the clock.
PopulateForever == FALSE /\ StopPopulating

\* The clock ends the loop, however many creatures there are.
PopulateTimeout == step \in {"populate", "newcomers"} /\ StopPopulating

\* One round of the loop of evolutionaryAlgorithm, up to the new creatures.
Epoch ==
    LET equal == IF 10 * Fitness(population[1]) >= 9 * bestFitness
                 THEN equalTimes + 1 ELSE 0
    IN  /\ step = "epoch"
        /\ epoch <= MaxEpochs
        /\ bestFitness' = Fitness(population[1])
        /\ equalTimes' = equal
        /\ step' = IF equal = 3 THEN "end" ELSE "newcomers"
        /\ UNCHANGED <<f, pass, next, Bookkeeping, firstModel, generation,
                       epoch, call, failed>>

\* After the last round, or when time is up.
EndEvolution ==
    /\ step = "epoch"
    /\ step' = "end"
    /\ UNCHANGED <<f, pass, next, Bookkeeping, firstModel, evolution, failed>>

\* A child of the first of the parents is tested, numberOfChildren times.
Breed ==
    /\ step = "breed" /\ tested = <<>>
    /\ parents # <<>> /\ mutations < NumberOfChildren
    /\ \E creature \in Mutated(Head(parents).constraints) : Call(creature)
    /\ mutations' = mutations + 1
    /\ UNCHANGED <<f, step, pass, next, Bookkeeping, firstModel, population,
                   newcomers, parents, children, progress, failed>>

NextParent ==
    /\ step = "breed" /\ tested = <<>>
    /\ parents # <<>> /\ mutations = NumberOfChildren
    /\ parents' = Tail(parents)
    /\ mutations' = 0
    /\ UNCHANGED <<f, step, pass, next, Bookkeeping, firstModel, population,
                   newcomers, children, progress, call, failed>>

(* testCreature *)

IsCalled == step \in {"populate", "newcomers", "breed"} /\ tested # <<>>

\* All calls on the stack return what the last one does.
Return == tested' = <<>> /\ calls' = 0

\* SAT: the creature and its model are one more of those being made.
TestSat ==
    /\ IsCalled
    /\ \E m \in ModelsOf(tested[1]) :
         LET With(q, here) == IF step = here THEN Append(q, Found(tested[1], m)) ELSE q
         IN  /\ population' = With(population, "populate")
             /\ newcomers' = With(newcomers, "newcomers")
             /\ children' = With(children, "breed")
    /\ Return
    /\ UNCHANGED <<f, step, pass, next, Bookkeeping, firstModel, parents,
                   mutations, progress, failed>>

\* No answer; or UNSAT while there is time, which only a first call has.
TestFails ==
    /\ IsCalled
    /\ Return
    /\ UNCHANGED <<f, step, pass, next, Bookkeeping, firstModel, generation,
                   progress, failed>>

\* UNSAT, and the time is up: the call is made again for what is left of the
\* creature, with no time from now on.
Retry ==
    /\ IsCalled
    /\ ModelsOf(tested[1]) = {}
    /\ calls < StackDepth
    /\ \E core \in Cores(tested[1]) : \E fixed \in Fixed(tested[1], core) :
         tested' = <<fixed>>
    /\ calls' = calls + 1
    /\ UNCHANGED <<f, step, pass, next, Bookkeeping, firstModel, generation,
                   progress, failed>>

\* The call that does not fit on the stack: nothing catches the error.
Overflow ==
    /\ IsCalled
    /\ ModelsOf(tested[1]) = {}
    /\ calls = StackDepth
    /\ step' = "overflow"
    /\ Return
    /\ UNCHANGED <<f, pass, next, Bookkeeping, firstModel, generation,
                   progress, failed>>

\* sortedBy { it.second }.take(populationSize)
Simplest(creatures) ==
    LET sorted == SortedBy(creatures, [i \in DOMAIN creatures |-> Fitness(creatures[i])])
    IN  [i \in {k \in DOMAIN sorted : k <= PopulationSize} |-> sorted[i]]

Survivors == Simplest(children \o population)

EndEpoch ==
    /\ step = "breed" /\ tested = <<>>
    /\ parents = <<>>
    /\ population' = Survivors
    /\ epoch' = epoch + 1
    /\ step' = "epoch"
    /\ children' = <<>>
    /\ UNCHANGED <<f, pass, next, Bookkeeping, firstModel, newcomers, parents,
                   mutations, equalTimes, bestFitness, call, failed>>

Test == [result |-> Result, evolved |-> population # <<>>,
         model |-> IF population = <<>> THEN firstModel ELSE population[1].model]

\* Mutant: the nodes that are covered are not remembered.
UncoveredAsBefore == remainingNodes

Uncovered == remainingNodes \ Result.visited

AddTest ==
    /\ step = "end"
    /\ tests' = Append(tests, Test)
    /\ remainingNodes' = Uncovered
    /\ remainingTerminals' = remainingTerminals \ Result.visited
    /\ next' = next + 1
    /\ step' = "select"
    /\ firstModel' = <<>> /\ population' = <<>>
    /\ epoch' = 0 /\ equalTimes' = -1 /\ bestFitness' = 0
    /\ UNCHANGED <<f, pass, newcomers, parents, children, mutations, call, failed>>

Done == step \in {"done", "overflow"} /\ UNCHANGED vars

Next ==
    \/ SkipResult \/ SelectResult \/ EndPass
    \/ Check \/ CheckFails
    \/ Populate \/ Populated \/ PopulateTimeout
    \/ TestSat \/ TestFails \/ Retry \/ Overflow
    \/ Epoch \/ EndEvolution \/ Breed \/ NextParent \/ EndEpoch
    \/ AddTest
    \/ Done

Spec == Init /\ [][Next]_vars

\* The generator goes on until it ends.  Time passes while it does, so a loop
\* that looks at the clock again and again finds it past its timeout.
FairSpec == Spec /\ WF_vars(Next) /\ SF_vars(PopulateTimeout)

-----------------------------------------------------------------------------

Visited(k) == tests[k].result.visited
Covered(k) == UNION {Visited(j) : j \in 1 .. k}

(***************************************************************************)
(* The inputs of a test make the function take the path of its result:     *)
(* they meet its condition, whatever values the variables have that the    *)
(* test does not give; and evolved inputs give a value to every variable,  *)
(* so that the call in the generated code has all its arguments, although  *)
(* a model may lack variables and creatures lose constraints.              *)
(***************************************************************************)
TestsMeetCondition ==
    \A t \in Range(tests) :
        /\ \A m \in Models :
              (\A v \in DOMAIN t.model : m[v] = t.model[v]) => m \in t.result.cond
        /\ t.evolved => DOMAIN t.model = Variables

(***************************************************************************)
(* No test is made in vain: each covers a node of the function that none   *)
(* before it covers, and so no result becomes two tests, although both     *)
(* loops go over all results.                                              *)
(***************************************************************************)
TestsCoverMore ==
    \A k \in DOMAIN tests :
        (Visited(k) \cap Functions[f].nodes) \ Covered(k - 1) # {}

(***************************************************************************)
(* What is reported as not covered when the tests are made is visited only *)
(* by results that the solver gave no model for in the second loop: those  *)
(* that it gave none for in the first loop are tried again.                *)
(***************************************************************************)
CoveredIfPossible ==
    step = "done" =>
        \A r \in Range(Results) :
            r.visited \cap remainingNodes # {} => r \in failed

(***************************************************************************)
(* The search for simple inputs does not go on forever, although nothing   *)
(* says that a creature ever has a model: the generator comes to its end,  *)
(* or the calls of testCreature within each other to that of the stack,    *)
(* which ends the program.                                                 *)
(***************************************************************************)
GenerationEnds == <>(step \in {"done", "overflow"})
==============================================================================
