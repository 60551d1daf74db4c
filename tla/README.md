# Verification of the symbolic execution engine for Go

The repository is a symbolic execution engine: a Go program (`src/src/main/go/ssa.go`)
writes the SSA form of Go functions as JSON, and a Kotlin program
(`src/src/main/kotlin`) interprets each function on symbolic arguments, collects
its returns and errors with their path conditions, and generates a test case from
each. This directory holds TLA+ models of it, TLC configurations that check them
on small instances, and proofs that TLAPS checks for every instance.

## Inventory

| Component | State it keeps | Operations | What makes it correct |
| --- | --- | --- | --- |
| SSA encoder (`ssa.go`) | `nodeIDCounter`, `nodeRefs` | `EncodeSSA`, `encodeNode`, `encodeFunction`, `encodeBlock`, `encodeType` and the others | each object is written once, then linked; what is decoded is the program; the walk ends |
| Decoder (`SsaClasses.kt`, `Main.kt:45-52`) | `allNodes`, `allTypes`, by id | the `init` blocks of nodes, `deLink` | a link finds its node although ids are not unique |
| SSA program and graph analysis (`SsaClasses.kt`, `Main.kt:82-89`) | nodes by id | `deLink`, `getAllReachable`, `bfs`, `parents` | a terminal node that can follow a node is found by `bfs` |
| Memory: path condition (`Memory.kt`) | `pathCond`, `fullErrorsCond`, `errors`, solver | `addCond`, `addError`, `addResults`, `fullPathCond`, `clone`, `removeCond` | the solver knows the path; errors leave it; siblings are exclusive; no input is lost |
| Memory: locals and levels | `localVariablesStack`, `instrOnPathStack`, `returnsStack`, visibility levels | `enterFunction`, `exitFunction`, `addVisibilityLevel`, `writeValue`, `readValue` | the stacks follow the calls and branches of the function |
| Global store (`Memory.kt`, `ArraySymbolic.kt`, `Symbolic.kt`) | `globalValues`: arrays by type | `addNewDefaultStar`, `addNewSymbolicStar`, `getStar`, `putStar`, array `get`/`put` | new objects are new; paths do not see each other's writes; bounds are checked |
| Static interpreter (`SsaStaticInterpreter.kt`) | `waitingNodes`, `startedNodes` of one state | `interpretStep`, `translator` | pushes and pops balance; each node ends what it starts |
| Dynamic interpreter (`SsaDynamicInterpreter.kt`) | queue of states, `terminalNodes`, `distToTerminal`, `results` | `interpretLoop`, `startDynamicNodeInterpretation`, `finishDynamicReturnInterpretation`, `isNodeUseful` | results are right, complete up to pruning, and pruning loses no coverage |
| Interpreter queue (`InterpreterQueue.kt`) | `treeSet`, or `list` and `sumWeight` | `add`, `get`, `size` | no state is lost; the order is the one the queue is named for |
| Types and values (`Type.kt`, `Symbolic.kt`) | none | `fromSsa`, casts, defaults | widths and signs as in Go |
| Test generator (`TestGenerator.kt`) | nodes that remain to be covered, population of constraint sets | `generateTests`, `generateTest`, `evolutionaryAlgorithm`, `testCreature` | the model satisfies the path condition; what can be covered is covered; the search ends, unless the stack does |
| Driver (`main` and `buildPackage` of `ssa.go`, `Main.kt`) | files of the package, output directory; counts of done, failed, timed out; files of tests | the walk over the samples; the loops over JSON files and functions | one JSON file is one package; one function's failure does not touch another's results |

The Go program walks over a directory and writes one JSON file for each package.
`Main` decodes the JSON, analyses the graph of a function, runs
`SsaDynamicInterpreter.startFunction` under `withTimeout`, and gives the results to
`TestGenerator.generateTests`. The interpreter is one
coroutine: `interpretLoop` takes a state from the queue, makes one step of it
(`interpretStep`), and adds it again. States share nothing they write but
`terminalNodes`, `distToTerminal`, the counters, and (by `Memory.clone`, which
copies references) the arrays of the global store. Concurrency is therefore the
interleaving of the steps of paths, in an order the queue decides; the timeout is
cooperative, at the `yield()` between two steps.

The hard parts: the interleaving of paths that prune each other, forks (which
clone a state between two halves of a branch), a solver that may answer UNKNOWN,
errors that are removed from a path in one place and not in another, returns that
unwind a stack from any depth, phis and links whose values belong to an earlier
iteration, the timeout, and an exception on one path that ends all of them; in the
encoder a walk over a cyclic graph in an order that changes from run to run, and ids
that are given twice; in the test generator a search that the clock or the solver may
cut anywhere; in the driver programs that end in the middle of their files.
`PROJECT.json` lists each as a hazard, at its line.

## Modules

| Module | What it models |
| --- | --- |
| `PathCondition` | `Memory` as far as the conditions go: `addCond`, `addError`, `fullPathCond`, `clone`, and the answers of the solver. A condition is the set of inputs that satisfy it. |
| `PathExploration` | The abstract specification of the dynamic interpreter: paths in a queue, each finds errors, is constrained, forks, returns or stops, with arbitrary conditions. |
| `SsaProgram` | The nodes of a function and the graph analysis: `getAllReachable`, `bfs`, terminal nodes, `distToTerminal`. Recursive functions only, so that modules that use it can have theorems. |
| `DynInterpreter` | The detailed specification: `interpretStep` with the `translator` of each node and the overrides of `SsaDynamicInterpreter`. |
| `SsaSemantics` | The reference: what a function does when it is run on one input. |
| `DynRefinement` | The type invariant of `DynInterpreter`, and the refinement mapping to `PathExploration`. |
| `DynCorrectness` | Properties of `DynInterpreter` against `SsaSemantics`. |
| `InterpreterQueue` | The five queues and the loop that uses them. |
| `GlobalStore` | The arrays that pointers to structures lead to (`globalValues`), over `PathCondition`: symbolic pointers, allocations, stores, loads, and forks that share the arrays. |
| `SsaEncoding` | The encoder with its stack of calls, and the decoder with its two maps. |
| `EncodingCorrectness` | What the two promise together: the decoded program is the one that was encoded, and which functions `Main` finds in it. |
| `SampleFunctions` | Fifteen functions of `samples/`, with the nodes they have in `ssa/*.json`. |
| `ShortFunctions` | Short functions that are hard to interpret: a callee that branches, a loop that never ends, a range loop, a call in a loop. |
| `TestGeneration` | `generateTests` with the evolutionary search for simple inputs. |
| `Driver` | Both programs from end to end: directories, packages, JSON files, functions, files of tests. |
| `PathCondition_proofs` | Lemmas about the operations of `PathCondition`. |
| `PathExploration_proofs`, `DynRefinement_proofs`, `GlobalStore_proofs`, `InterpreterQueue_proofs`, `EncodingCorrectness_proofs`, `TestGeneration_proofs`, `Driver_proofs` | The theorems about each, see Proofs. |
| `MCPathExploration`, `MCDynInterpreter`, `MCGlobalStore`, `MCSsaEncoding`, `MCTestGeneration`, `MCDriver` | Instances for TLC. |

`DynInterpreter` extends `SsaProgram` and uses `PathCondition`, and so does
`GlobalStore`; `DynRefinement` instantiates `PathExploration` for `DynInterpreter`, and
`DynCorrectness` puts `SsaSemantics` beside the two. `SsaEncoding`, `TestGeneration` and `Driver` stand at
the borders of the interpreter and take what crosses them as a constant: a package, the
results of a function, the functions of a file. `MCSsaEncoding` makes the packages it
encodes from every function that a run interprets, those of `SampleFunctions` and of
`ShortFunctions`, so that the form in which `DynInterpreter` takes a program (which nodes a
phi holds, which are links) is checked to be the one the encoder writes (`NestedIsHeld`).

### How `DynInterpreter` corresponds to the code

`waitingNodes` and `startedNodes` are one stack of frames: `startNodeInterpretation`
puts the children of a node and a `null` in front of `waitingNodes`, and the node
at the end of `startedNodes`, so the children up to a `null` are what the frame
still waits for and the `null` is the end of the frame. The list the children add
their results to is `args` of the frame. Each action is one call of
`interpretStep`: `Start...` when the first waiting node is a node, `End...` when
it is the `null`. Three things are abstracted:

- the operands of an instruction (links, constants, parameters) are read in the
  step of the instruction, where the code takes a step for each; those steps read
  the locals of their own state only, so no other path can tell. An operand that is
  a phi held by the instruction is read like a link; its own check of
  `isNodeUseful`, which repeats that of its block, is left out. No operand holds an
  operator or a call, and `NestedIsHeld` checks that of the functions that are interpreted;
- a symbolic value is the function from the inputs to its values, and an expression
  of the solver is the set of inputs on which it is true;
- a node that ends in the step after it started, with nothing in between that
  another path can see (`SsaKeepResult`, operators), starts and ends in one step.

`instrOnPathStack` keeps the blocks only, which is what phis ask it for. The
visibility levels of variables are left out: nothing is ever added to them. A node
that is held by the edge of a phi (`nested`) is a link in its block, as the encoder
writes it; the phi evaluates it anew, an operator or a call, when its edge is chosen.

### How `GlobalStore` corresponds to the code

`globals[p]` is `globalValues` of a path: for each type the list `areSymbolic` and
references to two arrays, which are objects of `heap` because `put()` assigns
`arrayExpr` in place and `clone()` copies the reference. A structure has one integer
field, so the entry of the type and the entry of its field are one. An expression
over addresses is a number or a symbolic constant, and an input gives each constant
its value; an array is its first value (one constant for all addresses, as
`newArrayExpr` makes it) and the list of stores. The `ite` of `putStar` and `getStar`
is decided, because no pointer of the model is symbolic on some inputs only; the
store of an old value into the array of the other kind is left out. Which program
makes these calls is open: any sequence of symbolic pointers, allocations, stores and
branches on the equality of pointers or the value of a field. `stores` and `foreign`
are auxiliary: the path's own stores, from which `GoValue` computes what the function
reads, and the arrays another path has stored to.

### How `SsaEncoding` corresponds to the code

`calls` is the stack of calls that the encoder has still to make: a call of
`encodeNode`, `encodeBlock` and so on replaces itself by the calls its body makes, in
their order. `tree` is the JSON text as a list of nodes, each with the node it is part
of and the key it stands under; `nodeRefs` and `nodeIDCounter` are those of the code.
`encodeType` takes the id of a field from the counter after the type of the field was
encoded and does not increase it, so a field shares its id with the node that comes next.
The functions that `AllFunctions` returns are taken in any order. `decode` enters the
nodes in `allNodes` and `allTypes` in the order in which their constructors run. An
object is a record of its kind and of the objects it refers to; each node has the number
it has under its key (`nr`), by which `Under` gives the array of the JSON text. Names, operators and
the values of constants are left out, but for the name of a function, by which `Main`
finds it. The panic on a slice with a low bound, and a node that the decoder has no class
for, end the two programs as in the code.

### How `SampleFunctions` corresponds to the code

The functions are those of `samples/`, node by node as in `ssa/*.json`. Left out are the
receiver, which none of them uses, and the `MakeInterface` before a panic. `math.MinInt`
is stood for by the least of the inputs that are checked. `ShortFunctions` are not in the
repository; they are in the form in which the encoder would write them.

### How `TestGeneration` corresponds to the code

One action is one part of `generateTests`, `generateTest` or `evolutionaryAlgorithm`
between two calls that can fail. A condition is the set of its models; a creature is a
set of constraints for each variable and, once `testCreature` has found one, a model, which
has values for those variables only that occur in what was asserted. The clock is not
a variable: wherever the code compares it, there is an action for either outcome. The
fitness of a model is a constant of the module.

`testCreature` is not one step. Once the solver's UNSAT takes longer than the timeout, it
calls itself for what is left of the creature, with a timeout that only shrinks: an UNSAT in
time cannot happen in these calls (`elapsed < timeout` is false from then on), so they go
on, each with the constraints that were not in the core and new ones for variables that
have none left, until the solver finds a model, gives no answer, or the stack is full.
`tested` is the creature of the last call, `calls` how many there are, and `StackDepth` how
many fit (`Retry`, `Overflow`). A `StackOverflowError` is caught nowhere.

### How `Driver` corresponds to the code

What `filepath.Walk` visits, in its order, is a constant, and what can go wrong with a
file (it does not parse, its package does not build, its encoding panics, the decoder or
the making of its tests fails) is a field of the file. `json` has the files a JSON file was
made of, and is empty after a panic, because `os.Create` truncates first. `Main` takes the JSON
files in any order. In each it finds the functions at the top of the list: a function that an
earlier one mentions is only a link there, so which are found (`atTop`) may be any of them
(`SsaEncoding` says more, see `OthersAreDeclared`), and those without parameters (`bare`) are
left out (`FuncDeclarations`). Each of them finishes, runs into the timeout or throws, and
one that runs into the timeout is counted as successful too, as in the code.

## Runs

| Run | Expectation | What it asks |
| --- | --- | --- |
| `path_exploration` | pass | Are inputs explored once, returned once, never lost, and errors kept, whatever the conditions and although each check may run into the solver's timeout? |
| `errors_leave_path` | violation | Do inputs of an error the solver was sure of leave the path? They come back after a fork and after a second error. |
| `dyn_results` | pass | Do the results of seven functions agree with running them, is no reachable terminal node lost to pruning in any order of the queue, does the interpreter stop by itself, also on a loop that never ends and after an exception, and is every step one of `PathExploration`? |
| `dyn_unknown` | pass | Are errors still real, and all found, when any check may time out? |
| `dyn_samples` | pass | Are the values and errors of fourteen functions of the samples right, on negative and larger arguments, and does each phi that is reached have a value? |
| `range_loop` | violation | Is the value of a function with a range loop right? The body runs once too often. |
| `ssa_encoding` | pass | Is what is decoded the program that was encoded, whatever the order of the functions, although ids are not unique? Is each object written once, does the walk end, and which functions are missing at the top of the file? Do the phis hold the nodes, and the operands no computed ones, that the runs of the interpreter assume? |
| `driver` | pass | Is each JSON file one whole package, do the counts add up, and has each function that `Main` finds its place in the tests, whatever fails? |
| `test_generation` | pass | Do the inputs of a test lead to the result it asserts, is no test in vain, is all covered but what the second loop gave up, and does the search end, or the stack, wherever it is cut? |
| `interpreter_queue` | pass | Does each queue keep every state, in its order, and which starve a path? |
| `global_store` | pass | Does a path read what the function would read, whichever pointers are equal, as long as no other path stored to the same array? Are parameters apart from what is allocated later? |
| `paths_do_not_interfere` | violation | Does it without that condition? A store on one side of a branch is read on the other. |

Each property of a passing run has a mutant: a definition, marked as one, that
changes an operation the way a plausible bug would and breaks the property.

### Bounds

- `path_exploration`: three inputs (two to be told apart by a branch, a third to
  fail on its own), three states (a fork of a fork), one error per path.
  `errors_leave_path` allows a second error.
- `dyn_results`, `dyn_unknown`, `range_loop`: six pairs of arguments up to 2, which include
  a zero divisor, equal arguments, either order, and an argument that `assume` rules out.
  The functions are `Divide` (two divisions, a branch between them, a panic), `Calls`
  (assume, a callee that branches and joins, a panic after it), `Recursive`, `WhileCycle`
  of `samples/flow/loops.go`, `Forever` (cut by the depth only), `Increment` (ends with
  an exception) and `CallInLoop` (a phi holds a call). `MaxDepth` stands for `maxExecutionDepth` (150) and is 7 in
  `dyn_results`, where recursion, `Forever` and loops are cut by it; 20 where nothing
  should be cut.
- `dyn_samples`: arguments from -2 to 11, which reach every bound in the functions
  checked. The queue takes the newest state first (`dfsQueue`); the other orders are
  left to `dyn_results`. No run uses up `MaxPaths`; `MaxErrors` of
  `PathExploration` is a number of errors that no path can have. `Fuel` bounds the
  reference runs and is not used up by a function whose result is compared.
- `ssa_encoding`: twenty-seven packages: the fifteen functions of `SampleFunctions` and the
  seven of `ShortFunctions`, types that contain themselves, functions that call each other,
  every kind of instruction and type, a method of an interface, a slice with a low bound.
  `MaxId` is never reached.
- `driver`: eleven trees of up to six entries: each of the things that can fail, files
  before and after a subdirectory, two directories of one name, a function declared twice; any functions at the top of each
  JSON file, and one without parameters.
- `test_generation`: three functions of up to three results, of which one is
  unsatisfiable and one has no model that a simple constraint agrees with; three values, two
  constraints, a population of two, one child, three epochs. Mutation, the stop after equal
  epochs and calls of `testCreature` within each other occur. `StackDepth` 2 stands for the
  thousands of calls that fit on a stack: every call but the first is in the same
  situation, so one of them shows what more would.
- `interpreter_queue`: three states, priorities 2 to 5 for the 10 to 99 of the code:
  ties, the lower bound and every order of three states occur.
- `global_store`: two types, of which one can be used for the first time after the
  fork; three pointers of a path, so that two kinds meet at one address in either
  order of creation; two stores, so that one hides another; one fork, before, between
  or after them. Four constants from 1 to 3: a first value for each type and two
  pointers, or three of one type. The violation needs two pointers of one type.

### Fairness

`interpretLoop` makes a step as long as the queue has a state, so a step of some
path is weakly fair, and so is the end of the loop; no path by itself is. The
timeout is not fair: termination does not rely on it. In `InterpreterQueue` the
turn of the loop is weakly fair, and that a path does not starve follows from the
order of `bfsQueue`. The encoder and the test generator are sequential programs: some
step is always taken, and which one is left to the model. For a loop that draws creatures
until enough of them have models that is not enough, if the solver never finds a model:
there the strong fairness of `PopulateTimeout` says that time passes, so that a loop that
compares the clock with its timeout again and again finds it past that. Nothing of the kind
is assumed of `testCreature`, which compares the clock to no effect once time is up: it is
the stack that ends its calls.

### Deviations that were found

Three runs expect a violation; `PROJECT.json` quotes the message or assertion each
contradicts. Others were met while modelling. No run checks that they are absent, and the
properties say what holds beside them:

- a return inside a branch leaves a level of `instrOnPathStack` behind, so the levels do
  not follow calls and branches;
- a block that loops to itself takes the edge of its phi that has no value yet, which
  ends all paths with an exception (`Increment`);
- a symbolic pointer that is made after an allocation may be equal to it;
- a fork in `timeAfterNewCodeQueue` always loses a state (`ForksGainNothing`);
- a terminal node found in a recursive call stays uncovered if `assume` ends the path
  afterwards;
- a pointer stored in a field forgets whether it is symbolic, and no symbolic pointer is
  ever nil;
- a function that another one mentions may be missing at the top of the JSON file, and of
  methods of one name only the last is interpreted: which functions get tests depends on the
  order of a Go map (`OthersAreDeclared` says which may be missing);
- files that follow a subdirectory replace the first files of their own package, and two
  directories of one name share a JSON file (`JsonIsPackage` excludes both);
- `testCreature` does not end when its time is up (see above): if no simple constraints agree
  with a condition and the solver is slow to say so, its calls end with the stack, and with
  it `Main` (`GenerationEnds` allows for that);
- a function that timed out is counted as successful too (`CountsAddUp`);
- a panic of the encoder leaves an empty file, on which `Main` ends.

## Proofs

TLAPS checks twenty-eight theorems, for every value of the constants that the named
assumptions allow. All but two state a property that a run checks on a small instance.

| Theorem | Property | Argument |
| --- | --- | --- |
| `TypeCorrect`, `SolverSoundness`, `PathsNeverMeet`, `ReturnsNeverMeet`, `EveryInputAccounted`, `FoundErrorsStay` | all six of `path_exploration` | `IInv` |
| `Refinement` | `Exploration` of `dyn_results`, `dyn_unknown` | `IInv` of `DynRefinement_proofs` |
| `TypeCorrect` | `TypeOK` of `dyn_results` | the same |
| `InputsOfPaths` | four of `path_exploration`, for the paths of the interpreter | `Refinement` |
| `StoreTypeCorrect`, `ParametersStayApart` | `TypeOK`, `ParametersAreNotLocal` of `global_store` | `StoreInv` |
| `LoadsAreRight` | `LoadsRight` of `global_store` | `LoadsInv` |
| `NoTestInVain`, `UncoveredWasGivenUp` | `TestsCoverMore`, `CoveredIfPossible` of `test_generation` | `CoverInv`, `LoopInv` |
| `InputsLeadToResult` | `TestsMeetCondition` of `test_generation` | `EvolutionInv` |
| `SimplestIsKept` | `PopulationImproves`: an epoch never loses the simplest creature | `EvolutionInv` |
| `TotalsAreRight`, `NoFunctionWithoutPlace`, `FilesArePackages` | `CountsAddUp`, `EveryFunctionHasTests`, `JsonIsPackage` of `driver` | `Counted`, `TestsComplete`, `JsonInv` |
| `TypeCorrect`, `QueueLosesNothing`, `EachMayBeNext`, `ForkLosesState` | `TypeOK`, `NothingLost`, `AnyStateMayBeNext`, `ForksGainNothing` of `interpreter_queue` | `QueueInv` |
| `DfsTakesNewestFork` | `NewestForkFirst` of `interpreter_queue` | `DfsInv` |
| `EncodingTypeCorrect`, `EachIsWrittenOnce` | `TypeOK`, `WrittenOnce` of `ssa_encoding` | `WalkInv` |
| `DecodingGivesProgram`, `MissingAreDeclared` | `DecodedIsProgram`, `OthersAreDeclared` of `ssa_encoding` | `TreeInv`, `DecodeInv` |

**Exploration.** Exclusiveness of paths is not inductive in terms of `fullPathCond`,
because `fullErrorsCond` forgets; it is in terms of the path and the branch condition
that is still to be added (`Inhabitants`). What the solver was told (`asserted`) is within
that, and within the complement of the newest error. No input is lost because each
operation that takes an input from `asserted` puts it in an error, in `dropped`, or in the
condition of a sibling. Each action has a lemma of what it does to the memory, and one
step per conjunct it can disturb. The assumptions are those of the constants.

**Dynamic interpreter.** A step either makes one operation on the memory of a path, which
is a step of `PathExploration`, or is quiet. That nothing else happens needs an invariant
about the frames of a path:

- `StackOk`, `FrameOk`, `NodeOk`: the first frame is that of the function under test, every
  node refers to nodes of the class the code casts it to, and the frame of a call lies under
  a block of the function until that returns;
- `Settled`: a frame with another on top of it holds no node that lives between two steps only,
  and the frames under those of blocks and functions are the calls and the root;
- `CountsOk`: a path has a level for itself and two for each call it is in, and the locals of
  each function, so that `exitFunction` never runs out, also when a return unwinds branches;
- nodes that live between two steps only (`StartBranch`, `Stop`, `KeepResult`) wait
  alone, and a path that is about to stop has no input left (`asserted`);
- the errors of the memory and the results kept on the state are about the same inputs.

`ProgramsAssumption` (`IsProgram`) says what the classes of `SsaClasses.kt` say of a program:
which fields a node of a kind has and of which kind the nodes in them are. An input is a
tuple of bit vectors, so `InputsAreFinite`; it bounds the errors of a path. `InputsOfPaths`
instantiates the theorems of `PathExploration_proofs` with the refinement mapping.

**Global store.** `StoreInv` says where pointers point to: a symbolic pointer is at most
`LastAddress` of its type on every input of its path, and an allocated object has a number
above those of all pointers of its type made before it (`Located`, `Apart`). The bound
is about `path`, which `fullPathCond` is within. `LoadsInv` adds two things. `Owned`: an
array belongs to one type and kind, on all paths that refer to it, so that a store through
a pointer of another type or kind never reaches it, and a store of another path is recorded
in `foreign`. `Remembers`: at every address, the last value put to an array that is not
foreign is the last one the path stored through pointers to that address; that there is
a last one is part of the invariant, so no induction over lists is needed. That two
pointers are to one object if and only if type, kind and address agree (`SameObject`) then
gives the property. `InputsAssumption` says that an input gives each constant a
natural number, as the constants of addresses and fields here are.

**Test generation.** `CoverInv`: `remainingNodes` are the nodes of the function that
no test visits, and a result under way visits one of them. `LoopInv`: what
the second loop has passed and not tested visits nothing that remains, or was given up in
that loop; what the first gave up counts for nothing, because the second starts anew.
Results are taken in some order; that it is the order by visits is not needed.
`EvolutionInv`: every creature has a constraint for each variable, so the model that
`testCreature` takes from the solver has a value for each and meets the condition, also when
it has called itself, for a variable that has no constraint left gets a new one; `testCreature`
is only called while a population is made or bred, a creature
is tested before it joins the population, and the population is not empty while there are
epochs. `SimplestIsKept` does need the order by fitness: `SortedFacts` shows that sorting
gives the elements of a list, the least first. `FunctionsAssumption` says that a function has
a list of results, each with nodes, and that a condition depends on the variables that occur
in it; `UglinessAssumption`, that fitness is a number; `SizesAssumption`, that the population
and the numbers of children and epochs are what their types say.

**Driver.** The counts are about the functions that are done (`Counted`), and the
files of tests about the JSON files that are (`TestsComplete`). For `FilesArePackages`,
`JsonInv` follows the walk: in a tree without files after a subdirectory, the files
gathered since the last directory are all files of that directory, and each directory
behind it has its JSON file, unless its package was not built. `TreesAssumption` says that
a tree is a list of entries and that a file declares finitely many functions.

**Queue.** `QueueInv`: the queue has only states made so far, each with its priority as its
weight, and the weights add up to at most `sumWeight` (less for `timeAfterNewCodeQueue`, which
does not take all), and to exactly that in the two random queues. Each state whose path has not
ended is in the queue once, where none gets lost. `Sums` is a recursive function; that it exists and what it is after `Insert`, after
`drop` and after a rotation of the list is proved by induction on sets of numbers
(`SetInduction`). Every random number below `sumWeight` selects a state because the sums
start at 0 and end at `sumWeight`, and every state is selected because weights are above 1
(`PrioritiesAssumption`; they are 10 to 99 in the code). A clone has the priority of its state, so
`timeAfterNewCodeQueue`, a set ordered by priority, drops the second (`ForkLosesState`).
`dfsQueue` is a list that states are put in front of: the one that is busy
returns to the front, and a fork is newer than all.

**Encoder.** `WalkInv` is about the tree that is written so far together with the calls that
are still to be made. A node that is no field has the id that `nodeRefs` has of its object,
or is a link to that id (`NodeOk`), and ids are below the counter (`RefsOk`). That alone does
not say that fields are written once: `encodeType` writes a field without looking it up,
and enters it after its type. So `CallsOk` says that a call that is to write a field is the
only one for that field, that the field is not in the tree, and that its structure is
(`Owned`): when a structure is met again it is a link, and no calls for its fields are made
again. Which calls an object leads to is the concatenation of lists (`FlattenSeq`), and
what is proved of it is by induction on sets of numbers.

That the decoded program is the encoded one needs the whole file, not only its objects.
`TreeInv` is about the *slots* of the file, the nodes in the order in which they were written
and then the calls of the stack: each is under a node written in full, a key and a number,
and for every object that such a node refers to there is exactly one slot. Two slots of one
node are in the order of its keys, which is that of its calls, and what is in a node comes before what follows it
(`IsOrder`), so each call of the encoder replaces one slot by a node and the slots in it.
Ids grow along the file, except that a field has the id that the next node has (`IdsGrow`,
`FieldIds`). When no call is left, the slots are the nodes, and `Under` gives the parts of
an object in their order (`UnderNode`). `DecodeInv` then follows the decoder: the nodes that
are read are the first `r` of the file, those still to be read are what is in them, and a node
is constructed once all before it are that it is not in. A field is therefore entered before
the node that has the same id, which replaces it; links are to nodes that are no fields, so
each of those is what its map has under its id (`MapsHold`) when all is decoded.

`MissingAreDeclared` uses that the first slot of a function is its place at the top unless
another object mentions it first: if the function at the top is a link, its node in full is
in one that was at the top before, and a node leads from that one to it. What `Reach` is has
to be proved first: it is defined by recursion on sets that grow within a finite set, so it
is unfolded by well-founded induction on what they lack.

`ProgramsAssumption` (`IsPackage`) says that there are finitely many objects, that they refer
to objects, under the fields that an object of their kind has, and of the types that the functions
take that encode them (`Takes`), and that a field belongs to one structure, as it does in
go/types where no type has parameters; `MaxIdAssumption`, that the bound is a number above 0.

Only model-checked:

- `ReturnsRight`, `ErrorsReal`, `FailuresFound` and `TerminalsCovered` compare the interpreter
  with `SsaSemantics`, a recursive operator, which the prover cannot reach;
  `FoundTerminalsVisited` and `PhisHaveValues` depend on the program (the second is false of a
  block that loops to itself);
- `NestedIsHeld` is about the functions of `SampleFunctions` and `ShortFunctions`, which are
  data: `ssa_encoding` encodes each of the twenty-two;
- liveness.

## What is left

1. `GlobalStore`: fields that hold pointers (`InfStarArray`, which makes
   pointers when it is read), nil, arrays and `checkBounds`.
2. `Types`: widths, casts and operators of bit vectors against Go's; the text of values
   in the generated tests.
3. `StaticInterpreter`: the push and pop discipline over both branches.
4. Proofs: that the interpreter returns what the function returns, with `SsaSemantics`
   written as a relation between steps instead of a recursive operator.

## Not modelled

- The static interpreter (`SsaStaticInterpreter.startFunction` and its overrides): `Main`
  has it commented out. What the dynamic interpreter inherits from it is modelled.
- The nodes of the dynamic interpreter that read or write the global store,
  conversions, shifts, floats, complex numbers and built-in functions: their values are
  terms of the solver, whose meaning is not in this repository.
- Casts and defaults of types (`Type.kt`, `Symbolic.kt`), apart from what `GlobalStore` uses.
- The text of generated tests (`kExprToString`, `generateTestCode`).
- `toDot.kt` (pictures), the reports of `Main`, the counts of
  `SsaExecutionStatistics`, which are printed only; the generated files and build
  scripts, which are inputs and outputs.
