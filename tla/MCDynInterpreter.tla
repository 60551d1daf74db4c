-------------------------- MODULE MCDynInterpreter --------------------------
(***************************************************************************)
(* DynInterpreter on functions of the samples, and on short functions.     *)
(***************************************************************************)
EXTENDS DynCorrectness, ShortFunctions

\* A function with one parameter does not look at the second argument.
SmallInputs == {<<0, 0>>, <<0, 1>>, <<1, 0>>, <<1, 1>>, <<2, 1>>, <<1, 2>>}

ResultPrograms ==
    "Divide" :> Divide @@ "Calls" :> Calls @@ "Recursive" :> Recursive @@
    "WhileCycle" :> WhileCycle @@ "Forever" :> Forever @@
    "Increment" :> Increment @@ "CallInLoop" :> CallInLoop

\* Negative arguments, loops of several iterations, and their bounds.
SampleInputs == SmallInputs \cup {<<-1, 1>>, <<-2, 0>>, <<4, 1>>, <<5, 0>>, <<5, 2>>,
                                <<8, 0>>, <<11, 1>>}

SamplePrograms ==
    "LoopWithSymbolicBound" :> LoopWithSymbolicBound @@
    "ComplexControlFlow" :> ComplexControlFlow @@
    "DivideByZeroCheckWithCycles" :> DivideByZeroCheckWithCycles @@
    "LoopInsideLoop" :> LoopInsideLoop @@ "TwoCondition" :> TwoCondition @@
    "InnerWhile" :> InnerWhile @@ "FiniteCycle" :> FiniteCycle @@
    "InfiniteRecursion" :> InfiniteRecursion @@
    "PushPopIncrementality" :> PushPopIncrementality @@
    "IntegerOperations" :> IntegerOperations @@
    "CompareAndIncrement" :> CompareAndIncrement @@ "Abs" :> Abs @@
    "ConstraintsFromInside" :> ConstraintsFromInside @@ "BooleanNot" :> BooleanNot

AllSamples == DOMAIN SamplePrograms

UnknownPrograms == "Divide" :> Divide @@ "Calls" :> Calls
RangePrograms == "Range" :> RangeLoop
=============================================================================
