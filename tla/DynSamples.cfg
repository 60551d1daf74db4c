SPECIFICATION Spec
CONSTANTS
    Inputs <- SampleInputs
    Programs <- SamplePrograms
    SolverMayTimeout = FALSE
    MaxPaths = 45
    MaxDepth = 40
    Fuel = 36
    Dfs <- AllSamples
INVARIANTS
    ReturnsRight
    FailuresFound
    PhisHaveValues
