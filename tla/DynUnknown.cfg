SPECIFICATION Spec
CONSTANTS
    Inputs <- SmallInputs
    Programs <- UnknownPrograms
    SolverMayTimeout = TRUE
    MaxPaths = 5
    MaxDepth = 20
    Fuel = 20
    Dfs = {}
INVARIANTS
    ErrorsReal
    FailuresFound
PROPERTY
    Exploration
