SPECIFICATION Spec
CONSTANTS
    Inputs <- SmallInputs
    Programs <- RangePrograms
    SolverMayTimeout = FALSE
    MaxPaths = 5
    MaxDepth = 20
    Fuel = 20
    Dfs = {}
INVARIANT
    ReturnsRight
