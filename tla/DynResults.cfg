SPECIFICATION FairSpec
CONSTANTS
    Inputs <- SmallInputs
    Programs <- ResultPrograms
    SolverMayTimeout = FALSE
    MaxPaths = 7
    MaxDepth = 7
    Fuel = 20
    Dfs = {}
INVARIANTS
    TypeOK
    ReturnsRight
    TerminalsCovered
    FoundTerminalsVisited
PROPERTIES
    Exploration
    Terminates
