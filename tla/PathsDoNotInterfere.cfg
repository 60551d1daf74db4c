SPECIFICATION Spec
CONSTANTS
    T1 = T1
    T2 = T2
    Types <- OneType
    Inputs <- MCInputs
    Stored = {7}
    SolverMayTimeout = FALSE
    MaxPaths = 2
    MaxConsts = 3
    MaxPointers = 2
    MaxStores = 1
INVARIANT
    PathsDoNotInterfere
