SPECIFICATION Spec
CONSTANTS
    T1 = T1
    T2 = T2
    Types <- MCTypes
    Inputs <- MCInputs
    Stored = {7}
    SolverMayTimeout = FALSE
    MaxPaths = 2
    MaxConsts = 4
    MaxPointers = 3
    MaxStores = 2
SYMMETRY TypeSymmetry
INVARIANTS
    TypeOK
    LoadsRight
    ParametersAreNotLocal
