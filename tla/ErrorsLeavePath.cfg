SPECIFICATION Spec
CONSTANTS
    i1 = i1
    i2 = i2
    i3 = i3
    Inputs <- MCInputs
    SolverMayTimeout = FALSE
    MaxPaths = 3
    MaxErrors = 2
INVARIANT
    ErrorsLeavePath
