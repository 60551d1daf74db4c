SPECIFICATION Spec
CONSTANTS
    i1 = i1
    i2 = i2
    i3 = i3
    Inputs <- MCInputs
    SolverMayTimeout = TRUE
    MaxPaths = 3
    MaxErrors = 1
SYMMETRY InputSymmetry
INVARIANTS
    TypeOK
    SolverKnowsPath
    PathsExclusive
    ReturnsExclusive
    NoInputLost
PROPERTY
    ErrorsKept
