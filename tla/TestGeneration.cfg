SPECIFICATION FairSpec
CONSTANTS
    Functions <- MCFunctions
    Values <- MCValues
    Constraints <- MCConstraints
    Ugliness <- MCUgliness
    PopulationSize = 2
    MaxEpochs = 3
    NumberOfChildren = 1
    StackDepth = 2
INVARIANTS
    TestsMeetCondition
    TestsCoverMore
    CoveredIfPossible
PROPERTY
    GenerationEnds
