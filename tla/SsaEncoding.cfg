SPECIFICATION FairSpec
CONSTANTS
    Programs <- Packages
    MaxId = 150
INVARIANTS
    TypeOK
    WrittenOnce
    DecodedIsProgram
    OthersAreDeclared
    NestedIsHeld
PROPERTY EncodingEnds
