CONSTANTS
    Programs <- AllPrograms
    Main = "main"
    Core <- OneCore
    Paths <- MCPaths
    Triplet <- LinuxTriplet
SPECIFICATION FairSpec
INVARIANTS
    TypeOK
    SourceIsUnderstood
    FunctionsAreDeclared
    BlocksAreClosed
    LineNumbersAreRight
PROPERTY
    PassEnds
