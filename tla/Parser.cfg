SPECIFICATION FairSpec
CONSTANTS
    Files <- MCFiles
    Identifiers <- Names
    TypeSizes <- Sizes
    GcMode = TRUE
    EnvVariables <- Env
    MaxLaps = 3
    NoName = NoName
INVARIANTS
    TypeOK
    SourceIsParsed
    MissingBracketIsReported
PROPERTY
    ParseEnds
