CONSTANT Files <- MCFiles
SPECIFICATION FairSpec
INVARIANTS
    TypeOK
    SupportedFilesGoThrough
    VerifierIsSatisfied
    AllocasDominate
PROPERTIES
    KeepsThePromise
    BackendEnds
