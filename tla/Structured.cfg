CONSTANTS
    Programs <- StructuredPrograms
    Nodes <- StructuredNodes
    VarNames <- MCVarNames
    Globals <- MCGlobals
    Externs <- MCExterns
    Labels <- MCLabels
SPECIFICATION CompilerFairSpec
INVARIANTS
    OperandsResolve
    ReachableBlocksLeave
    EveryBlockEndsInNever
    PhiBlocksArePredecessors
    OperandsReachLLVM
    CheckedFilesCompile
PROPERTY CompilerEnds
