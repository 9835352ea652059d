CONSTANTS
    Programs <- OddPrograms
    Nodes <- OddNodes
    VarNames <- MCVarNames
    Globals <- MCGlobals
    Externs <- MCExterns
    Labels <- MCLabels
SPECIFICATION Spec
INVARIANTS
    TypeOK
    BranchesRecorded
    BlocksAddedOnce
