CONSTANTS
    Programs <- JumpPrograms
    Nodes <- JumpNodes
    VarNames <- MCVarNames
    Globals <- MCGlobals
    Externs <- MCExterns
    Labels <- MCLabels
SPECIFICATION Spec
INVARIANTS
    BreaksMatchLoops
    ScopesMatchBlocks
    BranchesStayInside
PROPERTIES
    NoDeferLost
