CONSTANTS
    Programs <- BreakInIf
    Nodes <- BreakInIfNodes
    VarNames <- MCVarNames
    Globals <- MCGlobals
    Externs <- MCExterns
    Labels <- MCLabels
SPECIFICATION Spec
INVARIANT
    OperandsResolve
