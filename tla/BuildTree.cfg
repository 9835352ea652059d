CONSTANTS
    app = app
    lib = lib
    ngc = ngc
    tool = tool
    a = a
    b = b
    c = c
    wasm = wasm
    native = native
    noObject = noObject
    noLibrary = noLibrary
    noRecord = noRecord
    Projects <- TreeProjects
    Files <- TreeFiles
    Config <- Tree
    Native = native
    Targets <- MCTargets
    Jobs <- OneJob
    NoObject = noObject
    NoLibrary = noLibrary
    NoRecord = noRecord
    Broken <- NothingBroken
    MaxEdits = 0
    MaxKills = 1
    MaxHandBuilds = 1
SPECIFICATION FairSpec
INVARIANTS
    LinkedStandardLibrary
    RebuiltAtMostTwice
PROPERTIES
    CommandsEnd
