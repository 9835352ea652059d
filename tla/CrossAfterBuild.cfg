CONSTANTS
    app = app
    lib = lib
    ngc = ngc
    tool = tool
    a = a
    b = b
    c = c
    wasm = wasm
    native = native
    noObject = noObject
    noLibrary = noLibrary
    noRecord = noRecord
    Projects <- AppProjects
    Files <- AppFiles
    Config <- App
    Native = native
    Targets <- MCTargets
    Jobs <- OneJob
    NoObject = noObject
    NoLibrary = noLibrary
    NoRecord = noRecord
    Broken <- NothingBroken
    MaxEdits = 0
    MaxKills = 0
    MaxHandBuilds = 0
SPECIFICATION Spec
INVARIANTS
    LinkedForTheTarget
