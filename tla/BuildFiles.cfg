CONSTANTS
    app = app
    lib = lib
    ngc = ngc
    tool = tool
    a = a
    b = b
    c = c
    wasm = wasm
    native = native
    noObject = noObject
    noLibrary = noLibrary
    noRecord = noRecord
    Projects <- AppProjects
    Files <- AppFiles
    Config <- App
    Native = native
    Targets = {}
    Jobs <- OneOrTwoJobs
    NoObject = noObject
    NoLibrary = noLibrary
    NoRecord = noRecord
    Broken <- AppBroken
    MaxEdits = 1
    MaxKills = 1
    MaxHandBuilds = 0
SPECIFICATION Spec
INVARIANTS
    TypeOK
    KeptObjectsAreCurrent
    LinkedObjectsAreOfTheSources
