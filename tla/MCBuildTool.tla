---------------------------- MODULE MCBuildTool ----------------------------
(***************************************************************************)
(* Small projects for cpoint-build.                                        *)
(***************************************************************************)
EXTENDS BuildToolProperties, TLC

CONSTANTS app, lib, ngc, tool, a, b, c, wasm, native, noObject, noLibrary, noRecord

Project(deps, folders, src, subs, gc, exe, tests) ==
    [dependencies |-> deps, folders |-> folders, src |-> src, subprojects |-> subs,
     gc |-> gc, exe |-> exe, tests |-> tests]

MCTargets == {wasm}

\* An executable of two folders, one of which has a subproject in it, and two
\* test files.
AppProjects == {app, lib}
AppFiles == {a, b, c}
App ==
    (app :> Project(<< >>, <<{c}>>, {a, b}, <<lib>>, TRUE, TRUE, 2)) @@
    (lib :> Project(<< >>, << >>, {c}, << >>, TRUE, FALSE, 0))

\* A version of a file that does not compile.
AppBroken == {<<a, 1>>}
NothingBroken == {}

\* An executable with garbage collection that depends on a library and has two
\* subprojects, listed with the one that has it first.
TreeProjects == {app, lib, ngc, tool}
TreeFiles == {a, b}
Tree ==
    (app :> Project(<<lib>>, << >>, {a}, <<tool, ngc>>, TRUE, TRUE, 1)) @@
    (lib :> Project(<< >>, << >>, {b}, << >>, FALSE, FALSE, 0)) @@
    (tool :> Project(<< >>, << >>, {}, << >>, TRUE, TRUE, 0)) @@
    (ngc :> Project(<< >>, << >>, {}, << >>, FALSE, TRUE, 0))

OneJob == {1}
OneOrTwoJobs == {1, 2}
============================================================================
