------------------------ MODULE BuildToolProperties ------------------------
(***************************************************************************)
(* What cpoint-build should keep true of the files it links.               *)
(***************************************************************************)
EXTENDS BuildTool

Phases == {"idle", "dependencies", "folders", "compile", "no gc subprojects", "gc subprojects",
           "check", "clean", "make", "forget", "record", "link", "exit"}

Runs == [project : Projects, command : {"build", "cross-compile", "test"},
         target : Targets \cup {Native}, jobs : Nat, done : Nat, phase : Phases,
         seen : [Files -> Versions \cup {Unseen}]]

Compilers == [file : Files, text : Versions]

Objects == [text : Versions \cup {Torn}, by : Options] \cup {NoObject}

\* The values of the variables.  Only the running process has compilers, and
\* only while it builds a folder.
TypeOK ==
    /\ run \in Runs
    /\ pending \in SUBSET Files
    /\ running \in SUBSET Compilers
    /\ callers \in Seq(Runs)
    /\ text \in [Files -> Versions]
    /\ object \in [Files -> Objects]
    /\ newer \in [Files -> BOOLEAN]
    /\ libstd \in Options \cup {NoLibrary}
    /\ last_build \in Options \cup {NoRecord}
    /\ spoiled \in SUBSET Files
    /\ unrecorded \in BOOLEAN
    /\ rebuilds \in Nat /\ kills \in Nat /\ handBuilds \in Nat
    /\ run.phase # "compile" => pending = {} /\ running = {}

Linking == run.phase = "link"

LinkedFiles(r) == IF r.command = "test" THEN Config[r.project].src ELSE FilesOf(r.project)

\* The object is of version v of its source or of a later one, or v does not
\* compile and an older object is used, or the object is spoiled.
AsRecentAs(f, v) ==
    \/ object[f] # NoObject /\ object[f].text >= v
    \/ <<f, v>> \in Broken
    \/ f \in spoiled

\* What is linked is at least as recent as the source was when this command
\* looked at it, and it looked at all of them.  Only an edit during an earlier
\* compilation, or a compiler killed while it wrote, can leave an object that
\* shouldCompileFile takes for up to date (build/src/build.cpp:12).
LinkedObjectsAreOfTheSources ==
    Linking => \A f \in LinkedFiles(run) : run.seen[f] # Unseen /\ AsRecentAs(f, run.seen[f])

\* The object files that the next command will not compile again hold the
\* text of their source, wherever the tool, the editor and a kill have left
\* them, except those that are known to be spoiled.
KeptObjectsAreCurrent ==
    \A f \in Files : ~shouldCompileFile(f) /\ f \notin spoiled => object[f].text = text[f]

\* The standard library that an executable is linked with was built with the
\* options of the executable, unless its make failed: neither the projects
\* built before, nor a kill that left last_build.toml removed or libstd.a
\* missing, can put another in its place.  What can is a library built without
\* its options being recorded.
LinkedStandardLibrary ==
    Linking /\ Config[run.project].exe =>
        libstd \in {OptionsOf(run), NoLibrary} \/ unrecorded

RootOf == IF callers = << >> THEN run ELSE callers[1]

Leaf(p) == Config[p].subprojects = << >> /\ Config[p].dependencies = << >>

LinksNoStandardLibrary(p) == ~Config[p].exe /\ Leaf(p)

\* README.md:114: the subprojects are ordered so that one build does not make
\* the standard library more than twice.  So it is for a project with garbage
\* collection, whose executable comes after the subprojects with it, when its
\* dependencies are libraries.
RebuiltAtMostTwice ==
    /\ run.phase # "idle"
    /\ Config[RootOf.project].gc \/ ~Config[RootOf.project].exe
    /\ RootOf.command # "cross-compile"
    /\ \A p \in Range(Config[RootOf.project].dependencies) : LinksNoStandardLibrary(p)
    /\ \A p \in Range(Config[RootOf.project].subprojects) : Leaf(p)
    => rebuilds <= 2

\* Every command ends, whatever its projects call and whatever fails in it.
CommandsEnd == run.phase # "idle" ~> run.phase = "idle"

-----------------------------------------------------------------------------
(* The inductive invariant that the proofs use                             *)

\* The phases in which a command has looked at all its files.
Looked == Phases \ {"idle", "dependencies", "folders", "compile", "exit"}

\* How far a process is in the list of its phase, and the files it has passed.
Progress(r) ==
    /\ r.phase \in Calling => r.done <= Len(Children(r))
    /\ r.phase = "folders" => r.done <= Len(Folders(r))
    /\ r.phase = "compile" => r.done < Len(Folders(r))
    /\ r.phase \in {"folders", "compile"} =>
           \A k \in 1 .. r.done : \A f \in Folders(r)[k] : r.seen[f] # Unseen
    /\ r.phase \in Looked => \A f \in LinkedFiles(r) : r.seen[f] # Unseen

Processes ==
    /\ Progress(run)
    /\ run.phase = "compile" =>
           \A f \in Folders(run)[run.done + 1] \ pending : run.seen[f] # Unseen
    /\ run.phase = "idle" => callers = << >> /\ \A f \in Files : run.seen[f] = Unseen
    /\ \A i \in 1 .. Len(callers) :
           /\ callers[i].phase \in Calling /\ Progress(callers[i])
           /\ callers[i].done < Len(Children(callers[i]))

\* A process has seen versions that exist, and the object of a file it has
\* looked at and is not compiling is as recent as the version it saw.
Sees(r, busy) ==
    \A f \in Files : /\ r.seen[f] <= text[f]
                     /\ r.seen[f] = Unseen \/ f \in busy \/ AsRecentAs(f, r.seen[f])

Compiling == {c.file : c \in running}

SeenObjects ==
    /\ Sees(run, Compiling)
    /\ \A i \in 1 .. Len(callers) : Sees(callers[i], {})
    /\ \A c \in running :
           /\ c.file \notin pending
           /\ c.text = run.seen[c.file]
           /\ \A i \in 1 .. Len(callers) : callers[i].seen[c.file] <= c.text

\* Between the check of the standard library and the link, and between two
\* commands, libstd.a is what the next reader of last_build.toml believes.
StandardLibrary ==
    /\ \/ libstd = NoLibrary
       \/ last_build \in {NoRecord, libstd}
       \/ run.phase = "forget" /\ libstd = OptionsOf(run)
       \/ unrecorded
    /\ run.phase = "make" => libstd = NoLibrary
    /\ run.phase \in {"forget", "record"} => libstd \in {OptionsOf(run), NoLibrary} \/ unrecorded
    /\ LinkedStandardLibrary

BuildInvariant ==
    /\ TypeOK
    /\ Processes
    /\ KeptObjectsAreCurrent
    /\ SeenObjects
    /\ StandardLibrary

-----------------------------------------------------------------------------
(* What the documentation says, and the code does not do                   *)

\* build/src/main.cpp:169: cross-compile cross-compiles the project.
LinkedForTheTarget ==
    Linking => \A f \in LinkedFiles(run) : object[f] # NoObject => object[f].by.target = run.target
=============================================================================
