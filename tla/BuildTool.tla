------------------------------ MODULE BuildTool ------------------------------
(***************************************************************************)
(* cpoint-build (build/src): one command of the tool at a time, with the   *)
(* cpoint-build processes it starts in other directories, the compilers it *)
(* runs, the object files it keeps from one command to the next and the    *)
(* standard library that all the projects of the machine link with.        *)
(* Meanwhile the sources are edited and the tool may be killed.            *)
(***************************************************************************)
EXTENDS Integers, Sequences, FiniteSets, Functions

CONSTANTS
    Projects,      \* the directories that hold a build.toml
    Files,         \* their .cpoint files
    Config,        \* what each build.toml says, see ConfigAssumption
    Native,        \* the target "" of a build that is not a cross-compilation
    Targets,       \* the other targets
    Jobs,          \* the values of -j
    NoObject,      \* there is no .o beside a .cpoint
    NoLibrary,     \* there is no libstd.a
    NoRecord,      \* there is no last_build.toml
    Broken,        \* the <<file, version>> that do not compile
    MaxEdits,      \* bound on the edits of a file
    MaxKills,      \* bound on the times the tool is killed
    MaxHandBuilds  \* bound on the direct uses of the compiler

Versions == 0 .. MaxEdits

\* A version that no source has: of an object file cut short.
Torn == -1

Options == [target : Targets \cup {Native}, gc : BOOLEAN]

ConfigAssumption ==
    Config \in [Projects -> [dependencies : Seq(Projects), folders : Seq(SUBSET Files),
                             src : SUBSET Files, subprojects : Seq(Projects),
                             gc : BOOLEAN, exe : BOOLEAN, tests : Nat]]

ASSUME BuildToolAssumption ==
    /\ ConfigAssumption
    /\ Native \notin Targets
    /\ Jobs \subseteq Nat \ {0}
    /\ NoObject \notin [text : Versions \cup {Torn}, by : Options]
    /\ NoLibrary \notin Options /\ NoRecord \notin Options
    /\ MaxEdits \in Nat /\ MaxKills \in Nat /\ MaxHandBuilds \in Nat

VARIABLES
    \* the process that runs
    run,          \* its command, and where it is in main()
    pending,      \* the files of the folder being built still to be looked at
    running,      \* the compilers it has started and not yet waited for
    callers,      \* the processes that wait for it to end, oldest first
    \* what the files hold
    text,         \* the version of each source
    object,       \* the object files
    newer,        \* whether a source was written after its object file
    libstd,       \* the options libstd.a was built with
    last_build,   \* the options in last_build.toml
    \* history, read by the properties only
    spoiled,      \* objects not of the text their source had when they were written
    unrecorded,   \* libstd.a is not what last_build.toml says
    rebuilds,     \* times the running command built the standard library
    kills, handBuilds

process == <<run, pending, running, callers>>
std == <<libstd, last_build, unrecorded, rebuilds>>
objects == <<object, newer, spoiled>>
bounds == <<kills, handBuilds>>
vars == <<process, text, objects, std, bounds>>

-----------------------------------------------------------------------------
(* What a project is made of                                               *)

FilesOf(p) == Config[p].src \cup UNION Range(Config[p].folders)

\* Mistake: the subfolders are forgotten.
Folders_sources(r) == <<Config[r.project].src>>

\* The folders built, in order: [subfolders] of the toml, then the sources.
\* `test` looks at the sources only.
Folders(r) ==
    IF r.command = "test" THEN <<Config[r.project].src>>
    ELSE Append(Config[r.project].folders, Config[r.project].src)

\* The projects a phase looks at.  The list of the subprojects is gone through
\* twice: those without garbage collection are built first.
Children(r) ==
    IF r.phase = "dependencies" THEN Config[r.project].dependencies
    ELSE Config[r.project].subprojects

Child(r) == Children(r)[r.done + 1]

\* Mistake: the subprojects are built in the order of the toml.
isBuiltNow_asListed(r) == r.phase # "gc subprojects"

isBuiltNow(r) ==
    \/ r.phase = "dependencies"
    \/ r.phase = "no gc subprojects" /\ ~Config[Child(r)].gc
    \/ r.phase = "gc subprojects" /\ Config[Child(r)].gc

\* What the compiler, and the make of the standard library, are run with.
OptionsOf(r) ==
    [target |-> r.target, gc |-> r.command = "test" \/ Config[r.project].gc]

\* The -j of the command is shared among the subfolders; a process started by
\* another has none.
Threads(r) ==
    LET folders == Len(Config[r.project].folders)
    IN  IF r.command # "test" /\ r.done < folders THEN r.jobs \div folders ELSE r.jobs

MultiThreaded(r) == r.command # "test" /\ Threads(r) > 1

\* The version a process has seen of a file it has not looked at.
Unseen == -1

NewRun(p, c, t, j) ==
    [project |-> p, command |-> c, target |-> t, jobs |-> j, done |-> 0,
     phase |-> IF c = "cross-compile" THEN "folders" ELSE "dependencies",
     seen |-> [f \in Files |-> Unseen]]

Idle(p) == [NewRun(p, "build", Native, 1) EXCEPT !.phase = "idle"]

Enter(phase) == run' = [run EXCEPT !.phase = phase, !.done = 0]

-----------------------------------------------------------------------------
(* Starting a process and waiting for one                                  *)

Start(p, c, t, j) ==
    /\ run.phase = "idle"
    /\ (t = Native) <=> (c # "cross-compile")
    /\ run' = NewRun(p, c, t, j)
    /\ rebuilds' = 0
    /\ UNCHANGED <<pending, running, callers, text, objects, libstd, last_build,
                   unrecorded, bounds>>

Calling == {"dependencies", "no gc subprojects", "gc subprojects"}

\* `cd <child> && cpoint-build`: no option of this command is passed on.
CallChild ==
    /\ run.phase \in Calling
    /\ run.done < Len(Children(run))
    /\ isBuiltNow(run)
    /\ callers' = Append(callers, run)
    /\ run' = NewRun(Child(run), "build", Native, 1)
    /\ UNCHANGED <<pending, running, text, objects, std, bounds>>

PassChild ==
    /\ run.phase \in Calling
    /\ run.done < Len(Children(run))
    /\ ~isBuiltNow(run)
    /\ run' = [run EXCEPT !.done = @ + 1]
    /\ UNCHANGED <<pending, running, callers, text, objects, std, bounds>>

\* Mistake: the caller does not pass to the next project.
Exit_again ==
    /\ run.phase = "exit"
    /\ IF callers = << >>
       THEN run' = Idle(run.project) /\ UNCHANGED callers
       ELSE run' = callers[Len(callers)] /\ callers' = SubSeq(callers, 1, Len(callers) - 1)
    /\ UNCHANGED <<pending, running, text, objects, std, bounds>>

\* A process ends; its exit status is not looked at.
Exit ==
    /\ run.phase = "exit"
    /\ IF callers = << >>
       THEN run' = Idle(run.project) /\ UNCHANGED callers
       ELSE LET caller == callers[Len(callers)]
            IN  /\ run' = [caller EXCEPT !.done = @ + 1]
                /\ callers' = SubSeq(callers, 1, Len(callers) - 1)
    /\ UNCHANGED <<pending, running, text, objects, std, bounds>>

\* An executable checks the standard library; a library is only archived.
LinkPhase(r) == IF Config[r.project].exe THEN "check" ELSE "link"

ChildrenBuilt ==
    /\ run.phase \in Calling
    /\ run.done = Len(Children(run))
    /\ Enter(CASE run.phase = "dependencies" -> "folders"
               [] run.phase = "no gc subprojects" -> "gc subprojects"
               [] run.phase = "gc subprojects" -> LinkPhase(run))
    /\ UNCHANGED <<pending, running, callers, text, objects, std, bounds>>

-----------------------------------------------------------------------------
(* Compiling a folder                                                      *)

OpenFolder ==
    /\ run.phase = "folders"
    /\ run.done < Len(Folders(run))
    /\ pending' = Folders(run)[run.done + 1]
    /\ run' = [run EXCEPT !.phase = "compile"]
    /\ UNCHANGED <<running, callers, text, objects, std, bounds>>

\* Mistake: any object file will do.
shouldCompileFile_missing(f) == object[f] = NoObject

shouldCompileFile(f) == object[f] = NoObject \/ newer[f]

\* One file after the other: each is compiled if it should be.  With threads,
\* and for `test`, each is compiled; there is a thread for every file.
MayCompile(f) ==
    \/ MultiThreaded(run)
    \/ running = {} /\ (run.command = "test" \/ shouldCompileFile(f))

MaySkip(f) ==
    ~MultiThreaded(run) /\ running = {} /\ run.command # "test" /\ ~shouldCompileFile(f)

LookAt(f) ==
    /\ run.phase = "compile"
    /\ f \in pending
    /\ pending' = pending \ {f}
    /\ run' = [run EXCEPT !.seen[f] = text[f]]

SkipFile(f) ==
    /\ MaySkip(f)
    /\ LookAt(f)
    /\ UNCHANGED <<running, callers, text, objects, std, bounds>>

compileFile(f) ==
    /\ MayCompile(f)
    /\ LookAt(f)
    /\ running' = running \cup {[file |-> f, text |-> text[f]]}
    /\ UNCHANGED <<callers, text, objects, std, bounds>>

\* A compiler ends.  It writes the object file last, and not at all when it
\* found an error: its exit status is not looked at either.
CompilerEnds(c) ==
    /\ c \in running
    /\ running' = running \ {c}
    /\ IF <<c.file, c.text>> \in Broken
       THEN UNCHANGED objects
       ELSE /\ object' = [object EXCEPT ![c.file] = [text |-> c.text, by |-> OptionsOf(run)]]
            /\ newer' = [newer EXCEPT ![c.file] = FALSE]
            /\ spoiled' = IF c.text = text[c.file] THEN spoiled \ {c.file}
                          ELSE spoiled \cup {c.file}
    /\ UNCHANGED <<run, pending, callers, text, std, bounds>>

\* Mistake: the threads are not joined.
FolderBuilt_noJoin ==
    /\ run.phase = "compile"
    /\ pending = {}
    /\ run' = [run EXCEPT !.phase = "folders", !.done = @ + 1]
    /\ UNCHANGED <<pending, running, callers, text, objects, std, bounds>>

\* The threads are joined before the next folder.
FolderBuilt ==
    /\ run.phase = "compile"
    /\ pending = {} /\ running = {}
    /\ run' = [run EXCEPT !.phase = "folders", !.done = @ + 1]
    /\ UNCHANGED <<pending, running, callers, text, objects, std, bounds>>

FoldersBuilt ==
    /\ run.phase = "folders"
    /\ run.done = Len(Folders(run))
    /\ Enter(CASE run.command # "test" -> "no gc subprojects"
               [] run.command = "test" /\ Config[run.project].tests = 0 -> "exit"
               [] OTHER -> "check")
    /\ UNCHANGED <<pending, running, callers, text, objects, std, bounds>>

-----------------------------------------------------------------------------
(* Linking, with the standard library built for these options              *)

\* Mistake: only the target is compared.
shouldRebuildSTD_target(o) ==
    \/ libstd = NoLibrary
    \/ last_build = NoRecord
    \/ last_build.target # o.target

shouldRebuildSTD(o) ==
    \/ libstd = NoLibrary
    \/ last_build = NoRecord
    \/ last_build # o

CheckSTD ==
    /\ run.phase = "check"
    /\ run' = [run EXCEPT !.phase = IF shouldRebuildSTD(OptionsOf(run)) THEN "clean" ELSE "forget"]
    /\ UNCHANGED <<pending, running, callers, text, objects, std, bounds>>

\* rebuildSTD: make clean, then make, which may fail.
CleanSTD ==
    /\ run.phase = "clean"
    /\ libstd' = NoLibrary
    /\ run' = [run EXCEPT !.phase = "make"]
    /\ UNCHANGED <<pending, running, callers, text, objects, last_build, unrecorded,
                   rebuilds, bounds>>

MakeSTD ==
    /\ run.phase = "make"
    /\ \/ libstd' = OptionsOf(run) /\ rebuilds' = rebuilds + 1
       \/ UNCHANGED <<libstd, rebuilds>>
    /\ unrecorded' = FALSE
    /\ run' = [run EXCEPT !.phase = "forget"]
    /\ UNCHANGED <<pending, running, callers, text, objects, last_build, bounds>>

\* writeLastBuildToml: the file is removed, then written.
RemoveLastBuild ==
    /\ run.phase = "forget"
    /\ last_build' = NoRecord
    /\ run' = [run EXCEPT !.phase = "record"]
    /\ UNCHANGED <<pending, running, callers, text, objects, libstd, unrecorded,
                   rebuilds, bounds>>

WriteLastBuild ==
    /\ run.phase = "record"
    /\ last_build' = OptionsOf(run)
    /\ run' = [run EXCEPT !.phase = "link"]
    /\ UNCHANGED <<pending, running, callers, text, objects, libstd, unrecorded,
                   rebuilds, bounds>>

\* The link command runs.  `test` links one executable per file with tests.
Link ==
    /\ run.phase = "link"
    /\ run' = IF run.command = "test" /\ run.done + 1 < Config[run.project].tests
              THEN [run EXCEPT !.phase = "check", !.done = @ + 1]
              ELSE [run EXCEPT !.phase = "exit"]
    /\ UNCHANGED <<pending, running, callers, text, objects, std, bounds>>

-----------------------------------------------------------------------------
(* The rest of the machine                                                 *)

\* A source is edited, or pulled by git, whatever the tool is doing.
Edit(f) ==
    /\ text[f] < MaxEdits
    /\ text' = [text EXCEPT ![f] = @ + 1]
    /\ newer' = [newer EXCEPT ![f] = TRUE]
    /\ UNCHANGED <<process, object, spoiled, std, bounds>>

CleanedBy[p \in Projects] ==
    FilesOf(p) \cup UNION {CleanedBy[q] : q \in Range(Config[p].subprojects)}

\* cpoint-build clean
cleanFiles(p) ==
    /\ run.phase = "idle"
    /\ object' = [f \in Files |-> IF f \in CleanedBy[p] THEN NoObject ELSE object[f]]
    /\ spoiled' = spoiled \ CleanedBy[p]
    /\ UNCHANGED <<process, text, newer, std, bounds>>

\* The tool and the compilers it runs are interrupted.  A compiler that was
\* writing its object file leaves a part of it.
Kill ==
    /\ run.phase # "idle"
    /\ kills < MaxKills
    /\ kills' = kills + 1
    /\ run' = Idle(run.project)
    /\ callers' = << >> /\ pending' = {} /\ running' = {}
    /\ \E cut \in SUBSET {c.file : c \in {d \in running : <<d.file, d.text>> \notin Broken}} :
           /\ object' = [f \in Files |-> IF f \in cut THEN [text |-> Torn, by |-> OptionsOf(run)]
                                         ELSE object[f]]
           /\ newer' = [f \in Files |-> f \notin cut /\ newer[f]]
           /\ spoiled' = spoiled \cup cut
    /\ unrecorded' = (unrecorded \/ (run.phase = "forget" /\ libstd # last_build))
    /\ UNCHANGED <<text, libstd, last_build, rebuilds, handBuilds>>

\* `cpoint file.cpoint` builds the standard library for itself (build_std) and
\* does not touch last_build.toml.
build_std(o) ==
    /\ run.phase = "idle"
    /\ handBuilds < MaxHandBuilds
    /\ handBuilds' = handBuilds + 1
    /\ libstd' \in {o, NoLibrary}
    /\ unrecorded' = (libstd' # NoLibrary /\ libstd' # last_build)
    /\ UNCHANGED <<process, text, objects, last_build, rebuilds, kills>>

-----------------------------------------------------------------------------
\* `make` of the repository has built libstd.a; nothing has written the toml.
Init ==
    /\ run \in {Idle(p) : p \in Projects}
    /\ pending = {} /\ running = {} /\ callers = << >>
    /\ text = [f \in Files |-> 0]
    /\ object = [f \in Files |-> NoObject]
    /\ newer = [f \in Files |-> FALSE]
    /\ libstd = [target |-> Native, gc |-> TRUE]
    /\ last_build = NoRecord
    /\ spoiled = {} /\ unrecorded = FALSE /\ rebuilds = 0 /\ kills = 0 /\ handBuilds = 0

Compile ==
    \/ \E f \in Files : SkipFile(f) \/ compileFile(f)
    \/ \E c \in running : CompilerEnds(c)
    \/ OpenFolder \/ FolderBuilt \/ FoldersBuilt

LinkStep == CheckSTD \/ CleanSTD \/ MakeSTD \/ RemoveLastBuild \/ WriteLastBuild \/ Link

\* A step the tool takes by itself.
Tool ==
    \/ CallChild \/ PassChild \/ ChildrenBuilt \/ Exit
    \/ Compile
    \/ LinkStep

User ==
    \/ \E p \in Projects, c \in {"build", "cross-compile", "test"},
          t \in Targets \cup {Native}, j \in Jobs : Start(p, c, t, j)
    \/ \E f \in Files : Edit(f)
    \/ \E p \in Projects : cleanFiles(p)
    \/ \E o \in Options : build_std(o)
    \/ Kill

Next == Tool \/ User

Spec == Init /\ [][Next]_vars

\* The commands the tool runs end, and it is scheduled.
FairSpec == Spec /\ WF_vars(Tool)
=============================================================================
