-------------------------- MODULE BuildTool_proofs --------------------------
(***************************************************************************)
(* For every set of projects: whatever is edited, killed or built by hand, *)
(* cpoint-build links objects that are as recent as the sources it looked  *)
(* at, with the standard library of the project's options, except where    *)
(* the timestamps or last_build.toml were made wrong from outside.         *)
(***************************************************************************)
EXTENDS BuildToolProperties, TLAPS

-----------------------------------------------------------------------------
(* What the constants and a process are made of                            *)

\* The parts of a project have the types its build.toml gives them.
LEMMA ConfigTypes ==
    ASSUME NEW p \in Projects
    PROVE  /\ Config[p].dependencies \in Seq(Projects)
           /\ Config[p].subprojects \in Seq(Projects)
           /\ Config[p].folders \in Seq(SUBSET Files)
           /\ Config[p].src \in SUBSET Files
           /\ Config[p].gc \in BOOLEAN
           /\ Config[p].exe \in BOOLEAN
           /\ Config[p].tests \in Nat
  BY BuildToolAssumption DEF ConfigAssumption

\* What a process goes through, and what it compiles with.
LEMMA RunTypes ==
    ASSUME NEW r \in Runs
    PROVE  /\ Folders(r) \in Seq(SUBSET Files)
           /\ Children(r) \in Seq(Projects)
           /\ OptionsOf(r) \in Options
           /\ LinkPhase(r) \in {"check", "link"}
  <1>. r.project \in Projects /\ r.target \in Targets \cup {Native}
    BY DEF Runs
  <1>1. Folders(r) \in Seq(SUBSET Files)
    <2>1. /\ Config[r.project].src \in SUBSET Files
          /\ Config[r.project].folders \in Seq(SUBSET Files)
      BY ConfigTypes
    <2>2. /\ <<Config[r.project].src>> \in Seq(SUBSET Files)
          /\ Append(Config[r.project].folders, Config[r.project].src) \in Seq(SUBSET Files)
      BY <2>1
    <2>3. QED
      BY <2>2 DEF Folders
  <1>2. Children(r) \in Seq(Projects)
    BY ConfigTypes DEF Children
  <1>3. (r.command = "test" \/ Config[r.project].gc) \in BOOLEAN
    BY ConfigTypes
  <1>4. OptionsOf(r) \in Options
    BY <1>3 DEF OptionsOf, Options
  <1>5. QED
    BY <1>1, <1>2, <1>4 DEF LinkPhase

\* A file that is linked is in one of the folders that are built.
LEMMA FoldersCover ==
    ASSUME NEW r \in Runs, NEW f \in LinkedFiles(r)
    PROVE  f \in Files /\ \E k \in 1 .. Len(Folders(r)) : f \in Folders(r)[k]
  <1>. DEFINE c == Config[r.project]
  <1>. r.project \in Projects
    BY DEF Runs
  <1>0. c.folders \in Seq(SUBSET Files) /\ c.src \in SUBSET Files
    BY ConfigTypes
  <1>. HIDE DEF c
  <1>1. CASE r.command = "test"
    <2>1. Folders(r) = <<c.src>> /\ LinkedFiles(r) = c.src
      BY <1>1 DEF Folders, LinkedFiles, c
    <2>2. QED
      BY <2>1, <1>0
  <1>2. CASE r.command # "test"
    <2>1. Folders(r) = Append(c.folders, c.src)
      BY <1>2 DEF Folders, c
    <2>2. LinkedFiles(r) = c.src \cup UNION Range(c.folders)
      BY <1>2 DEF LinkedFiles, FilesOf, c
    <2>3. /\ Len(Append(c.folders, c.src)) = Len(c.folders) + 1
          /\ Append(c.folders, c.src)[Len(c.folders) + 1] = c.src
          /\ \A k \in 1 .. Len(c.folders) : Append(c.folders, c.src)[k] = c.folders[k]
      BY <1>0
    <2>4. CASE f \in c.src
      <3>1. Len(c.folders) + 1 \in 1 .. Len(Folders(r))
        BY <2>1, <2>3, <1>0
      <3>2. QED
        BY <2>1, <2>3, <2>4, <3>1, <1>0
    <2>5. CASE f \in UNION Range(c.folders)
      <3>1. PICK k \in DOMAIN c.folders : f \in c.folders[k]
        BY <2>5 DEF Range
      <3>2. k \in 1 .. Len(c.folders) /\ k \in 1 .. Len(Folders(r))
        BY <1>0, <2>1, <2>3
      <3>3. QED
        BY <3>1, <3>2, <2>1, <2>3, <1>0
    <2>6. QED
      BY <2>2, <2>4, <2>5
  <1>3. QED
    BY <1>1, <1>2

\* What a process works on does not depend on how far it is.
LEMMA SameWork ==
    ASSUME NEW r \in Runs, NEW s \in Runs,
           s.project = r.project, s.command = r.command, s.target = r.target
    PROVE  /\ OptionsOf(s) = OptionsOf(r)
           /\ Folders(s) = Folders(r) /\ LinkedFiles(s) = LinkedFiles(r)
           /\ (s.phase = "dependencies" <=> r.phase = "dependencies") => Children(s) = Children(r)
  <1>1. OptionsOf(s) = OptionsOf(r) /\ Folders(s) = Folders(r) /\ LinkedFiles(s) = LinkedFiles(r)
    BY DEF OptionsOf, Folders, LinkedFiles
  <1>2. (s.phase = "dependencies" <=> r.phase = "dependencies") => Children(s) = Children(r)
    BY DEF Children
  <1>3. QED
    BY <1>1, <1>2

\* A process that starts.
LEMMA NewRunTypes ==
    ASSUME NEW p \in Projects, NEW c \in {"build", "cross-compile", "test"},
           NEW t \in Targets \cup {Native}, NEW j \in Nat, NEW s, s = NewRun(p, c, t, j)
    PROVE  /\ s \in Runs /\ s.done = 0 /\ s.phase \in {"folders", "dependencies"}
           /\ \A f \in Files : s.seen[f] = Unseen
           /\ Progress(s)
  <1>1. s \in Runs /\ s.done = 0 /\ s.phase \in {"folders", "dependencies"}
        /\ \A f \in Files : s.seen[f] = Unseen
    BY DEF NewRun, Runs, Phases
  <1>2. Len(Folders(s)) \in Nat /\ Len(Children(s)) \in Nat
    BY <1>1, RunTypes
  <1>3. s.phase \notin Looked /\ s.phase # "compile"
    BY <1>1 DEF Looked
  <1>4. \A k \in 1 .. s.done : FALSE
    BY <1>1
  <1>5. QED
    BY <1>1, <1>2, <1>3, <1>4 DEF Progress

LEMMA IdleTypes ==
    ASSUME NEW p \in Projects, NEW s, s = Idle(p)
    PROVE  /\ s \in Runs /\ s.phase = "idle"
           /\ \A f \in Files : s.seen[f] = Unseen
           /\ Progress(s)
  <1>1. s \in Runs /\ s.phase = "idle" /\ \A f \in Files : s.seen[f] = Unseen
    BY DEF Idle, NewRun, Runs, Phases
  <1>2. QED
    BY <1>1 DEF Progress, Looked, Calling

-----------------------------------------------------------------------------
(* The types                                                               *)

LEMMA TypeInit == Init => TypeOK
  <1>. SUFFICES ASSUME Init PROVE TypeOK
    OBVIOUS
  <1>1. run \in Runs /\ run.phase = "idle"
    BY IdleTypes DEF Init
  <1>2. libstd \in Options
    BY DEF Init, Options
  <1>3. 0 \in Versions
    BY BuildToolAssumption DEF Versions
  <1>4. text \in [Files -> Versions] /\ object \in [Files -> Objects] /\ newer \in [Files -> BOOLEAN]
    BY <1>3 DEF Init, Objects
  <1>5. callers \in Seq(Runs) /\ pending = {} /\ running = {} /\ spoiled = {}
    BY DEF Init
  <1>6. last_build \in Options \cup {NoRecord} /\ unrecorded \in BOOLEAN
        /\ rebuilds \in Nat /\ kills \in Nat /\ handBuilds \in Nat
    BY DEF Init
  <1>7. QED
    BY <1>1, <1>2, <1>4, <1>5, <1>6 DEF TypeOK

LEMMA TypeStep ==
    ASSUME TypeOK, [Next]_vars
    PROVE  TypeOK'
  <1>. run \in Runs
    BY DEF TypeOK
  <1>a. run.done \in Nat /\ run.done + 1 \in Nat /\ run.project \in Projects
    BY DEF Runs
  <1>b. /\ Folders(run) \in Seq(SUBSET Files) /\ Children(run) \in Seq(Projects)
        /\ OptionsOf(run) \in Options
    BY RunTypes
  <1>c. Len(Folders(run)) \in Nat /\ Len(Children(run)) \in Nat
    BY <1>b
  <1>1. CASE UNCHANGED vars
    BY <1>1 DEF TypeOK, vars, process, objects, std, bounds
  <1>2. ASSUME NEW p \in Projects, NEW c \in {"build", "cross-compile", "test"},
               NEW t \in Targets \cup {Native}, NEW j \in Jobs, Start(p, c, t, j)
        PROVE  TypeOK'
    <2>1. run' \in Runs /\ run.phase # "compile"
      BY <1>2, NewRunTypes, BuildToolAssumption DEF Start
    <2>2. QED
      BY <1>2, <2>1 DEF TypeOK, Start, objects, bounds
  <1>3. CASE CallChild
    <2>1. Child(run) \in Projects
      BY <1>3, <1>a, <1>b, <1>c DEF CallChild, Child
    <2>2. run' \in Runs
      BY <1>3, <2>1, NewRunTypes DEF CallChild
    <2>3. callers' \in Seq(Runs) /\ run.phase # "compile"
      <3>1. callers \in Seq(Runs)
        BY DEF TypeOK
      <3>2. callers' = Append(callers, run) /\ run.phase # "compile"
        BY <1>3 DEF CallChild, Calling
      <3>3. QED
        BY <3>1, <3>2
    <2>4. QED
      BY <1>3, <2>2, <2>3 DEF TypeOK, CallChild, objects, std, bounds
  <1>4. CASE PassChild
    <2>1. run' \in Runs /\ run.phase # "compile"
      BY <1>4, <1>a DEF PassChild, Calling, Runs
    <2>2. QED
      BY <1>4, <2>1 DEF TypeOK, PassChild, objects, std, bounds
  <1>5. CASE ChildrenBuilt
    <2>1. PICK ph \in Phases : run' = [run EXCEPT !.phase = ph, !.done = 0]
      BY <1>5, RunTypes DEF ChildrenBuilt, Enter, Phases, Calling
    <2>2. run' \in Runs /\ run.phase # "compile"
      BY <1>5, <2>1 DEF ChildrenBuilt, Calling, Runs
    <2>3. QED
      BY <1>5, <2>2 DEF TypeOK, ChildrenBuilt, objects, std, bounds
  <1>6. CASE Exit
    <2>1. CASE callers = << >>
      <3>1. run' \in Runs /\ callers' = callers /\ run.phase # "compile"
        BY <1>6, <1>a, <2>1, IdleTypes DEF Exit
      <3>2. QED
        BY <1>6, <3>1 DEF TypeOK, Exit, objects, std, bounds
    <2>2. CASE callers # << >>
      <3>. DEFINE caller == callers[Len(callers)]
      <3>1. callers \in Seq(Runs) /\ Len(callers) \in Nat \ {0} /\ caller \in Runs
        BY <2>2 DEF TypeOK
      <3>2. run' = [caller EXCEPT !.done = @ + 1] /\ callers' = SubSeq(callers, 1, Len(callers) - 1)
        BY <1>6, <2>2 DEF Exit
      <3>. HIDE DEF caller
      <3>3. caller.done + 1 \in Nat /\ caller.phase \in Phases
        BY <3>1 DEF Runs
      <3>4. run' \in Runs
        BY <3>1, <3>2, <3>3 DEF Runs
      <3>5. callers' \in Seq(Runs)
        BY <3>1, <3>2
      <3>6. run.phase # "compile"
        BY <1>6 DEF Exit
      <3>7. QED
        BY <1>6, <3>4, <3>5, <3>6 DEF TypeOK, Exit, objects, std, bounds
    <2>3. QED
      BY <2>1, <2>2
  <1>7. CASE OpenFolder
    <2>1. pending' \in SUBSET Files
      BY <1>7, <1>a, <1>b, <1>c DEF OpenFolder
    <2>2. run' \in Runs /\ run'.phase = "compile"
      BY <1>7, <1>a DEF OpenFolder, Phases, Runs
    <2>3. QED
      BY <1>7, <2>1, <2>2 DEF TypeOK, OpenFolder, objects, std, bounds
  <1>8. ASSUME NEW f \in Files, LookAt(f)
        PROVE  run' \in Runs /\ pending' \in SUBSET Files /\ text[f] \in Versions
               /\ run.phase = "compile" /\ run'.phase = "compile"
    BY <1>8 DEF LookAt, TypeOK, Runs
  <1>9. ASSUME NEW f \in Files, SkipFile(f)
        PROVE  TypeOK'
    BY <1>8, <1>9 DEF TypeOK, SkipFile, objects, std, bounds
  <1>10. ASSUME NEW f \in Files, compileFile(f)
         PROVE  TypeOK'
    <2>1. [file |-> f, text |-> text[f]] \in Compilers
      BY <1>8, <1>10 DEF compileFile, Compilers
    <2>2. QED
      BY <1>8, <1>10, <2>1 DEF TypeOK, compileFile, objects, std, bounds
  <1>11. ASSUME NEW c \in running, CompilerEnds(c)
         PROVE  TypeOK'
    <2>1. c \in Compilers /\ c.file \in Files /\ c.text \in Versions
      BY <1>11 DEF TypeOK, Compilers
    <2>2. [text |-> c.text, by |-> OptionsOf(run)] \in Objects
      BY <1>b, <2>1 DEF Objects
    <2>3. object' \in [Files -> Objects] /\ newer' \in [Files -> BOOLEAN] /\ spoiled' \in SUBSET Files
      <3>1. object \in [Files -> Objects] /\ newer \in [Files -> BOOLEAN] /\ spoiled \in SUBSET Files
        BY DEF TypeOK
      <3>2. CASE <<c.file, c.text>> \in Broken
        BY <1>11, <3>1, <3>2 DEF CompilerEnds, objects
      <3>3. CASE <<c.file, c.text>> \notin Broken
        <4>1. object' \in [Files -> Objects]
          BY <1>11, <2>1, <2>2, <3>1, <3>3 DEF CompilerEnds
        <4>2. newer' \in [Files -> BOOLEAN] /\ spoiled' \in SUBSET Files
          BY <1>11, <2>1, <3>1, <3>3 DEF CompilerEnds
        <4>3. QED
          BY <4>1, <4>2
      <3>4. QED
        BY <3>2, <3>3
    <2>4. running' \in SUBSET Compilers /\ (run.phase # "compile" => running' = {})
      BY <1>11 DEF CompilerEnds, TypeOK
    <2>5. QED
      BY <1>11, <2>3, <2>4 DEF TypeOK, CompilerEnds, std, bounds
  <1>12. CASE FolderBuilt
    <2>1. run' = [run EXCEPT !.phase = "folders", !.done = run.done + 1]
      BY <1>12 DEF FolderBuilt
    <2>2. run' \in Runs
      BY <2>1, <1>a DEF Phases, Runs
    <2>3. QED
      BY <1>12, <2>2 DEF TypeOK, FolderBuilt, objects, std, bounds
  <1>13. CASE FoldersBuilt
    <2>1. PICK ph \in Phases : run' = [run EXCEPT !.phase = ph, !.done = 0]
      BY <1>13 DEF FoldersBuilt, Enter, Phases
    <2>2. run' \in Runs /\ run.phase # "compile"
      BY <1>13, <2>1 DEF FoldersBuilt, Runs
    <2>3. QED
      BY <1>13, <2>2 DEF TypeOK, FoldersBuilt, objects, std, bounds
  <1>14. ASSUME LinkStep
         PROVE  TypeOK'
    <2>1. run' \in Runs /\ run.phase # "compile"
      <3>1. CASE Link
        BY <3>1, <1>a DEF Link, Phases, Runs
      <3>2. CASE CheckSTD \/ CleanSTD \/ MakeSTD \/ RemoveLastBuild \/ WriteLastBuild
        <4>1. \E ph \in Phases : run' = [run EXCEPT !.phase = ph] /\ run.phase # "compile"
          BY <3>2 DEF CheckSTD, CleanSTD, MakeSTD, RemoveLastBuild, WriteLastBuild, Phases
        <4>2. QED
          BY <4>1, <1>a DEF Runs
      <3>3. QED
        BY <1>14, <3>1, <3>2 DEF LinkStep
    <2>3. /\ libstd' \in Options \cup {NoLibrary}
          /\ last_build' \in Options \cup {NoRecord}
          /\ unrecorded' \in BOOLEAN /\ rebuilds' \in Nat
      <3>1. CASE CheckSTD \/ Link
        BY <3>1 DEF CheckSTD, Link, std, TypeOK
      <3>2. CASE CleanSTD \/ RemoveLastBuild
        BY <3>2 DEF CleanSTD, RemoveLastBuild, TypeOK
      <3>3. CASE MakeSTD
        <4>1. libstd \in Options \cup {NoLibrary} /\ rebuilds \in Nat
          BY DEF TypeOK
        <4>2. libstd' \in Options \cup {NoLibrary} /\ rebuilds' \in Nat
          BY <3>3, <1>b, <4>1 DEF MakeSTD
        <4>3. unrecorded' \in BOOLEAN
          BY <3>3 DEF MakeSTD
        <4>4. last_build' \in Options \cup {NoRecord}
          BY <3>3 DEF MakeSTD, TypeOK
        <4>5. QED
          BY <4>2, <4>3, <4>4
      <3>4. CASE WriteLastBuild
        BY <3>4, <1>b DEF WriteLastBuild, TypeOK
      <3>5. QED
        BY <1>14, <3>1, <3>2, <3>3, <3>4 DEF LinkStep
    <2>4. UNCHANGED <<pending, running, callers, text, objects, bounds>>
      BY <1>14 DEF LinkStep, CheckSTD, CleanSTD, MakeSTD, RemoveLastBuild,
                   WriteLastBuild, Link, std
    <2>5. QED
      BY <2>1, <2>3, <2>4 DEF TypeOK, objects, bounds
  <1>15. ASSUME NEW f \in Files, Edit(f)
         PROVE  TypeOK'
    <2>1. text[f] + 1 \in Versions
      BY <1>15, BuildToolAssumption DEF Edit, TypeOK, Versions
    <2>2. text' \in [Files -> Versions] /\ newer' \in [Files -> BOOLEAN]
      BY <1>15, <2>1 DEF Edit, TypeOK
    <2>3. QED
      BY <1>15, <2>2 DEF TypeOK, Edit, process, std, bounds
  <1>16. ASSUME NEW p \in Projects, cleanFiles(p)
         PROVE  TypeOK'
    <2>1. object' \in [Files -> Objects] /\ spoiled' \in SUBSET Files
      BY <1>16 DEF TypeOK, cleanFiles, Objects
    <2>2. QED
      BY <1>16, <2>1 DEF TypeOK, cleanFiles, process, std, bounds
  <1>17. ASSUME NEW o \in Options, build_std(o)
         PROVE  TypeOK'
    <2>1. libstd' \in Options \cup {NoLibrary} /\ unrecorded' \in BOOLEAN /\ handBuilds' \in Nat
      BY <1>17 DEF TypeOK, build_std
    <2>2. QED
      BY <1>17, <2>1 DEF TypeOK, build_std, process, objects
  <1>18. CASE Kill
    <2>1. run' \in Runs /\ run'.phase = "idle"
      BY <1>18, <1>a, IdleTypes DEF Kill
    <2>2. PICK cut \in SUBSET {c.file : c \in {d \in running : <<d.file, d.text>> \notin Broken}} :
              /\ object' = [f \in Files |-> IF f \in cut THEN [text |-> Torn, by |-> OptionsOf(run)]
                                            ELSE object[f]]
              /\ newer' = [f \in Files |-> f \notin cut /\ newer[f]]
              /\ spoiled' = spoiled \cup cut
      BY <1>18 DEF Kill
    <2>3. cut \in SUBSET Files
      <3>1. \A c \in running : c.file \in Files
        BY DEF TypeOK, Compilers
      <3>2. QED
        BY <3>1
    <2>4. [text |-> Torn, by |-> OptionsOf(run)] \in Objects
      BY <1>b DEF Objects
    <2>5. object' \in [Files -> Objects] /\ spoiled' \in SUBSET Files
      BY <2>2, <2>3, <2>4 DEF TypeOK
    <2>6. newer' \in [Files -> BOOLEAN]
      BY <2>2
    <2>7. unrecorded' \in BOOLEAN
      BY <1>18 DEF Kill, TypeOK
    <2>8. callers' \in Seq(Runs) /\ pending' = {} /\ running' = {} /\ kills' \in Nat
      BY <1>18 DEF Kill, TypeOK
    <2>9. QED
      BY <1>18, <2>1, <2>5, <2>6, <2>7, <2>8 DEF TypeOK, Kill
  <1>19. QED
    BY <1>1, <1>2, <1>3, <1>4, <1>5, <1>6, <1>7, <1>9, <1>10, <1>11, <1>12, <1>13,
       <1>14, <1>15, <1>16, <1>17, <1>18 DEF Next, Tool, User, Compile

-----------------------------------------------------------------------------
(* The standard library                                                    *)

\* A step far from the link, that leaves the standard library alone.
LEMMA StandardKept ==
    ASSUME StandardLibrary, UNCHANGED <<libstd, last_build, unrecorded>>,
           run.phase # "forget", run'.phase \notin {"make", "forget", "record"},
           run'.phase # "link" \/ ~Config[run'.project].exe
    PROVE  StandardLibrary'
  BY DEF StandardLibrary, LinkedStandardLibrary, Linking

LEMMA StandardInit == Init => StandardLibrary
  <1>. SUFFICES ASSUME Init PROVE StandardLibrary
    OBVIOUS
  <1>1. run.phase = "idle" /\ last_build = NoRecord
    BY IdleTypes DEF Init
  <1>2. QED
    BY <1>1 DEF StandardLibrary, LinkedStandardLibrary, Linking

LEMMA StandardStep ==
    ASSUME TypeOK, TypeOK', Processes, StandardLibrary, [Next]_vars
    PROVE  StandardLibrary'
  <1>. run \in Runs /\ run' \in Runs
    BY DEF TypeOK
  <1>a. OptionsOf(run) \in Options /\ NoRecord \notin Options /\ NoLibrary \notin Options
    BY RunTypes, BuildToolAssumption
  <1>1. CASE UNCHANGED <<run, libstd, last_build, unrecorded>>
    BY <1>1 DEF StandardLibrary, LinkedStandardLibrary, Linking
  <1>2. ASSUME NEW p \in Projects, NEW c \in {"build", "cross-compile", "test"},
               NEW t \in Targets \cup {Native}, NEW j \in Jobs, Start(p, c, t, j)
        PROVE  StandardLibrary'
    <2>1. run.phase = "idle" /\ run'.phase \in {"folders", "dependencies"}
      BY <1>2, NewRunTypes, BuildToolAssumption DEF Start
    <2>2. QED
      BY <1>2, <2>1, StandardKept DEF Start
  <1>3. CASE CallChild
    <2>1. run.phase \in Calling /\ run'.phase \in {"folders", "dependencies"}
      BY <1>3 DEF CallChild, NewRun
    <2>2. QED
      BY <1>3, <2>1, StandardKept DEF CallChild, Calling, std
  <1>4. CASE PassChild
    <2>1. run.phase \in Calling /\ run'.phase = run.phase
      BY <1>4 DEF PassChild, Runs
    <2>2. QED
      BY <1>4, <2>1, StandardKept DEF PassChild, Calling, std
  <1>5. CASE ChildrenBuilt
    <2>1. run.phase \in Calling /\ run'.project = run.project
          /\ run'.phase \in {"folders", "gc subprojects", LinkPhase(run)}
      BY <1>5 DEF ChildrenBuilt, Enter, Calling, Runs
    <2>2. run'.phase # "link" \/ ~Config[run'.project].exe
      BY <2>1 DEF LinkPhase
    <2>3. run'.phase \notin {"make", "forget", "record"}
      BY <2>1, RunTypes
    <2>4. QED
      BY <1>5, <2>1, <2>2, <2>3, StandardKept DEF ChildrenBuilt, Calling, std
  <1>6. CASE Exit
    <2>1. CASE callers = << >>
      <3>1. run.phase = "exit" /\ run'.phase = "idle"
        BY <1>6, <2>1, IdleTypes DEF Exit, Runs
      <3>2. QED
        BY <1>6, <3>1, StandardKept DEF Exit, std
    <2>2. CASE callers # << >>
      <3>1. /\ callers \in Seq(Runs)
            /\ Len(callers) \in 1 .. Len(callers)
        BY <2>2 DEF TypeOK
      <3>2. callers[Len(callers)].phase \in Calling /\ callers[Len(callers)] \in Runs
        BY <3>1 DEF Processes
      <3>3. run.phase = "exit" /\ run'.phase \in Calling
        BY <1>6, <2>2, <3>2 DEF Exit, Runs
      <3>4. QED
        BY <1>6, <3>3, StandardKept DEF Exit, std, Calling
    <2>3. QED
      BY <2>1, <2>2
  <1>7. CASE OpenFolder
    <2>1. run.phase = "folders" /\ run'.phase = "compile"
      BY <1>7 DEF OpenFolder, Runs
    <2>2. QED
      BY <1>7, <2>1, StandardKept DEF OpenFolder, std
  <1>8. ASSUME NEW f \in Files, SkipFile(f) \/ compileFile(f)
        PROVE  StandardLibrary'
    <2>1. run.phase = "compile" /\ run'.phase = "compile"
      BY <1>8 DEF SkipFile, compileFile, LookAt, Runs
    <2>2. QED
      BY <1>8, <2>1, StandardKept DEF SkipFile, compileFile, std
  <1>9. ASSUME NEW c \in running, CompilerEnds(c)
        PROVE  StandardLibrary'
    BY <1>1, <1>9 DEF CompilerEnds, std
  <1>10. CASE FolderBuilt
    <2>1. run.phase = "compile" /\ run'.phase = "folders"
      BY <1>10 DEF FolderBuilt, Runs
    <2>2. QED
      BY <1>10, <2>1, StandardKept DEF FolderBuilt, std
  <1>11. CASE FoldersBuilt
    <2>1. run.phase = "folders" /\ run'.phase \in {"no gc subprojects", "exit", "check"}
      BY <1>11 DEF FoldersBuilt, Enter, Runs
    <2>2. QED
      BY <1>11, <2>1, StandardKept DEF FoldersBuilt, std
  <1>b. ASSUME LinkStep
        PROVE  /\ run'.project = run.project /\ run'.command = run.command
               /\ run'.target = run.target
    BY <1>b DEF LinkStep, CheckSTD, CleanSTD, MakeSTD, RemoveLastBuild, WriteLastBuild, Link, Runs
  <1>c. ASSUME LinkStep
        PROVE  OptionsOf(run') = OptionsOf(run)
    BY <1>b, <1>c, SameWork
  <1>12. CASE CheckSTD
    <2>1. /\ run.phase = "check"
          /\ run'.phase = IF shouldRebuildSTD(OptionsOf(run)) THEN "clean" ELSE "forget"
          /\ UNCHANGED <<libstd, last_build, unrecorded>>
      BY <1>12 DEF CheckSTD, std, Runs
    <2>2. CASE shouldRebuildSTD(OptionsOf(run))
      BY <2>1, <2>2, StandardKept
    <2>3. CASE ~shouldRebuildSTD(OptionsOf(run))
      <3>1. run'.phase = "forget" /\ libstd # NoLibrary /\ last_build = OptionsOf(run)
        BY <2>1, <2>3 DEF shouldRebuildSTD
      <3>2. libstd = OptionsOf(run) \/ unrecorded
        BY <2>1, <3>1, <1>a DEF StandardLibrary
      <3>3. QED
        BY <1>12, <1>c, <2>1, <3>1, <3>2 DEF StandardLibrary, LinkedStandardLibrary, Linking, LinkStep
    <2>4. QED
      BY <2>2, <2>3
  <1>13. CASE CleanSTD
    <2>1. run'.phase = "make" /\ libstd' = NoLibrary
      BY <1>13 DEF CleanSTD, Runs
    <2>2. QED
      BY <2>1 DEF StandardLibrary, LinkedStandardLibrary, Linking
  <1>14. CASE MakeSTD
    <2>1. /\ run.phase = "make" /\ run'.phase = "forget"
          /\ libstd' = OptionsOf(run) \/ libstd' = libstd
      BY <1>14 DEF MakeSTD, Runs
    <2>2. libstd' \in {OptionsOf(run), NoLibrary}
      BY <2>1 DEF StandardLibrary
    <2>3. QED
      BY <1>14, <1>c, <2>1, <2>2 DEF StandardLibrary, LinkedStandardLibrary, Linking, LinkStep
  <1>15. CASE RemoveLastBuild
    <2>1. /\ run.phase = "forget" /\ run'.phase = "record" /\ last_build' = NoRecord
          /\ UNCHANGED <<libstd, unrecorded>>
      BY <1>15 DEF RemoveLastBuild, Runs
    <2>2. QED
      BY <1>15, <1>c, <2>1 DEF StandardLibrary, LinkedStandardLibrary, Linking, LinkStep
  <1>16. CASE WriteLastBuild
    <2>1. /\ run.phase = "record" /\ run'.phase = "link" /\ last_build' = OptionsOf(run)
          /\ UNCHANGED <<libstd, unrecorded>>
      BY <1>16 DEF WriteLastBuild, Runs
    <2>2. QED
      BY <1>16, <1>c, <2>1 DEF StandardLibrary, LinkedStandardLibrary, Linking, LinkStep
  <1>17. CASE Link
    <2>1. run.phase = "link" /\ run'.phase \in {"check", "exit"}
      BY <1>17 DEF Link, Runs
    <2>2. QED
      BY <1>17, <2>1, StandardKept DEF Link, std
  <1>18. ASSUME NEW o \in Options, build_std(o)
         PROVE  StandardLibrary'
    <2>1. run.phase = "idle" /\ run' = run /\ last_build' = last_build
      BY <1>18 DEF build_std, process
    <2>2. unrecorded' = (libstd' # NoLibrary /\ libstd' # last_build)
      BY <1>18 DEF build_std
    <2>3. QED
      BY <2>1, <2>2 DEF StandardLibrary, LinkedStandardLibrary, Linking
  <1>19. CASE Kill
    <2>1. run'.phase = "idle" /\ UNCHANGED <<libstd, last_build>>
      BY <1>19, IdleTypes DEF Kill, Runs
    <2>2. unrecorded' = (unrecorded \/ (run.phase = "forget" /\ libstd # last_build))
      BY <1>19 DEF Kill
    <2>3. QED
      BY <2>1, <2>2 DEF StandardLibrary, LinkedStandardLibrary, Linking
  <1>20. ASSUME NEW f \in Files, Edit(f)
         PROVE  StandardLibrary'
    BY <1>1, <1>20 DEF Edit, process, std
  <1>21. ASSUME NEW p \in Projects, cleanFiles(p)
         PROVE  StandardLibrary'
    BY <1>1, <1>21 DEF cleanFiles, process, std
  <1>22. CASE UNCHANGED vars
    BY <1>1, <1>22 DEF vars, process, std
  <1>23. QED
    BY <1>2, <1>3, <1>4, <1>5, <1>6, <1>7, <1>8, <1>9, <1>10, <1>11, <1>12, <1>13, <1>14, <1>15,
       <1>16, <1>17, <1>18, <1>19, <1>20, <1>21, <1>22 DEF Next, Tool, User, Compile, LinkStep

-----------------------------------------------------------------------------
(* The processes                                                           *)

LEMMA ProcessesInit == Init => Processes
  <1>. SUFFICES ASSUME Init PROVE Processes
    OBVIOUS
  <1>1. run.phase = "idle" /\ Progress(run) /\ \A f \in Files : run.seen[f] = Unseen
    BY IdleTypes DEF Init
  <1>2. callers = << >>
    BY DEF Init
  <1>3. QED
    BY <1>1, <1>2 DEF Processes

\* A process that goes on with the same callers, and is not in a folder.
LEMMA ProcessGoesOn ==
    ASSUME Processes, Progress(run'), UNCHANGED callers, run'.phase \notin {"compile", "idle"}
    PROVE  Processes'
  <1>1. \A i \in 1 .. Len(callers) :
            callers'[i].phase \in Calling /\ Progress(callers'[i])
            /\ callers'[i].done < Len(Children(callers'[i]))
    BY DEF Processes
  <1>2. QED
    BY <1>1 DEF Processes

\* A process that has looked at all its files goes to another phase.
LEMMA ProgressLooked ==
    ASSUME NEW r \in Runs, NEW s \in Runs,
           s.project = r.project, s.command = r.command, s.target = r.target, s.seen = r.seen,
           \A f \in LinkedFiles(r) : r.seen[f] # Unseen,
           s.phase \in Looked \cup {"exit"},
           s.phase \in Calling => s.done <= Len(Children(s))
    PROVE  Progress(s)
  BY SameWork DEF Progress, Looked

LEMMA ProcessesStep ==
    ASSUME TypeOK, TypeOK', Processes, [Next]_vars
    PROVE  Processes'
  <1>. run \in Runs /\ run' \in Runs /\ callers \in Seq(Runs)
    BY DEF TypeOK
  <1>a. /\ Folders(run) \in Seq(SUBSET Files) /\ Len(Folders(run)) \in Nat
        /\ Children(run) \in Seq(Projects) /\ Len(Children(run)) \in Nat
        /\ Children(run') \in Seq(Projects) /\ Len(Children(run')) \in Nat
        /\ Folders(run') \in Seq(SUBSET Files) /\ Len(Folders(run')) \in Nat
        /\ run.done \in Nat
    BY RunTypes DEF Runs
  <1>d. 0 <= Len(Children(run')) /\ 0 <= Len(Folders(run'))
    BY <1>a
  <1>b. Progress(run)
    BY DEF Processes
  <1>c. ASSUME run.phase \in Looked
        PROVE  \A f \in LinkedFiles(run) : run.seen[f] # Unseen
    BY <1>b, <1>c DEF Progress
  <1>1. CASE UNCHANGED <<run, pending, callers>>
    BY <1>1 DEF Processes
  <1>2. ASSUME NEW p \in Projects, NEW c \in {"build", "cross-compile", "test"},
               NEW t \in Targets \cup {Native}, NEW j \in Jobs, Start(p, c, t, j)
        PROVE  Processes'
    <2>1. Progress(run') /\ run'.phase \in {"folders", "dependencies"}
      BY <1>2, NewRunTypes, BuildToolAssumption DEF Start
    <2>2. QED
      BY <1>2, <2>1, ProcessGoesOn DEF Start
  <1>3. CASE CallChild
    <2>1. /\ run.phase \in Calling /\ run.done < Len(Children(run))
          /\ callers' = Append(callers, run)
      BY <1>3 DEF CallChild
    <2>2. Child(run) \in Projects
      BY <2>1, <1>a DEF Child
    <2>3. Progress(run') /\ run'.phase \in {"folders", "dependencies"}
      BY <1>3, <2>2, NewRunTypes DEF CallChild
    <2>4. ASSUME NEW i \in 1 .. Len(callers')
          PROVE  callers'[i].phase \in Calling /\ Progress(callers'[i])
                 /\ callers'[i].done < Len(Children(callers'[i]))
      <3>1. (i \in 1 .. Len(callers) /\ callers'[i] = callers[i]) \/ callers'[i] = run
        BY <2>1
      <3>2. QED
        BY <3>1, <2>1, <1>b DEF Processes
    <2>5. QED
      BY <2>3, <2>4 DEF Processes
  <1>4. CASE PassChild
    <2>1. /\ run.phase \in Calling /\ run.done < Len(Children(run)) /\ callers' = callers
          /\ run'.phase = run.phase /\ run'.done = run.done + 1 /\ run'.seen = run.seen
          /\ run'.project = run.project /\ run'.command = run.command /\ run'.target = run.target
      BY <1>4 DEF PassChild, Runs
    <2>2. Children(run') = Children(run) /\ LinkedFiles(run') = LinkedFiles(run)
      BY <2>1, SameWork
    <2>3. run'.done <= Len(Children(run'))
      BY <2>1, <2>2, <1>a
    <2>4. run'.phase \in Looked => \A f \in LinkedFiles(run') : run'.seen[f] # Unseen
      BY <2>1, <2>2, <1>c
    <2>5. Progress(run')
      BY <2>1, <2>3, <2>4 DEF Progress, Calling
    <2>6. QED
      BY <2>1, <2>5, ProcessGoesOn DEF Calling
  <1>5. CASE ChildrenBuilt
    <2>1. /\ run.phase \in Calling /\ callers' = callers
          /\ run'.done = 0 /\ run'.seen = run.seen
          /\ run'.project = run.project /\ run'.command = run.command /\ run'.target = run.target
      BY <1>5 DEF ChildrenBuilt, Enter, Runs
    <2>2. CASE run.phase = "dependencies"
      <3>1. run'.phase = "folders"
        BY <1>5, <2>2 DEF ChildrenBuilt, Enter, Runs
      <3>2. \A k \in 1 .. run'.done : FALSE
        BY <2>1
      <3>3. Progress(run')
        BY <2>1, <3>1, <3>2, <1>d DEF Progress, Calling, Looked
      <3>4. QED
        BY <2>1, <3>1, <3>3, ProcessGoesOn
    <2>3. CASE run.phase # "dependencies"
      <3>1. run.phase \in Looked /\ run'.phase \in {"gc subprojects", "check", "link"}
        BY <1>5, <2>1, <2>3, RunTypes DEF ChildrenBuilt, Enter, Runs, Calling, Looked, Phases
      <3>2. run'.phase \in Looked
        BY <3>1 DEF Looked, Phases
      <3>3. run'.done <= Len(Children(run'))
        BY <2>1, <1>a
      <3>4. Progress(run')
        BY <2>1, <3>1, <3>2, <3>3, <1>c, ProgressLooked
      <3>5. QED
        BY <2>1, <3>1, <3>4, ProcessGoesOn
    <2>4. QED
      BY <2>2, <2>3
  <1>6. CASE Exit
    <2>1. CASE callers = << >>
      <3>1. run'.phase = "idle" /\ Progress(run') /\ callers' = << >>
            /\ \A f \in Files : run'.seen[f] = Unseen
        BY <1>6, <2>1, IdleTypes DEF Exit, Runs
      <3>2. QED
        BY <3>1 DEF Processes
    <2>2. CASE callers # << >>
      <3>. DEFINE r == callers[Len(callers)]
      <3>1. Len(callers) \in Nat /\ Len(callers) \in 1 .. Len(callers) /\ r \in Runs
        BY <2>2
      <3>2. r.phase \in Calling /\ Progress(r) /\ r.done < Len(Children(r))
        BY <3>1 DEF Processes
      <3>3. /\ run' = [r EXCEPT !.done = @ + 1]
            /\ callers' = SubSeq(callers, 1, Len(callers) - 1)
        BY <1>6, <2>2 DEF Exit
      <3>. HIDE DEF r
      <3>4. /\ run'.phase = r.phase /\ run'.done = r.done + 1 /\ run'.seen = r.seen
            /\ run'.project = r.project /\ run'.command = r.command /\ run'.target = r.target
        BY <3>1, <3>3 DEF Runs
      <3>5. Children(run') = Children(r) /\ LinkedFiles(run') = LinkedFiles(r)
        BY <3>1, <3>4, SameWork
      <3>6. r.done \in Nat /\ Len(Children(r)) \in Nat
        BY <3>1, RunTypes DEF Runs
      <3>7. run'.done <= Len(Children(run'))
        BY <3>2, <3>4, <3>5, <3>6
      <3>8. run'.phase \in Looked => \A f \in LinkedFiles(run') : run'.seen[f] # Unseen
        BY <3>2, <3>4, <3>5 DEF Progress
      <3>9. run'.phase \notin {"folders", "compile"}
        BY <3>2, <3>4 DEF Calling
      <3>10. Progress(run')
        BY <3>7, <3>8, <3>9 DEF Progress
      <3>11. ASSUME NEW i \in 1 .. Len(callers')
            PROVE  callers'[i].phase \in Calling /\ Progress(callers'[i])
                   /\ callers'[i].done < Len(Children(callers'[i]))
        <4>1. i \in 1 .. Len(callers) /\ callers'[i] = callers[i]
          BY <3>1, <3>3
        <4>2. QED
          BY <4>1 DEF Processes
      <3>12. QED
        BY <3>2, <3>4, <3>10, <3>11 DEF Processes, Calling
    <2>3. QED
      BY <2>1, <2>2
  <1>7. CASE OpenFolder
    <2>1. /\ run.phase = "folders" /\ run.done < Len(Folders(run)) /\ callers' = callers
          /\ pending' = Folders(run)[run.done + 1]
          /\ run'.phase = "compile" /\ run'.done = run.done /\ run'.seen = run.seen
          /\ run'.project = run.project /\ run'.command = run.command /\ run'.target = run.target
      BY <1>7 DEF OpenFolder, Runs
    <2>2. Folders(run') = Folders(run)
      BY <2>1, SameWork
    <2>3. Progress(run')
      BY <2>1, <2>2, <1>b DEF Progress, Calling, Looked
    <2>4. \A f \in Folders(run')[run'.done + 1] \ pending' : FALSE
      BY <2>1, <2>2
    <2>5. QED
      BY <2>1, <2>3, <2>4 DEF Processes
  <1>8. ASSUME NEW f \in Files, LookAt(f), callers' = callers
        PROVE  Processes'
    <2>1. /\ run.phase = "compile" /\ pending' = pending \ {f}
          /\ run'.phase = "compile" /\ run'.done = run.done
          /\ run'.seen = [run.seen EXCEPT ![f] = text[f]]
          /\ run'.project = run.project /\ run'.command = run.command /\ run'.target = run.target
      BY <1>8 DEF LookAt, Runs
    <2>2. Folders(run') = Folders(run)
      BY <2>1, SameWork
    <2>3. run.seen \in [Files -> Versions \cup {Unseen}] /\ text[f] \in Versions
      BY DEF Runs, TypeOK
    <2>4. run'.seen[f] # Unseen
      BY <2>1, <2>3 DEF Versions, Unseen
    <2>5. \A g : run.seen[g] # Unseen => run'.seen[g] # Unseen
      BY <2>1, <2>3, <2>4
    <2>6. Progress(run')
      BY <2>1, <2>2, <2>5, <1>b DEF Progress, Calling, Looked
    <2>7. \A g \in Folders(run')[run'.done + 1] \ pending' : run'.seen[g] # Unseen
      BY <2>1, <2>2, <2>4, <2>5 DEF Processes
    <2>8. QED
      BY <1>8, <2>1, <2>6, <2>7 DEF Processes
  <1>9. ASSUME NEW f \in Files, SkipFile(f) \/ compileFile(f)
        PROVE  Processes'
    BY <1>8, <1>9 DEF SkipFile, compileFile
  <1>10. ASSUME NEW c \in running, CompilerEnds(c)
         PROVE  Processes'
    BY <1>1, <1>10 DEF CompilerEnds
  <1>11. CASE FolderBuilt
    <2>1. /\ run.phase = "compile" /\ pending = {} /\ callers' = callers
          /\ run'.phase = "folders" /\ run'.done = run.done + 1 /\ run'.seen = run.seen
          /\ run'.project = run.project /\ run'.command = run.command /\ run'.target = run.target
      BY <1>11 DEF FolderBuilt, Runs
    <2>2. Folders(run') = Folders(run)
      BY <2>1, SameWork
    <2>3. run'.done <= Len(Folders(run'))
      BY <2>1, <2>2, <1>a, <1>b DEF Progress
    <2>4. ASSUME NEW k \in 1 .. run'.done
          PROVE  \A f \in Folders(run')[k] : run'.seen[f] # Unseen
      <3>1. k \in 1 .. run.done \/ k = run.done + 1
        BY <2>1, <1>a
      <3>2. CASE k \in 1 .. run.done
        BY <2>1, <2>2, <3>2, <1>b DEF Progress
      <3>3. CASE k = run.done + 1
        BY <2>1, <2>2, <3>3 DEF Processes
      <3>4. QED
        BY <3>1, <3>2, <3>3
    <2>5. Progress(run')
      BY <2>1, <2>3, <2>4 DEF Progress, Calling, Looked
    <2>6. QED
      BY <2>1, <2>5, ProcessGoesOn
  <1>12. CASE FoldersBuilt
    <2>1. /\ run.phase = "folders" /\ run.done = Len(Folders(run)) /\ callers' = callers
          /\ run'.phase \in {"no gc subprojects", "exit", "check"} /\ run'.done = 0
          /\ run'.seen = run.seen
          /\ run'.project = run.project /\ run'.command = run.command /\ run'.target = run.target
      BY <1>12 DEF FoldersBuilt, Enter, Runs
    <2>2. \A f \in LinkedFiles(run) : run.seen[f] # Unseen
      BY <2>1, <1>b, FoldersCover DEF Progress
    <2>3. run'.done <= Len(Children(run'))
      BY <2>1, <1>d
    <2>6. run'.phase \in Looked \cup {"exit"}
      BY <2>1 DEF Looked, Phases
    <2>4. Progress(run')
      BY <2>1, <2>2, <2>3, <2>6, ProgressLooked
    <2>5. QED
      BY <2>1, <2>4, ProcessGoesOn
  <1>13. CASE LinkStep
    <2>1. /\ run.phase \in Looked /\ callers' = callers
          /\ run'.phase \in {"check", "clean", "make", "forget", "record", "link", "exit"}
          /\ run'.seen = run.seen
          /\ run'.project = run.project /\ run'.command = run.command /\ run'.target = run.target
      <3>1. run.phase \in Looked /\ callers' = callers
        BY <1>13 DEF LinkStep, CheckSTD, CleanSTD, MakeSTD, RemoveLastBuild, WriteLastBuild,
                     Link, Looked, Phases
      <3>2. CASE Link
        BY <3>1, <3>2 DEF Link, Runs
      <3>3. CASE CheckSTD \/ CleanSTD \/ MakeSTD \/ RemoveLastBuild \/ WriteLastBuild
        BY <3>1, <3>3 DEF CheckSTD, CleanSTD, MakeSTD, RemoveLastBuild, WriteLastBuild, Runs
      <3>4. QED
        BY <1>13, <3>2, <3>3 DEF LinkStep
    <2>2. run'.phase \in Looked \cup {"exit"} /\ run'.phase \notin Calling
      BY <2>1 DEF Looked, Phases, Calling
    <2>3. Progress(run')
      BY <2>1, <2>2, <1>c, ProgressLooked
    <2>4. QED
      BY <2>1, <2>3, ProcessGoesOn
  <1>14. CASE Kill
    <2>1. run'.phase = "idle" /\ Progress(run') /\ callers' = << >>
          /\ \A f \in Files : run'.seen[f] = Unseen
      BY <1>14, IdleTypes DEF Kill, Runs
    <2>2. QED
      BY <2>1 DEF Processes
  <1>15. ASSUME \/ \E f \in Files : Edit(f)
                \/ \E p \in Projects : cleanFiles(p)
                \/ \E o \in Options : build_std(o)
                \/ UNCHANGED vars
         PROVE  Processes'
    <2>1. UNCHANGED process
      BY <1>15 DEF Edit, cleanFiles, build_std, vars
    <2>2. QED
      BY <1>1, <2>1 DEF process
  <1>16. QED
    BY <1>2, <1>3, <1>4, <1>5, <1>6, <1>7, <1>9, <1>10, <1>11, <1>12, <1>13, <1>14, <1>15
       DEF Next, Tool, User, Compile

-----------------------------------------------------------------------------
(* The object files                                                        *)

\* A compiler that ends leaves an object as recent as the text it read, and
\* the other objects alone.
LEMMA CompilerWrites ==
    ASSUME TypeOK, NEW c \in running, CompilerEnds(c)
    PROVE  /\ c.file \in Files /\ c.text \in Versions
           /\ \A f \in Files \ {c.file} : \A v \in Versions \cup {Unseen} :
                  AsRecentAs(f, v) => AsRecentAs(f, v)'
           /\ \A v \in Versions \cup {Unseen} :
                  v <= c.text /\ (AsRecentAs(c.file, v) \/ v = c.text) => AsRecentAs(c.file, v)'
  <1>1. c.file \in Files /\ c.text \in Versions
    BY DEF TypeOK, Compilers
  <1>2. object \in [Files -> Objects]
    BY DEF TypeOK
  <1>3. CASE <<c.file, c.text>> \in Broken
    <2>1. object' = object /\ spoiled' = spoiled
      BY <1>3 DEF CompilerEnds, objects
    <2>2. QED
      BY <1>1, <1>3, <2>1 DEF AsRecentAs
  <1>4. CASE <<c.file, c.text>> \notin Broken
    <2>1. /\ object' = [object EXCEPT ![c.file] = [text |-> c.text, by |-> OptionsOf(run)]]
          /\ spoiled' = spoiled \cup {c.file} \/ spoiled' = spoiled \ {c.file}
      BY <1>4 DEF CompilerEnds
    <2>2. object'[c.file] = [text |-> c.text, by |-> OptionsOf(run)]
      BY <1>1, <1>2, <2>1
    <2>3. object'[c.file].text = c.text
      BY <2>2
    <2>4. object'[c.file] # NoObject
      <3>1. OptionsOf(run) \in Options
        BY RunTypes DEF TypeOK
      <3>2. QED
        BY <2>2, <3>1, <1>1, BuildToolAssumption
    <2>5. \A f \in Files \ {c.file} : object'[f] = object[f] /\ (f \in spoiled => f \in spoiled')
      BY <1>1, <1>2, <2>1
    <2>6. QED
      BY <1>1, <2>3, <2>4, <2>5 DEF AsRecentAs
  <1>5. QED
    BY <1>3, <1>4

LEMMA KeptStep ==
    ASSUME TypeOK, KeptObjectsAreCurrent, [Next]_vars
    PROVE  KeptObjectsAreCurrent'
  <1>. object \in [Files -> Objects] /\ newer \in [Files -> BOOLEAN] /\ text \in [Files -> Versions]
    BY DEF TypeOK
  <1>1. CASE UNCHANGED <<text, objects>>
    BY <1>1 DEF KeptObjectsAreCurrent, shouldCompileFile, objects
  <1>2. ASSUME NEW c \in running, CompilerEnds(c)
        PROVE  KeptObjectsAreCurrent'
    <2>1. CASE <<c.file, c.text>> \in Broken
      BY <1>1, <1>2, <2>1 DEF CompilerEnds, objects
    <2>2. CASE <<c.file, c.text>> \notin Broken
      <3>1. /\ object' = [object EXCEPT ![c.file] = [text |-> c.text, by |-> OptionsOf(run)]]
            /\ newer' = [newer EXCEPT ![c.file] = FALSE]
            /\ spoiled' = IF c.text = text[c.file] THEN spoiled \ {c.file} ELSE spoiled \cup {c.file}
            /\ text' = text
        BY <1>2, <2>2 DEF CompilerEnds
      <3>2. ASSUME NEW f \in Files, ~shouldCompileFile(f)', f \notin spoiled'
            PROVE  object'[f].text = text'[f]
        <4>1. CASE f = c.file
          <5>1. object'[f] = [text |-> c.text, by |-> OptionsOf(run)]
            BY <3>1, <4>1
          <5>2. c.text = text[f]
            BY <3>1, <3>2, <4>1
          <5>3. QED
            BY <3>1, <5>1, <5>2
        <4>2. CASE f # c.file
          <5>1. object'[f] = object[f] /\ newer'[f] = newer[f] /\ f \notin spoiled
            BY <3>1, <3>2, <4>2
          <5>2. QED
            BY <3>1, <3>2, <5>1 DEF KeptObjectsAreCurrent, shouldCompileFile
        <4>3. QED
          BY <4>1, <4>2
      <3>3. QED
        BY <3>2 DEF KeptObjectsAreCurrent
    <2>3. QED
      BY <2>1, <2>2
  <1>3. ASSUME NEW f \in Files, Edit(f)
        PROVE  KeptObjectsAreCurrent'
    <2>1. /\ newer'[f] /\ \A g \in Files \ {f} : newer'[g] = newer[g] /\ text'[g] = text[g]
          /\ object' = object /\ spoiled' = spoiled
      BY <1>3 DEF Edit
    <2>2. QED
      BY <2>1 DEF KeptObjectsAreCurrent, shouldCompileFile
  <1>4. ASSUME NEW p \in Projects, cleanFiles(p)
        PROVE  KeptObjectsAreCurrent'
    <2>1. /\ object' = [f \in Files |-> IF f \in CleanedBy[p] THEN NoObject ELSE object[f]]
          /\ spoiled' = spoiled \ CleanedBy[p] /\ newer' = newer /\ text' = text
      BY <1>4 DEF cleanFiles
    <2>2. QED
      BY <2>1 DEF KeptObjectsAreCurrent, shouldCompileFile
  <1>5. CASE Kill
    <2>1. PICK cut :
              /\ object' = [f \in Files |-> IF f \in cut THEN [text |-> Torn, by |-> OptionsOf(run)]
                                            ELSE object[f]]
              /\ newer' = [f \in Files |-> f \notin cut /\ newer[f]]
              /\ spoiled' = spoiled \cup cut
      BY <1>5 DEF Kill
    <2>2. text' = text
      BY <1>5 DEF Kill
    <2>3. ASSUME NEW f \in Files, ~shouldCompileFile(f)', f \notin spoiled'
          PROVE  object'[f].text = text'[f]
      <3>1. f \notin cut /\ f \notin spoiled /\ object'[f] = object[f]
        BY <2>1, <2>3
      <3>2. newer'[f] = newer[f]
        BY <2>1, <3>1
      <3>3. QED
        BY <2>2, <2>3, <3>1, <3>2 DEF KeptObjectsAreCurrent, shouldCompileFile
    <2>4. QED
      BY <2>3 DEF KeptObjectsAreCurrent
  <1>6. CASE \/ CallChild \/ PassChild \/ ChildrenBuilt \/ Exit \/ OpenFolder \/ FolderBuilt
             \/ FoldersBuilt \/ LinkStep
    <2>1. UNCHANGED <<text, objects>>
      BY <1>6 DEF CallChild, PassChild, ChildrenBuilt, Exit, OpenFolder, FolderBuilt, FoldersBuilt,
                  LinkStep, CheckSTD, CleanSTD, MakeSTD, RemoveLastBuild, WriteLastBuild, Link
    <2>2. QED
      BY <1>1, <2>1
  <1>7. ASSUME NEW f \in Files, SkipFile(f) \/ compileFile(f)
        PROVE  KeptObjectsAreCurrent'
    BY <1>1, <1>7 DEF SkipFile, compileFile
  <1>8. ASSUME NEW p \in Projects, NEW c \in {"build", "cross-compile", "test"},
               NEW t \in Targets \cup {Native}, NEW j \in Jobs, Start(p, c, t, j)
        PROVE  KeptObjectsAreCurrent'
    BY <1>1, <1>8 DEF Start
  <1>9. ASSUME NEW o \in Options, build_std(o)
        PROVE  KeptObjectsAreCurrent'
    BY <1>1, <1>9 DEF build_std
  <1>10. CASE UNCHANGED vars
    BY <1>1, <1>10 DEF vars
  <1>11. QED
    BY <1>2, <1>3, <1>4, <1>5, <1>6, <1>7, <1>8, <1>9, <1>10 DEF Next, Tool, User, Compile

LEMMA SeenInit == Init => SeenObjects
  <1>. SUFFICES ASSUME Init PROVE SeenObjects
    OBVIOUS
  <1>1. \A f \in Files : run.seen[f] = Unseen
    BY IdleTypes DEF Init
  <1>2. \A f \in Files : text[f] = 0
    BY DEF Init
  <1>3. Sees(run, Compiling)
    BY <1>1, <1>2 DEF Sees, Unseen
  <1>4. callers = << >> /\ running = {}
    BY DEF Init
  <1>5. QED
    BY <1>3, <1>4 DEF SeenObjects

\* A process that compiles nothing, among processes that all see what they saw.
LEMMA SeenKept ==
    ASSUME TypeOK, TypeOK', SeenObjects, UNCHANGED <<object, spoiled, text>>, running = {},
           running' = {},
           \A f \in Files : \/ run'.seen[f] \in {Unseen, run.seen[f]}
                            \/ run'.seen[f] <= text[f] /\ AsRecentAs(f, run'.seen[f])
                            \/ \E i \in 1 .. Len(callers) : run'.seen[f] = callers[i].seen[f],
           \A i \in 1 .. Len(callers') :
               callers'[i] = run \/ \E k \in 1 .. Len(callers) : callers'[i] = callers[k]
    PROVE  SeenObjects'
  <1>1. Compiling = {} /\ Compiling' = {}
    BY DEF Compiling
  <1>2. \A f \in Files : text[f] \in Versions
    BY DEF TypeOK
  <1>3. \A f, v : AsRecentAs(f, v)' <=> AsRecentAs(f, v)
    BY DEF AsRecentAs
  <1>4. Sees(run, {}) /\ \A i \in 1 .. Len(callers) : Sees(callers[i], {})
    BY <1>1 DEF SeenObjects
  <1>5. ASSUME NEW f \in Files
        PROVE  run'.seen[f] <= text'[f] /\ (run'.seen[f] = Unseen \/ AsRecentAs(f, run.seen[f])')
    <2>1. Unseen <= text'[f]
      BY <1>2 DEF Unseen, Versions
    <2>2. QED
      BY <1>3, <1>4, <2>1 DEF Sees
  <1>6. Sees(run, Compiling)'
    BY <1>5 DEF Sees
  <1>7. ASSUME NEW i \in 1 .. Len(callers')
        PROVE  Sees(callers[i], {})'
    <2>1. \A f \in Files : /\ callers'[i].seen[f] <= text[f]
                           /\ callers'[i].seen[f] = Unseen \/ AsRecentAs(f, callers'[i].seen[f])
      BY <1>4 DEF Sees
    <2>2. QED
      BY <1>3, <2>1 DEF Sees
  <1>8. QED
    BY <1>6, <1>7 DEF SeenObjects

LEMMA SeenStep ==
    ASSUME TypeOK, TypeOK', Processes, KeptObjectsAreCurrent, SeenObjects, [Next]_vars
    PROVE  SeenObjects'
  <1>. run \in Runs /\ run' \in Runs /\ callers \in Seq(Runs)
    BY DEF TypeOK
  <1>. text \in [Files -> Versions] /\ Versions \subseteq Int
    BY DEF TypeOK, Versions
  <1>d. ASSUME NEW r \in Runs
        PROVE  r.seen \in [Files -> Versions \cup {Unseen}]
    BY DEF Runs
  <1>a. /\ run.seen \in [Files -> Versions \cup {Unseen}]
        /\ \A i \in 1 .. Len(callers) : callers[i].seen \in [Files -> Versions \cup {Unseen}]
    BY <1>d
  <1>b. run.phase # "compile" => running = {}
    BY DEF TypeOK
  <1>e. \A v \in Versions : v <= v /\ v >= v
    BY DEF Versions
  <1>f. \A f \in Files : text[f] \in Versions /\ text[f] <= text[f] /\ text[f] >= text[f]
    BY <1>e
  <1>1. CASE UNCHANGED <<run, pending, running, callers, text, object, spoiled>>
    BY <1>1 DEF SeenObjects, Sees, AsRecentAs, Compiling
  <1>2. ASSUME NEW p \in Projects, NEW c \in {"build", "cross-compile", "test"},
               NEW t \in Targets \cup {Native}, NEW j \in Jobs, Start(p, c, t, j)
        PROVE  SeenObjects'
    <2>1. running = {} /\ \A f \in Files : run'.seen[f] = Unseen
      BY <1>2, <1>b, NewRunTypes, BuildToolAssumption DEF Start
    <2>2. UNCHANGED <<object, spoiled, text, running, callers>>
      BY <1>2 DEF Start, objects
    <2>3. QED
      BY <2>1, <2>2, SeenKept
  <1>3. CASE CallChild
    <2>1. running = {} /\ \A f \in Files : run'.seen[f] = Unseen
      BY <1>3, <1>b DEF CallChild, Calling, NewRun
    <2>2. UNCHANGED <<object, spoiled, text, running>> /\ callers' = Append(callers, run)
      BY <1>3 DEF CallChild, objects
    <2>3. \A i \in 1 .. Len(callers') :
              callers'[i] = run \/ \E k \in 1 .. Len(callers) : callers'[i] = callers[k]
      BY <2>2
    <2>4. QED
      BY <2>1, <2>2, <2>3, SeenKept
  <1>4. CASE PassChild \/ ChildrenBuilt \/ OpenFolder \/ FoldersBuilt \/ LinkStep \/ FolderBuilt
    <2>1. running = {}
      BY <1>4, <1>b DEF PassChild, ChildrenBuilt, OpenFolder, FoldersBuilt, FolderBuilt, Calling,
                  LinkStep, CheckSTD, CleanSTD, MakeSTD, RemoveLastBuild, WriteLastBuild, Link
    <2>2. run'.seen = run.seen
      BY <1>4 DEF PassChild, ChildrenBuilt, Enter, OpenFolder, FoldersBuilt, FolderBuilt, Runs,
                  LinkStep, CheckSTD, CleanSTD, MakeSTD, RemoveLastBuild, WriteLastBuild, Link
    <2>3. UNCHANGED <<object, spoiled, text, running, callers>>
      BY <1>4 DEF PassChild, ChildrenBuilt, OpenFolder, FoldersBuilt, FolderBuilt, objects,
                  LinkStep, CheckSTD, CleanSTD, MakeSTD, RemoveLastBuild, WriteLastBuild, Link
    <2>4. QED
      BY <2>1, <2>2, <2>3, SeenKept
  <1>5. CASE Exit
    <2>1. running = {} /\ UNCHANGED <<object, spoiled, text, running>>
      BY <1>5, <1>b DEF Exit, objects
    <2>2. CASE callers = << >>
      <3>1. callers' = callers /\ \A f \in Files : run'.seen[f] = Unseen
        BY <1>5, <2>2, IdleTypes DEF Exit, Runs
      <3>2. QED
        BY <2>1, <3>1, SeenKept
    <2>3. CASE callers # << >>
      <3>1. Len(callers) \in Nat /\ Len(callers) \in 1 .. Len(callers)
            /\ callers[Len(callers)] \in Runs
        BY <2>3
      <3>2. run'.seen = callers[Len(callers)].seen
        BY <1>5, <2>3, <3>1 DEF Exit, Runs
      <3>3. callers' = SubSeq(callers, 1, Len(callers) - 1)
        BY <1>5, <2>3 DEF Exit
      <3>4. \A i \in 1 .. Len(callers') : \E k \in 1 .. Len(callers) : callers'[i] = callers[k]
        BY <3>1, <3>3
      <3>5. QED
        BY <2>1, <3>1, <3>2, <3>4, SeenKept
    <2>4. QED
      BY <2>2, <2>3
  <1>6. ASSUME NEW f \in Files, LookAt(f)
        PROVE  /\ run.phase = "compile" /\ f \in pending /\ pending' = pending \ {f}
               /\ run'.seen = [run.seen EXCEPT ![f] = text[f]]
               /\ run'.seen[f] = text[f] /\ \A g \in Files \ {f} : run'.seen[g] = run.seen[g]
    BY <1>6, <1>a DEF LookAt, Runs
  <1>7. ASSUME NEW f \in Files, SkipFile(f)
        PROVE  SeenObjects'
    <2>1. running = {} /\ ~shouldCompileFile(f) /\ LookAt(f)
          /\ UNCHANGED <<object, spoiled, text, running, callers>>
      BY <1>7 DEF SkipFile, MaySkip, objects
    <2>2. AsRecentAs(f, text[f])
      <3>1. object[f] # NoObject /\ (f \in spoiled \/ object[f].text = text[f])
        BY <2>1 DEF KeptObjectsAreCurrent, shouldCompileFile
      <3>2. QED
        BY <3>1, <1>f DEF AsRecentAs
    <2>3. \A g \in Files : \/ run'.seen[g] = run.seen[g]
                           \/ run'.seen[g] <= text[g] /\ AsRecentAs(g, run'.seen[g])
      <3>1. run'.seen[f] = text[f] /\ \A g \in Files \ {f} : run'.seen[g] = run.seen[g]
        BY <1>6, <2>1
      <3>2. run'.seen[f] <= text[f] /\ AsRecentAs(f, run'.seen[f])
        BY <1>f, <2>2, <3>1
      <3>3. QED
        BY <3>1, <3>2
    <2>4. QED
      BY <2>1, <2>3, SeenKept
  <1>8. ASSUME NEW f \in Files, compileFile(f)
        PROVE  SeenObjects'
    <2>1. /\ LookAt(f) /\ running' = running \cup {[file |-> f, text |-> text[f]]}
          /\ UNCHANGED <<object, spoiled, text, callers>>
      BY <1>8 DEF compileFile, objects
    <2>2. \A g, v : AsRecentAs(g, v)' <=> AsRecentAs(g, v)
      BY <2>1 DEF AsRecentAs
    <2>3. Compiling' = Compiling \cup {f}
      <3>1. \A c : c \in running' <=> c \in running \/ c = [file |-> f, text |-> text[f]]
        BY <2>1
      <3>2. [file |-> f, text |-> text[f]].file = f
        OBVIOUS
      <3>3. QED
        BY <3>1, <3>2 DEF Compiling
    <2>4. Sees(run, Compiling)'
      <3>1. ASSUME NEW g \in Files
            PROVE  /\ run'.seen[g] <= text'[g]
                   /\ \/ run'.seen[g] = Unseen
                      \/ g \in Compiling'
                      \/ AsRecentAs(g, run.seen[g])'
        <4>1. CASE g = f
          BY <1>6, <1>f, <2>1, <2>3, <4>1
        <4>2. CASE g # f
          <5>1. run'.seen[g] = run.seen[g]
            BY <1>6, <2>1, <4>2
          <5>2. run.seen[g] <= text[g] /\ (run.seen[g] = Unseen \/ g \in Compiling \/ AsRecentAs(g, run.seen[g]))
            BY DEF SeenObjects, Sees
          <5>3. QED
            BY <2>1, <2>2, <2>3, <5>1, <5>2
        <4>3. QED
          BY <4>1, <4>2
      <3>2. QED
        BY <3>1 DEF Sees
    <2>5. \A i \in 1 .. Len(callers') : Sees(callers[i], {})'
      BY <2>1, <2>2 DEF SeenObjects, Sees
    <2>6. ASSUME NEW c \in running'
          PROVE  /\ c.file \notin pending'
                 /\ c.text = run'.seen[c.file]
                 /\ \A i \in 1 .. Len(callers') : callers'[i].seen[c.file] <= c.text
      <3>1. CASE c = [file |-> f, text |-> text[f]]
        <4>1. c.file = f /\ c.text = text[f]
          BY <3>1
        <4>2. \A i \in 1 .. Len(callers) : callers[i].seen[f] <= text[f]
          BY DEF SeenObjects, Sees
        <4>3. QED
          BY <1>6, <2>1, <4>1, <4>2
      <3>2. CASE c \in running
        <4>1. c.file \in Files /\ c.file \notin pending /\ c.text = run.seen[c.file]
          BY <3>2 DEF SeenObjects, TypeOK, Compilers
        <4>2. c.file # f /\ c.file \notin pending'
          BY <1>6, <2>1, <4>1
        <4>3. run'.seen[c.file] = run.seen[c.file]
          BY <1>6, <2>1, <4>1, <4>2
        <4>4. QED
          BY <2>1, <3>2, <4>1, <4>2, <4>3 DEF SeenObjects
      <3>3. QED
        BY <2>1, <3>1, <3>2
    <2>7. QED
      BY <2>4, <2>5, <2>6 DEF SeenObjects
  <1>9. ASSUME NEW c \in running, CompilerEnds(c)
        PROVE  SeenObjects'
    <2>1. running' = running \ {c} /\ UNCHANGED <<run, pending, callers, text>>
      BY <1>9 DEF CompilerEnds
    <2>2. c.text = run.seen[c.file] /\ c.text \in Versions /\ c.file \in Files
      BY DEF SeenObjects, TypeOK, Compilers
    <2>3. \A f \in Files \ {c.file} : f \in Compiling => f \in Compiling'
      BY <2>1 DEF Compiling
    <2>4. Sees(run, Compiling)'
      <3>1. ASSUME NEW f \in Files
            PROVE  /\ run'.seen[f] <= text'[f]
                   /\ \/ run'.seen[f] = Unseen
                      \/ f \in Compiling'
                      \/ AsRecentAs(f, run.seen[f])'
        <4>1. run.seen[f] \in Versions \cup {Unseen} /\ run'.seen[f] = run.seen[f]
          BY <1>a, <2>1
        <4>2. /\ run.seen[f] <= text[f]
              /\ run.seen[f] = Unseen \/ f \in Compiling \/ AsRecentAs(f, run.seen[f])
          BY DEF SeenObjects, Sees
        <4>3. CASE f = c.file
          <5>1. AsRecentAs(c.file, c.text)'
            BY <1>9, <1>e, <2>2, CompilerWrites
          <5>2. QED
            BY <2>1, <2>2, <4>1, <4>2, <4>3, <5>1
        <4>4. CASE f # c.file
          <5>1. AsRecentAs(f, run.seen[f]) => AsRecentAs(f, run.seen[f])'
            BY <1>9, <4>1, <4>4, CompilerWrites, <2>1
          <5>2. QED
            BY <2>1, <2>3, <4>1, <4>2, <4>4, <5>1
        <4>5. QED
          BY <4>3, <4>4
      <3>2. QED
        BY <3>1 DEF Sees
    <2>5. ASSUME NEW i \in 1 .. Len(callers')
          PROVE  Sees(callers[i], {})'
      <3>1. callers'[i] = callers[i] /\ i \in 1 .. Len(callers)
        BY <2>1
      <3>2. callers[i].seen[c.file] <= c.text
        BY <3>1 DEF SeenObjects
      <3>3. ASSUME NEW f \in Files
            PROVE  /\ callers'[i].seen[f] <= text'[f]
                   /\ callers'[i].seen[f] = Unseen \/ AsRecentAs(f, callers[i].seen[f])'
        <4>. DEFINE v == callers[i].seen[f]
        <4>1. /\ v \in Versions \cup {Unseen} /\ v <= text[f]
              /\ v = Unseen \/ AsRecentAs(f, v)
          BY <1>a, <3>1 DEF SeenObjects, Sees
        <4>2. AsRecentAs(f, v) => AsRecentAs(f, v)'
          <5>1. CASE f = c.file
            BY <1>9, <3>2, <4>1, <5>1, CompilerWrites, <2>1
          <5>2. CASE f # c.file
            BY <1>9, <4>1, <5>2, CompilerWrites, <2>1
          <5>3. QED
            BY <5>1, <5>2
        <4>3. QED
          BY <2>1, <3>1, <4>1, <4>2
      <3>4. QED
        BY <3>3 DEF Sees
    <2>6. QED
      BY <2>1, <2>4, <2>5 DEF SeenObjects
  <1>10. ASSUME NEW f \in Files, Edit(f)
         PROVE  SeenObjects'
    <2>1. /\ UNCHANGED <<run, pending, running, callers, object, spoiled>>
          /\ text' = [text EXCEPT ![f] = text[f] + 1]
      BY <1>10 DEF Edit, process
    <2>2. \A g, v : AsRecentAs(g, v)' <=> AsRecentAs(g, v)
      BY <2>1 DEF AsRecentAs
    <2>3. \A g \in Files : \A v \in Versions \cup {Unseen} : v <= text[g] => v <= text'[g]
      <3>1. \A g \in Files : text[g] <= text'[g] /\ text[g] \in Int /\ text'[g] \in Int
        BY <2>1 DEF TypeOK, Versions
      <3>2. \A v \in Versions \cup {Unseen} : v \in Int
        BY DEF Versions, Unseen
      <3>3. QED
        BY <3>1, <3>2
    <2>4. Sees(run, Compiling)'
      BY <1>a, <2>1, <2>2, <2>3 DEF SeenObjects, Sees, Compiling
    <2>5. \A i \in 1 .. Len(callers') : Sees(callers[i], {})'
      BY <1>a, <2>1, <2>2, <2>3 DEF SeenObjects, Sees
    <2>6. QED
      BY <2>1, <2>4, <2>5 DEF SeenObjects
  <1>c. ASSUME running' = {}, callers' = << >>, \A f \in Files : run'.seen[f] = Unseen
        PROVE  SeenObjects'
    <2>1. \A f \in Files : Unseen <= text'[f]
      BY DEF TypeOK, Versions, Unseen
    <2>2. Sees(run, Compiling)'
      BY <1>c, <2>1 DEF Sees
    <2>3. QED
      BY <1>c, <2>2 DEF SeenObjects
  <1>11. ASSUME NEW p \in Projects, cleanFiles(p)
         PROVE  SeenObjects'
    <2>1. run.phase = "idle" /\ UNCHANGED process
      BY <1>11 DEF cleanFiles
    <2>2. running = {} /\ callers = << >> /\ \A f \in Files : run.seen[f] = Unseen
      BY <2>1, <1>b DEF Processes
    <2>3. QED
      BY <1>c, <2>1, <2>2 DEF process
  <1>12. CASE Kill
    BY <1>c, <1>12, IdleTypes DEF Kill, Runs
  <1>13. ASSUME NEW o \in Options, build_std(o)
         PROVE  SeenObjects'
    BY <1>1, <1>13 DEF build_std, process, objects
  <1>14. CASE UNCHANGED vars
    BY <1>1, <1>14 DEF vars, process, objects
  <1>15. QED
    BY <1>2, <1>3, <1>4, <1>5, <1>7, <1>8, <1>9, <1>10, <1>11, <1>12, <1>13, <1>14
       DEF Next, Tool, User, Compile

-----------------------------------------------------------------------------
(* The theorems                                                            *)

\* The inductive invariant holds of every state of every build.
THEOREM BuildInvariance == Spec => []BuildInvariant
  <1>1. Init => BuildInvariant
    <2>1. Init => KeptObjectsAreCurrent
      BY DEF Init, KeptObjectsAreCurrent, shouldCompileFile
    <2>2. QED
      BY <2>1, TypeInit, ProcessesInit, SeenInit, StandardInit DEF BuildInvariant
  <1>2. BuildInvariant /\ [Next]_vars => BuildInvariant'
    <2>. SUFFICES ASSUME BuildInvariant, [Next]_vars PROVE BuildInvariant'
      OBVIOUS
    <2>1. TypeOK /\ Processes /\ KeptObjectsAreCurrent /\ SeenObjects /\ StandardLibrary
      BY DEF BuildInvariant
    <2>2. TypeOK'
      BY <2>1, TypeStep
    <2>3. Processes' /\ KeptObjectsAreCurrent' /\ SeenObjects' /\ StandardLibrary'
      BY <2>1, <2>2, ProcessesStep, KeptStep, SeenStep, StandardStep
    <2>4. QED
      BY <2>2, <2>3 DEF BuildInvariant
  <1>3. QED
    BY <1>1, <1>2, PTL DEF Spec

\* The variables keep their types, for every set of projects and files.
THEOREM BuildTypesCorrect == Spec => []TypeOK
  <1>1. BuildInvariant => TypeOK
    BY DEF BuildInvariant
  <1>2. QED
    BY <1>1, BuildInvariance, PTL

\* shouldCompileFile takes no stale object for an up to date one, except the
\* ones spoiled by an edit or a kill in the middle of a compilation.
THEOREM KeptObjectsStayCurrent == Spec => []KeptObjectsAreCurrent
  <1>1. BuildInvariant => KeptObjectsAreCurrent
    BY DEF BuildInvariant
  <1>2. QED
    BY <1>1, BuildInvariance, PTL

\* Every object a command links is at least as recent as the source was when
\* the command looked at it, whatever the subprojects compile meanwhile, and
\* whatever the number of threads.
THEOREM LinkedObjectsStayCurrent == Spec => []LinkedObjectsAreOfTheSources
  <1>1. BuildInvariant => LinkedObjectsAreOfTheSources
    <2>. SUFFICES ASSUME BuildInvariant, Linking, NEW f \in LinkedFiles(run)
                  PROVE  run.seen[f] # Unseen /\ AsRecentAs(f, run.seen[f])
      BY DEF LinkedObjectsAreOfTheSources
    <2>1. run \in Runs /\ running = {} /\ run.phase \in Looked
      BY DEF BuildInvariant, TypeOK, Linking, Looked, Phases
    <2>2. f \in Files
      BY <2>1, FoldersCover
    <2>3. run.seen[f] # Unseen
      BY <2>1 DEF BuildInvariant, Processes, Progress
    <2>4. Compiling = {}
      BY <2>1 DEF Compiling
    <2>5. QED
      BY <2>2, <2>3, <2>4 DEF BuildInvariant, SeenObjects, Sees
  <1>2. QED
    BY <1>1, BuildInvariance, PTL

\* An executable is linked with the standard library of its options, unless
\* the library was built without last_build.toml being told.
THEOREM StandardLibraryMatches == Spec => []LinkedStandardLibrary
  <1>1. BuildInvariant => LinkedStandardLibrary
    BY DEF BuildInvariant, StandardLibrary
  <1>2. QED
    BY <1>1, BuildInvariance, PTL
=============================================================================
