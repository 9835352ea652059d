------------------------------- MODULE Imports -------------------------------
(***************************************************************************)
(* The first pass of the compiler (imports.cpp): it writes the temporary   *)
(* file that the lexer reads, where instructions of the preprocessor have  *)
(* been obeyed, an import has become the declarations of the imported      *)
(* file, and an include its text.                                          *)
(*                                                                         *)
(* The state is that of the streams being read, one line at a time, of the *)
(* handlers that are in the middle of a declaration (`calls`), and of what *)
(* has been written.                                                       *)
(***************************************************************************)
EXTENDS Preprocessor, FiniteSets

CONSTANTS
    Programs,   \* the contents of the files, each a function from names to lines
    Main,       \* the file that is compiled
    Core,       \* the files of std/core, in the order of the directory
    Paths,      \* what getPath makes of the word after import or include
    Triplet     \* of the target

ASSUME ImportsAssumption ==
    /\ Paths \in [DOMAIN Paths -> [special : BOOLEAN, found : BOOLEAN, files : Seq(STRING)]]
    /\ \A program \in Programs : Main \in DOMAIN program

VARIABLES
    std_mode,                   \* whether the prelude is included
    files,                      \* the program
    stage,                      \* which stream is read, or how the pass ended
    skipping,                   \* in a conditional that is false
    line_nb,                    \* lines read of the source
    file, at,                   \* the imported or included file, and the lines read of it
    paths,                      \* the files still to be imported
    calls,                      \* the handlers that read the imported file, outermost first
    members,                    \* first_members_opened, nb_of_opened_braces_members
    pos_line, pos_line_file,    \* positions, in the other file and in the source
    last,                       \* what the last line of the source was
    variables,                  \* of the preprocessor
    out,                        \* the temporary file
    modifier_for_line_count, nb_imports

program == <<std_mode, files>>
reading == <<file, at, paths, calls, members, pos_line>>
counts == <<modifier_for_line_count, nb_imports>>
vars == <<program, stage, skipping, line_nb, reading, pos_line_file, last, variables, out, counts>>

NoFile == ""

NL == [item |-> "newline", file |-> NoFile, line |-> 0]
Item(kind, f, i) == [item |-> kind, file |-> f, line |-> i]
Text(f, i, words) == [item |-> "text", file |-> f, line |-> i, words |-> words]

IsBlank(line) == line.kind \in {"blank", "spaces"}

-----------------------------------------------------------------------------
(* The end of the pass                                                     *)

Stop(how) ==
    /\ stage' = how
    /\ UNCHANGED <<program, skipping, file, paths, calls, members, pos_line, pos_line_file, last,
                   variables, out, counts>>

-----------------------------------------------------------------------------
(* The source                                                              *)

SourceLine == files[Main][line_nb + 1]

\* A newline goes before a line, unless nothing is to be separated.
NewlineBefore ==
    IF last # "macro" /\ pos_line_file \notin {0, Len(files[Main])} THEN <<NL>> ELSE << >>

ReadSource ==
    /\ stage = "source" /\ ~skipping
    /\ line_nb < Len(files[Main])
    /\ line_nb' = line_nb + 1

\* Blank lines after an import are dropped, and not counted in pos_line_file.
DropBlank ==
    /\ ReadSource
    /\ last = "import" /\ IsBlank(SourceLine)
    /\ out' = out \o NewlineBefore
    /\ UNCHANGED <<program, stage, skipping, reading, pos_line_file, last, variables, counts>>

Read(kinds) ==
    /\ ReadSource
    /\ ~(last = "import" /\ IsBlank(SourceLine))
    /\ SourceLine.kind \in kinds

\* preprocess_instruction, for a line at column 0 of the source.
SourceInstruction ==
    /\ Read(Instructions \ {"error"})
    /\ out' = out \o NewlineBefore
    /\ variables' = VariablesAfter(variables, SourceLine)
    /\ skipping' = StartsSkipping(variables, SourceLine)
    /\ last' = "macro"
    /\ pos_line_file' = pos_line_file + 1
    /\ UNCHANGED <<program, stage, reading, counts>>

SourceError == Read({"error"}) /\ Stop("exited") /\ UNCHANGED at

Copy ==
    /\ Read({"text", "blank", "spaces"})
    /\ ReplaceEnds(variables, SourceLine.words)
    /\ out' = out \o NewlineBefore \o
              <<Text(Main, line_nb', ReplaceVariables(variables, SourceLine.words))>>
    /\ last' = "text"
    /\ pos_line_file' = pos_line_file + 1
    /\ UNCHANGED <<program, stage, skipping, reading, variables, counts>>

\* replace_variable_preprocessor finds the name in the value it has just put.
CopyForever ==
    /\ Read({"text", "import", "include"})
    /\ ~ReplaceEnds(variables, SourceLine.words)
    /\ Stop("hung") /\ UNCHANGED at

PathOf == Paths[ReplaceWord(variables, SourceLine.words[1])]

\* A path relative to the source has to exist (realpath), as has a package.
Missing(path) ==
    \/ ~path.found
    \/ ~path.special /\ path.files[1] \notin DOMAIN files

StartImport ==
    /\ Read({"import"}) /\ ReplaceEnds(variables, SourceLine.words)
    /\ ~Missing(PathOf)
    /\ paths' = PathOf.files
    /\ stage' = "importing"
    /\ out' = out \o NewlineBefore
    /\ UNCHANGED <<program, skipping, file, at, calls, members, pos_line, pos_line_file, last,
                   variables, counts>>

\* interpret_include takes the first file only, as a path of its own.
StartInclude ==
    /\ Read({"include"}) /\ ReplaceEnds(variables, SourceLine.words)
    /\ ~Missing(PathOf)
    /\ file' = PathOf.files[1]
    /\ at' = 0 /\ pos_line' = 0
    /\ stage' = "including"
    /\ modifier_for_line_count' = modifier_for_line_count + Len(files[file'])
    /\ out' = out \o NewlineBefore
    /\ UNCHANGED <<program, skipping, paths, calls, members, pos_line_file, last, variables,
                   nb_imports>>

NotFound ==
    /\ Read({"import", "include"}) /\ ReplaceEnds(variables, SourceLine.words)
    /\ Missing(PathOf)
    /\ Stop("exited") /\ UNCHANGED at

Finish ==
    /\ stage = "source" /\ ~skipping
    /\ line_nb = Len(files[Main])
    /\ stage' = "done"
    /\ UNCHANGED <<program, skipping, line_nb, reading, pos_line_file, last, variables, out, counts>>

-----------------------------------------------------------------------------
(* The imported files                                                      *)

Line == files[file][at + 1]

\* Mistake: the imports are not counted.
BackToSource_uncounted ==
    /\ stage' = "source"
    /\ nb_imports' = nb_imports
    /\ last' = "import"
    /\ pos_line_file' = pos_line_file + 1

\* Mistake: the line of the import is counted by its handler too.
BackToSource_twice ==
    /\ stage' = "source"
    /\ nb_imports' = nb_imports + 1
    /\ last' = "import"
    /\ pos_line_file' = pos_line_file + 2

\* What find_import_or_include's caller does when it returns.
BackToSource ==
    /\ stage' = "source"
    /\ nb_imports' = nb_imports + 1
    /\ last' = "import"
    /\ pos_line_file' = pos_line_file + 1

\* import_file: a file of @std or of a package that is not there is passed over.
OpenImported ==
    /\ stage \in {"prelude", "importing"} /\ file = NoFile /\ paths # << >>
    /\ paths' = Tail(paths)
    /\ file' = IF Head(paths) \in DOMAIN files THEN Head(paths) ELSE NoFile
    /\ at' = 0 /\ pos_line' = 0
    /\ UNCHANGED <<program, stage, skipping, line_nb, calls, members, pos_line_file, last,
                   variables, out, counts>>

\* include_prelude
PreludeRead ==
    /\ stage = "prelude" /\ file = NoFile /\ paths = << >>
    /\ stage' = "source"
    /\ out' = Append(out, NL)
    /\ UNCHANGED <<program, skipping, line_nb, reading, pos_line_file, last, variables, counts>>

ImportsRead ==
    /\ stage = "importing" /\ file = NoFile /\ paths = << >>
    /\ BackToSource
    /\ UNCHANGED <<program, skipping, line_nb, reading, variables, out, modifier_for_line_count>>

Declaration(kind) == Item(kind, file, at + 1)

Separator(p) == IF p \notin {0, Len(files[file])} THEN <<NL>> ELSE << >>

Write(items, n) ==
    /\ out' = out \o items
    /\ modifier_for_line_count' = modifier_for_line_count + n

\* A handler returns with pos_line = p to those that called it; import_file
\* adds one when find_patterns returns to it.
Return(p, callers) ==
    /\ pos_line' = IF callers = << >> THEN p + 1 ELSE p
    /\ calls' = callers

\* A handler that goes on to read lines.
Enter(p, callers, handler, braces, text) ==
    /\ pos_line' = p
    /\ calls' = Append(callers, [handler |-> handler, braces |-> braces, text |-> text])

\* The braces of a line are looked for with find: at most one of each counts.
Opened(n) == IF Line.opens THEN n + 1 ELSE n
AfterBraces(n) == IF Line.closes THEN Opened(n) - 1 ELSE Opened(n)
\* Mistake: any closing brace ends the declaration.
ClosesAt_any(n, outermost) == Line.closes

ClosesAt(n, outermost) == Line.closes /\ AfterBraces(n) = outermost

\* interpret_func, and interpet_func_generics for a function with a ~.
PatternFunc(p, callers) ==
    \/ /\ Line.kind = "func"
       /\ Write(Append(Separator(p), Declaration("extern")), 1)
       /\ Return(p + 1, callers)
    \/ /\ Line.kind = "generic func"
       /\ Write(Separator(p), 1)
       /\ Enter(p + 1, callers, "generic", 1, <<Declaration("func"), NL>>)

PatternStruct(p, callers) ==
    \/ /\ Line.kind = "struct" /\ ~ClosesAt(0, 0)
       /\ Write(<< >>, 0)
       /\ Enter(p, callers, "struct", AfterBraces(0), <<Declaration("struct")>>)
    \/ /\ Line.kind = "struct" /\ ClosesAt(0, 0)
       /\ Write(Append(Separator(p), Declaration("struct")), 0)
       /\ Return(p + 1, callers)
    \/ /\ Line.kind = "generic struct"
       /\ Write(<< >>, 1)
       /\ Enter(p + 1, callers, "generic", 1, <<Declaration("struct"), NL>>)

\* interpret_enum and interpret_union.
PatternEnum(p, callers) ==
    /\ Line.kind \in {"enum", "union"}
    /\ \/ /\ ~Line.closes
          /\ Write(<< >>, 0)
          /\ Enter(p, callers, "enum", 0, <<Declaration(Line.kind)>>)
       \/ /\ Line.closes
          /\ Write(Append(Separator(p), Declaration(Line.kind)), 0)
          /\ Return(p + 1, callers)

PatternLine(p, callers) ==
    /\ \/ Line.kind = "extern" /\ Write(<<Declaration("extern"), NL>>, 1)
       \/ Line.kind = "type" /\ Write(<<NL, Declaration("type"), NL>>, 0)
       \/ IsInstruction(Line) /\ Write(<< >>, 1)
    /\ Return(p + 1, callers)

PatternBlock(p, callers) ==
    \/ /\ Line.kind = "mod"
       /\ Write(<<NL, Declaration("mod")>>, 0)
       /\ Enter(p + 1, callers, "mod", 0, << >>)
    \/ /\ Line.kind = "members"
       /\ Write(<<NL, Declaration("members")>>, 1)
       /\ Enter(p + 1, callers, "members", 0, << >>)

NoPattern(p, callers) ==
    /\ Line.kind \in {"text", "blank", "spaces", "import", "include"}
    /\ Write(<< >>, 0)
    /\ Return(p, callers)

\* Of the instructions of an imported file, define and undefine are obeyed.
find_patterns(p, callers) ==
    /\ \/ PatternFunc(p, callers)
       \/ PatternStruct(p, callers)
       \/ PatternEnum(p, callers)
       \/ PatternLine(p, callers)
       \/ PatternBlock(p, callers)
       \/ NoPattern(p, callers)
    /\ variables' = VariablesAfter(variables, Line)

\* Mistake: the count is not set to 0 again.
MembersAfter_kept(m) ==
    IF Line.kind # "members" THEN m ELSE [m EXCEPT !.opened = TRUE]

\* The count of braces of the members blocks is global: it is set to 0 by
\* every block but the first.
MembersAfter(m) ==
    IF Line.kind # "members" THEN m
    ELSE [opened |-> TRUE, braces |-> IF m.opened THEN 0 ELSE m.braces]

-----------------------------------------------------------------------------
(* One line of the imported file, in the handler that reads it             *)

Handler == IF calls = << >> THEN "import_file" ELSE Last(calls).handler
Braces == Last(calls).braces
TextSoFar == Last(calls).text

ReadImported(handler) ==
    /\ stage \in {"prelude", "importing"} /\ file # NoFile
    /\ at < Len(files[file])
    /\ at' = at + 1
    /\ Handler = handler
    /\ UNCHANGED <<program, stage, skipping, line_nb, file, paths, pos_line_file, last, nb_imports>>

InFile ==
    /\ ReadImported("import_file")
    /\ find_patterns(pos_line, calls)
    /\ members' = MembersAfter(members)

Reenter(p, braces, text) == Enter(p, Front(calls), Handler, braces, text)

\* A line that starts with mod is not counted.
ModBraces == IF Line.kind = "mod" THEN Braces ELSE AfterBraces(Braces)

InMod ==
    /\ ReadImported("mod")
    /\ \/ /\ Line.kind # "mod" /\ ClosesAt(Braces, -1)
          /\ Write(<<NL, Declaration("close")>>, 1)
          /\ Return(pos_line + 1, Front(calls))
          /\ UNCHANGED <<variables, members>>
       \/ /\ ~(Line.kind # "mod" /\ ClosesAt(Braces, -1))
          /\ find_patterns(pos_line + 1,
                           Append(Front(calls), [Last(calls) EXCEPT !.braces = ModBraces]))
          /\ members' = MembersAfter(members)

InMembers ==
    /\ ReadImported("members")
    /\ LET m == [members EXCEPT !.braces = AfterBraces(@)]
       IN  \/ /\ Line.kind = "text" /\ Line.closes /\ m.braces = -1
              /\ Write(<<NL, Declaration("close")>>, 1)
              /\ Return(pos_line + 1, Front(calls))
              /\ members' = m
              /\ UNCHANGED variables
           \/ /\ ~(Line.kind = "text" /\ Line.closes /\ m.braces = -1)
              /\ find_patterns(pos_line + 1, calls)
              /\ members' = MembersAfter(m)

Verbatim == Declaration("copied")

\* The body of a generic function or struct is copied to its last brace.
InGeneric ==
    /\ ReadImported("generic")
    /\ LET text == TextSoFar \o <<Verbatim, NL>>
       IN  \/ /\ ClosesAt(Braces, 0)
              /\ Write(text, 1)
              /\ Return(pos_line + 1, Front(calls))
           \/ /\ ~ClosesAt(Braces, 0)
              /\ Write(<< >>, 1)
              /\ Reenter(pos_line + 1, AfterBraces(Braces), text)
    /\ UNCHANGED <<variables, members>>

InEnum ==
    /\ ReadImported("enum")
    /\ LET text == TextSoFar \o <<NL, Verbatim>>
       IN  \/ /\ Line.closes
              /\ Write(Separator(pos_line) \o text, 1)
              /\ Return(pos_line + 1, Front(calls))
           \/ /\ ~Line.closes
              /\ Write(<< >>, 1)
              /\ Reenter(pos_line, 0, text)
    /\ UNCHANGED <<variables, members>>

\* The loop that passes over the body of a function counts from its first line,
\* which of a generic function it is given after the body has been read.
BodyPassedOver ==
    IF Line.closes THEN << >> ELSE <<[handler |-> "method", braces |-> Opened(0), text |-> << >>]>>

\* A function that a struct holds is declared extern and its body passed over,
\* by a loop of its own: the brace it opened stays counted in the struct.
InStruct ==
    /\ ReadImported("struct")
    /\ LET p == pos_line + 1
           text == Append(TextSoFar, NL)
           reenter(q, t) == Reenter(q, AfterBraces(Braces), t)
       IN  \/ /\ ClosesAt(Braces, 0)
              /\ Write(Separator(p) \o Append(text, Verbatim), 1)
              /\ Return(p + 1, Front(calls))
           \/ /\ ~ClosesAt(Braces, 0)
              /\ \/ /\ Line.kind = "func"
                    /\ Write(Separator(p), 1)
                    /\ IF Line.closes
                       THEN reenter(p, Append(text, Declaration("extern")))
                       ELSE Enter(p, Append(Front(calls),
                                       [handler |-> "struct", braces |-> AfterBraces(Braces),
                                        text |-> Append(text, Declaration("extern"))]),
                                  "method", Opened(0), << >>)
                 \/ /\ Line.kind = "generic func"
                    /\ Write(Separator(p), 2)
                    /\ Enter(p + 1, Append(Front(calls),
                                       [handler |-> "struct", braces |-> AfterBraces(Braces), text |-> text])
                                    \o BodyPassedOver,
                             "generic method", 1, <<Declaration("extern"), NL>>)
                 \/ /\ Line.kind = "extern"
                    /\ Write(<<Declaration("extern"), NL>>, 2)
                    /\ reenter(p + 1, text)
                 \/ /\ Line.kind \notin {"func", "generic func", "extern"}
                    /\ Write(<< >>, 1)
                    /\ reenter(p, Append(text, Verbatim))
    /\ UNCHANGED <<variables, members>>

\* What a handler returns is added to the struct.
GivenBack(callers, text) ==
    [k \in DOMAIN callers |->
        IF callers[k].handler = "struct" THEN [callers[k] EXCEPT !.text = @ \o text] ELSE callers[k]]

InGenericMethod ==
    /\ ReadImported("generic method")
    /\ Write(<< >>, 1)
    /\ LET text == TextSoFar \o <<Verbatim, NL>>
       IN  IF ClosesAt(Braces, 0)
           THEN Return(pos_line + 1, GivenBack(Front(calls), text))
           ELSE Reenter(pos_line + 1, AfterBraces(Braces), text)
    /\ UNCHANGED <<variables, members>>

InMethod ==
    /\ ReadImported("method")
    /\ Write(<< >>, 0)
    /\ IF ClosesAt(Braces, 0)
       THEN Return(pos_line + 1, Front(calls))
       ELSE Reenter(pos_line + 1, AfterBraces(Braces), << >>)
    /\ UNCHANGED <<variables, members>>

\* getline fails: the handlers stop one after the other, what they have of a
\* declaration is written, and import_file closes the file.
AtEndOfFile ==
    /\ stage \in {"prelude", "importing"} /\ file # NoFile
    /\ at = Len(files[file])
    /\ \/ /\ Handler = "import_file"
          /\ file' = NoFile
          /\ UNCHANGED <<calls, pos_line, out>>
       \/ /\ Handler \in {"struct", "enum"}
          /\ out' = out \o Separator(pos_line) \o TextSoFar
          /\ Return(pos_line + 1, Front(calls))
          /\ UNCHANGED file
       \/ /\ Handler \in {"generic", "method", "mod", "members"}
          /\ out' = out \o TextSoFar
          /\ Return(pos_line, Front(calls))
          /\ UNCHANGED file
       \/ /\ Handler = "generic method"
          /\ Return(pos_line, GivenBack(Front(calls), TextSoFar))
          /\ UNCHANGED <<file, out>>
    /\ UNCHANGED <<program, stage, skipping, line_nb, at, paths, members, pos_line_file, last,
                   variables, counts>>

-----------------------------------------------------------------------------
(* The included file                                                       *)

\* The variables are replaced before the line is looked at, in instructions too.
IncludedLine == [Line EXCEPT !.words = ReplaceVariables(variables, @)]

ReadIncluded ==
    /\ stage = "including" /\ ~skipping
    /\ at < Len(files[file])
    /\ at' = at + 1

Include ==
    /\ ReadIncluded /\ ~IsBlank(Line)
    /\ ReplaceEnds(variables, Line.words)
    /\ \/ /\ IncludedLine.kind \in Instructions \ {"error"}
          /\ variables' = VariablesAfter(variables, IncludedLine)
          /\ skipping' = StartsSkipping(variables, IncludedLine)
          /\ UNCHANGED out
       \/ /\ ~IsInstruction(IncludedLine)
          /\ out' = out \o <<Text(file, at + 1, IncludedLine.words)>> \o
                    (IF pos_line # Len(files[file]) - 1 THEN <<NL>> ELSE << >>)
          /\ UNCHANGED <<variables, skipping>>
    /\ pos_line' = pos_line + 1
    /\ UNCHANGED <<program, stage, line_nb, file, paths, calls, members, pos_line_file, last, counts>>

IncludeBlank ==
    /\ ReadIncluded /\ IsBlank(Line)
    /\ UNCHANGED <<program, stage, skipping, line_nb, file, paths, calls, members, pos_line,
                   pos_line_file, last, variables, out, counts>>

IncludeRead ==
    /\ stage = "including" /\ ~skipping
    /\ at = Len(files[file])
    /\ file' = NoFile
    /\ BackToSource
    /\ UNCHANGED <<program, skipping, line_nb, at, paths, calls, members, pos_line, variables, out,
                   modifier_for_line_count>>

IncludedError ==
    /\ ReadIncluded /\ IncludedLine.kind = "error"
    /\ Stop("exited") /\ UNCHANGED line_nb

IncludeForever ==
    /\ ReadIncluded
    /\ ~ReplaceEnds(variables, Line.words)
    /\ Stop("hung") /\ UNCHANGED line_nb

-----------------------------------------------------------------------------
(* The loop of preprocess_if that passes over what a false condition guards, *)
(* up to the first endif                                                     *)

Skipped == IF stage = "source" THEN SourceLine ELSE Line
AtEnd ==
    IF stage = "source" THEN line_nb = Len(files[Main]) ELSE at = Len(files[file])

Skip ==
    /\ skipping /\ stage \in {"source", "including"} /\ ~AtEnd
    /\ Skipped.kind # "spaces"
    /\ skipping' = (Skipped.kind # "endif")
    /\ \/ /\ stage = "source"
          /\ line_nb' = line_nb + 1 /\ pos_line_file' = pos_line_file + 1
          /\ UNCHANGED <<at, pos_line>>
       \/ /\ stage = "including"
          /\ at' = at + 1 /\ pos_line' = pos_line + 1
          /\ UNCHANGED <<line_nb, pos_line_file>>
    /\ UNCHANGED <<program, stage, file, paths, calls, members, last, variables, out, counts>>

\* compare_line looks for a character that is no space past the end of the line.
SkipSpaces ==
    /\ skipping /\ stage \in {"source", "including"} /\ ~AtEnd
    /\ Skipped.kind = "spaces"
    /\ Stop("exited") /\ UNCHANGED <<line_nb, at>>

\* The loop does not look at the state of the stream.
SkipForever ==
    /\ skipping /\ stage \in {"source", "including"} /\ AtEnd
    /\ Stop("hung") /\ UNCHANGED <<line_nb, at>>

-----------------------------------------------------------------------------
\* main() sets up the preprocessor and calls generate_file_with_imports, which
\* includes the prelude first.
Init ==
    /\ files \in Programs /\ std_mode \in BOOLEAN
    /\ stage = IF std_mode THEN "prelude" ELSE "source"
    /\ skipping = FALSE
    /\ line_nb = 0 /\ pos_line_file = 0
    /\ file = NoFile /\ at = 0 /\ pos_line = 0
    /\ paths = IF std_mode THEN Core ELSE << >>
    /\ calls = << >> /\ members = [opened |-> FALSE, braces |-> 0]
    /\ last = "start"
    /\ variables = DefaultVariables(Triplet)
    /\ out = << >>
    /\ modifier_for_line_count = 0 /\ nb_imports = 0

ImportedFiles ==
    \/ OpenImported \/ PreludeRead \/ ImportsRead \/ AtEndOfFile
    \/ InFile \/ InMod \/ InMembers \/ InGeneric \/ InStruct \/ InGenericMethod \/ InMethod \/ InEnum

Source ==
    \/ DropBlank \/ SourceInstruction \/ SourceError \/ Copy \/ CopyForever
    \/ StartImport \/ StartInclude \/ NotFound \/ Finish

Included == Include \/ IncludeBlank \/ IncludeRead \/ IncludedError \/ IncludeForever

Conditional == Skip \/ SkipSpaces \/ SkipForever

Step == Source \/ ImportedFiles \/ Included \/ Conditional

Stopped == stage \in {"done", "exited", "hung"} /\ UNCHANGED vars

Next == Step \/ Stopped

Spec == Init /\ [][Next]_vars

\* The pass is one sequential loop.
FairSpec == Spec /\ WF_vars(Step)
============================================================================
