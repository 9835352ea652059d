-------------------------- MODULE ImportsProperties --------------------------
(***************************************************************************)
(* What the temporary file holds when the first pass is done.              *)
(***************************************************************************)
EXTENDS Imports

TypeOK ==
    /\ stage \in {"prelude", "source", "importing", "including", "done", "exited", "hung"}
    /\ skipping \in BOOLEAN
    /\ line_nb \in 0 .. Len(files[Main])
    /\ file \in DOMAIN files \cup {NoFile} /\ at \in Nat
    /\ paths \in Seq(STRING)
    /\ \A i \in DOMAIN calls :
           calls[i].handler \in {"generic", "struct", "enum", "mod", "members", "method", "generic method"}
    /\ members.opened \in BOOLEAN /\ members.braces \in Int
    /\ pos_line \in Nat /\ pos_line_file \in 0 .. line_nb
    /\ stage \in {"source", "done"} => file = NoFile /\ calls = << >> /\ paths = << >>
    /\ last \in {"start", "macro", "import", "text"}
    /\ modifier_for_line_count \in Nat /\ nb_imports \in Nat

LinesOf(f, kinds) == {i \in DOMAIN files[f] : files[f][i].kind \in kinds}

Source_(kinds) == LinesOf(Main, kinds)

-----------------------------------------------------------------------------
(* What a program may hold for a property to be about it                   *)

\* Every condition is followed by an endif before the next one.
Flat(f) ==
    \A i \in DOMAIN files[f] : files[f][i].kind = "if" =>
        \E j \in i + 1 .. Len(files[f]) :
            /\ files[f][j].kind = "endif"
            /\ \A k \in i + 1 .. j - 1 : files[f][k].kind \notin {"if", "spaces"}

Defines(f) == {i \in DOMAIN files[f] : files[f][i].kind = "define"}

\* How many times a file is imported.
ImportedBy(i) == Paths[files[Main][i].words[1]].files
TimesIn(f, list) == Cardinality({k \in DOMAIN list : list[k] = f})
TimesImported(f) ==
    (IF std_mode THEN TimesIn(f, Core) ELSE 0) +
    FoldSet(LAMBDA i, n : n + TimesIn(f, ImportedBy(i)), 0, Source_({"import"}))
TimesRead(f) ==
    TimesImported(f) + Cardinality({i \in Source_({"include"}) : ImportedBy(i)[1] = f})

Read_ == {f \in DOMAIN files : f = Main \/ TimesRead(f) > 0}

\* The other files that are read only define.
OnlyDefines == \A f \in Read_ \ {Main} : LinesOf(f, Instructions \ {"define"}) = {}

\* A value holds no name that is ever defined, and no name is defined again.
OrdinaryDefines ==
    /\ \A f, g \in Read_ : \A i \in Defines(f), j \in Defines(g) :
           /\ files[f][i].words[2] # files[g][j].words[1]
           /\ <<f, i>> # <<g, j>> => files[f][i].words[1] # files[g][j].words[1]
    /\ \A f \in Read_ : Defines(f) # {} => TimesRead(f) <= 1

-----------------------------------------------------------------------------
(* The source                                                              *)

\* What the instructions of a file say, line after line: which names have which
\* value, whether the line is left out, and the lines kept so far.  Names are a
\* function, a condition is decided once for the lines up to its endif.
Undefined(env, name) == [n \in DOMAIN env \ {name} |-> env[n]]

DefinedBy(f) == [n \in {files[f][i].words[1] : i \in Defines(f)} |->
                    LET i == CHOOSE j \in Defines(f) : files[f][j].words[1] = n
                    IN  files[f][i].words[2]]

Said(env, line) ==
    CASE line.kind = "define" -> [n \in {line.words[1]} |-> line.words[2]] @@ env
      [] line.kind = "undefine" -> Undefined(env, line.words[1])
      [] line.kind \in {"import", "include"} ->
             FoldLeft(LAMBDA e, f : IF f \in DOMAIN files THEN DefinedBy(f) @@ e ELSE e,
                      env, Paths[line.words[1]].files)
      [] OTHER -> env

Equal(env, l, r) == l \in DOMAIN env /\ env[l] = r

\* A condition on an unknown variable leaves nothing out.
Meant(env, words) ==
    \/ words[1] \notin DOMAIN env
    \/ Equal(env, words[1], words[2])
    \/ Len(words) = 4 /\ Equal(env, words[3], words[4])

Understood ==
    LET lines == files[Main]
        Start == [n \in {"OS", "ARCH", "VENDOR"} |-> ValueOf(DefaultVariables(Triplet), n)]
        After[i \in 0 .. Len(lines)] ==
            IF i = 0 THEN [env |-> Start, left |-> FALSE, kept |-> << >>]
            ELSE LET r == After[i - 1]
                     l == lines[i]
                 IN  IF r.left THEN [r EXCEPT !.left = l.kind # "endif"]
                     ELSE [env |-> Said(r.env, l),
                           left |-> l.kind = "if" /\ ~Meant(r.env, l.words),
                           kept |-> IF l.kind # "text" THEN r.kept
                                    ELSE Append(r.kept,
                                             <<i, [w \in DOMAIN l.words |->
                                                     IF l.words[w] \in DOMAIN r.env
                                                     THEN r.env[l.words[w]] ELSE l.words[w]]>>)]
    IN  After[Len(lines)].kept

Written(f) ==
    LET items == SelectSeq(out, LAMBDA x : x.item = "text" /\ x.file = f)
    IN  [k \in DOMAIN items |-> <<items[k].line, items[k].words>>]

CodeWritten ==
    SelectSeq(Written(Main), LAMBDA x : files[Main][x[1]].kind = "text")

\* The lines of code that reach the lexer are those of the source, in order,
\* but for the ones under a false condition, with every name that is defined at
\* that point replaced and no other (generate_file_with_imports, preprocess_if,
\* add_variable, remove_variable).
SourceIsUnderstood ==
    stage = "done" /\ Flat(Main) /\ OnlyDefines /\ OrdinaryDefines => CodeWritten = Understood

-----------------------------------------------------------------------------
(* The imported files                                                      *)

Unconditional == Source_({"if"}) = {}

\* The lines j < i whose block line i is in, going by the braces.
Enclosing(f, i) ==
    LET lines == files[f]
        Depth[k \in 1 .. Len(lines) + 1] ==
            IF k = 1 THEN 0
            ELSE Depth[k - 1] + (IF lines[k - 1].opens THEN 1 ELSE 0)
                              - (IF lines[k - 1].closes THEN 1 ELSE 0)
    IN  {j \in 1 .. i - 1 : \A k \in j + 1 .. i : Depth[k] > Depth[j]}

\* The line that closes the block of line j.
Closer(f, j) ==
    CHOOSE i \in DOMAIN files[f] : j \in Enclosing(f, i) /\ j \notin Enclosing(f, i + 1)

EnclosedBy(f, i, kinds) == \E j \in Enclosing(f, i) : files[f][j].kind \in kinds

\* interpret_mod and interpret_members lose count of their braces when what they
\* hold reads a closing brace itself.
BlocksInBlocks(f) ==
    \E i \in LinesOf(f, {"struct", "enum", "union", "generic func", "generic struct"}) :
        ~files[f][i].closes /\ EnclosedBy(f, i, {"mod", "members"})

\* A mod and a members block do so too, but for a mod in a mod, whose first line
\* is not counted.  The block around them is never closed then.
MixedBlocks(f) ==
    \/ \E i \in LinesOf(f, {"members"}) : EnclosedBy(f, i, {"mod", "members"})
    \/ \E i \in LinesOf(f, {"mod"}) : EnclosedBy(f, i, {"members"})

\* interpret_struct loses count of its braces when a function that it holds has
\* a body of several lines: what follows is taken for the rest of the struct.
MethodBodies(f) ==
    \E i \in LinesOf(f, {"func"}) : ~files[f][i].closes /\ EnclosedBy(f, i, {"struct"})

\* When such a function is generic, its body is read and then what follows it is
\* passed over in place of the body.
GenericMethods(f) ==
    \E i \in LinesOf(f, {"generic func"}) : EnclosedBy(f, i, {"struct"}) \/ MethodBodies(f)

Balanced(f) ==
    Cardinality({i \in DOMAIN files[f] : files[f][i].opens}) =
    Cardinality({i \in DOMAIN files[f] : files[f][i].closes})

Ordinary(f) == Balanced(f) /\ ~BlocksInBlocks(f) /\ ~GenericMethods(f)

Items(kinds, f, i) ==
    {k \in DOMAIN out : out[k].item \in kinds /\ out[k].file = f /\ out[k].line = i}

DeclaredOnce(f, i, kinds) == Cardinality(Items(kinds, f, i)) = TimesImported(f)

\* Every function of an imported file is declared in the temporary file, once for
\* each time it is imported, however deep in mod, members and struct blocks it is
\* and whatever is declared before it, and no body is copied but that of a generic
\* function (find_patterns and the handlers it calls, which share one stream).
FunctionsAreDeclared ==
    stage = "done" /\ Unconditional =>
        \A f \in DOMAIN files \ {Main} : Ordinary(f) =>
            /\ \A i \in LinesOf(f, {"func"}) :
                   DeclaredOnce(f, i, {"extern"}) /\ Items({"copied"}, f, i) = {}
            /\ \A i \in LinesOf(f, {"generic func"}) :
                   DeclaredOnce(f, i, {"func", "copied"})

\* A block that is opened in the temporary file is closed in it, by its own line:
\* the lexer would take what follows, the source too, for a part of the block, or
\* what is in the block for something outside.
BlocksAreClosed ==
    stage = "done" =>
        \A f \in DOMAIN files \ {Main} :
            TimesImported(f) > 0 /\ Ordinary(f) /\ ~MixedBlocks(f) /\ ~MethodBodies(f) =>
                \A i \in LinesOf(f, {"mod", "members"}) : DeclaredOnce(f, Closer(f, i), {"close"})

-----------------------------------------------------------------------------
(* Line numbers                                                            *)

OutLine(k) == 1 + Cardinality({j \in 1 .. k - 1 : out[j].item = "newline"})

\* pos_line counts a line for import_file and one more for each declaration: it
\* may be at nb_line before the end, where the separator is left out.
Separated(f) ==
    \A i \in LinesOf(f, {"func"}) :
        i - 1 + Cardinality({j \in LinesOf(f, {"func"}) : j < i}) # Len(files[f])

FunctionsOnly(f) ==
    /\ \A i \in DOMAIN files[f] : files[f][i].kind \in {"func", "text", "blank"}
    /\ LinesOf(f, {"func"}) # {}
    /\ Separated(f)

\* The lexer counts the lines of the temporary file, from a number that main()
\* has lowered by modifier_for_line_count - nb_imports.  After the last import, a
\* line of the source has its own number in the errors, when what is imported is
\* functions and the source has no instruction.  The newline that the members
\* blocks of the prelude start with is not counted: it is one too many then.
LineNumbersAreRight ==
    /\ stage = "done" /\ Source_(Instructions \cup {"include"}) = {}
    /\ \A i \in Source_({"import"}) : \A f \in Range(ImportedBy(i)) :
           f \in DOMAIN files /\ FunctionsOnly(f)
    => \A k \in DOMAIN out :
           /\ out[k].item = "text" /\ out[k].file = Main
           /\ \A i \in Source_({"import"}) : i < out[k].line
           => OutLine(k) - (modifier_for_line_count - nb_imports)
                = out[k].line + (IF std_mode THEN 1 ELSE 0)

-----------------------------------------------------------------------------
(* The end                                                                 *)

Closed(f) ==
    \A i \in LinesOf(f, {"if"}) : \E j \in i + 1 .. Len(files[f]) : files[f][j].kind = "endif"

\* The pass ends, when every condition has an endif and no value holds a name
\* (preprocess_if and replace_variable_preprocessor loop for ever otherwise).
PassEnds ==
    (\A f \in Read_ : Closed(f)) /\ OrdinaryDefines => <>(stage \in {"done", "exited"})
============================================================================
