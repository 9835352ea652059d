------------------------------ MODULE MCImports ------------------------------
(***************************************************************************)
(* Short programs for the first pass.                                      *)
(***************************************************************************)
EXTENDS ImportsProperties, TLC

L(kind, words) == [kind |-> kind, words |-> words, opens |-> FALSE, closes |-> FALSE]
Head_(kind) == [kind |-> kind, words |-> << >>, opens |-> TRUE, closes |-> FALSE]
OneLine(kind) == [kind |-> kind, words |-> << >>, opens |-> TRUE, closes |-> TRUE]
Close == [kind |-> "text", words |-> << >>, opens |-> FALSE, closes |-> TRUE]
X == L("text", <<"X">>)
Os == L("text", <<"OS", "Y">>)
Blank == L("blank", << >>)
Spaces == L("spaces", << >>)
Linux == L("if", <<"OS", "linux">>)
Windows == L("if", <<"OS", "windows">>)
WindowsOrX == L("if", <<"OS", "windows", "X", "1">>)
IsX == L("if", <<"X", "1">>)
Endif == L("endif", << >>)
DefineX == L("define", <<"X", "1">>)
DefineXX == L("define", <<"X", "X">>)
UndefineX == L("undefine", <<"X">>)
Error == L("error", << >>)
Warning == L("warning", << >>)
ImportLib == L("import", <<"lib">>)
ImportPackage == L("import", <<"@package">>)
ImportLost == L("import", <<"@lost">>)
IncludeHeader == L("include", <<"header">>)

MCPaths == [p \in {"lib", "@package", "@lost", "header", "gone"} |->
    [special |-> p \in {"@package", "@lost"}, found |-> p # "@lost",
     files |-> CASE p = "@package" -> <<"lib", "nofile", "lib2">>
                 [] p = "@lost" -> << >>
                 [] OTHER -> <<p>>]]

LinuxTriplet == <<"x86_64", "pc", "linux", "gnu">>

OneCore == <<"core">>

-----------------------------------------------------------------------------
(* The items of an imported file                                           *)

Block(kind, body) == <<Head_(kind)>> \o body \o <<Close>>

Func == Block("func", <<X>>)
FuncIf == Block("func", Block("text", <<X>>))
GenericFunc == Block("generic func", Block("text", << >>))
Extern == <<L("extern", << >>)>>
Type == <<L("type", << >>)>>
Field == <<L("text", << >>)>>

Plain == {Func, FuncIf, Extern, Type, <<OneLine("func")>>}
Structs == {Block("struct", Field), Block("struct", <<OneLine("func")>> \o Field),
            Block("struct", Extern), <<OneLine("struct")>>, Block("generic struct", Field)}
Others == {Block("enum", Field), Block("union", Field), <<OneLine("enum")>>, GenericFunc,
           <<L("define", <<"Y", "2">>)>>, <<Windows>>}
Nested == UNION {{Block("mod", i), Block("members", i)} : i \in Plain} \cup
          {Block("mod", Func \o Block("mod", Func)), Block("members", Func \o Func)}
\* Blocks whose braces the handlers lose count of.
Lossy == {Block("mod", Block("struct", Field) \o Func), Block("members", GenericFunc),
          Block("mod", Block("members", Func)), Block("members", Block("mod", Func)),
          Block("members", Block("members", Func)),
          Block("struct", Func), Block("struct", FuncIf), Block("struct", GenericFunc)}

FileItems == Plain \cup Structs \cup Others \cup Nested \cup Lossy

\* A file cut short in the middle of each handler.
Torn == {SubSeq(i, 1, Len(i) - 1) : i \in {Func, GenericFunc, Block("struct", Field),
            Block("enum", Field), Block("mod", Func), Block("members", Func)}} \cup
        {<<Head_("struct"), Head_("func")>>, <<Head_("struct"), Head_("generic func")>>}

Header == <<Blank, DefineX, Os>>
Lib == Func \o <<L("define", <<"Y", "2">>)>>

Program(main, lib, header) ==
    [f \in {"main", "lib", "lib2", "header", "core"} |->
        CASE f = "main" -> main
          [] f = "lib" -> lib
          [] f = "lib2" -> Func
          [] f = "header" -> header
          [] f = "core" -> Block("members", Func)]

\* Every source of three lines, and those with five about one condition.
SourceLines == {X, Os, Blank, Spaces, Linux, Windows, Endif, DefineX, UndefineX, Error, Warning,
                ImportLib, ImportPackage, ImportLost, IncludeHeader, L("include", <<"gone">>), DefineXX}
Conditionals == {<<d, u, c, X, Endif>> : d \in {DefineX, UndefineX, X, ImportLib},
                                         u \in {UndefineX, DefineX, Os},
                                         c \in {Windows, WindowsOrX, IsX, Linux}}
Sources == {<<a, b, c>> : a, b, c \in SourceLines} \cup
           {s \o <<X>> : s \in Conditionals}

Headers == {Header, <<Blank, DefineX, Os, Linux, X, Endif>>, <<DefineX, DefineX, X>>, <<Linux, Spaces, Endif>>, <<Windows, X, Endif, X>>,
            <<IsX>>, <<L("if", <<"X", "1">>), Error>>, <<DefineXX, X>>, <<DefineX, IsX, Endif, Warning>>,
            <<L("if", <<"VENDOR", "none">>), X>>}

SourcesPrograms ==
    {Program(s, Lib, Header) : s \in Sources} \cup
    {Program(<<DefineX, IncludeHeader, X>>, Lib, h) : h \in Headers}  \cup
    {Program(<<IncludeHeader, Blank, X>>, Lib, h) : h \in Headers} \cup
    {Program(<<DefineX, L("define", <<"Y", "X">>), IncludeHeader>>, Lib, <<L("if", <<"Y", "2">>), X, Endif, X>>)}

\* Every file of two items, imported before and after lines of the source.
ImportsPrograms ==
    {Program(s, lib, Header) :
        s \in {<<X, ImportLib, Blank, X>>, <<ImportPackage, X>>},
        lib \in {i \o j : i \in FileItems, j \in FileItems} \cup {i \o j : i \in {Func}, j \in Torn}}

AllPrograms == SourcesPrograms \cup ImportsPrograms
============================================================================
