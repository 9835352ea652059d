------------------------------- MODULE MCParser -------------------------------
(***************************************************************************)
(* Small sources for the parser, each with the trees that it means.        *)
(***************************************************************************)
EXTENDS ParserProperties

Names == {"main", "f", "g", "a", "b", "x", "y", "S", "E", "M", "T", "_", "self", "test", "repr",
          "void", "section", "const", "i32", "i8", "double", "print", "todo", "asm", "dbg",
          "unreachable", "file", "env"}
Env == {Tree("string", NoName, <<Leaf("string", "\"s\"")>>)}
Sizes == ("i32" :> 4) @@ ("i8" :> 1) @@ ("double" :> 8)

-----------------------------------------------------------------------------
(* A part of a source: its tokens, and the trees it adds to the one around. *)

Tok(t) == [toks |-> <<t>>, kids |-> << >>]
With1(kind, t) == [toks |-> <<t>>, kids |-> <<Leaf(kind, t)>>]
Id(x) == With1("name", x)
Mark(t) == With1("token", t)
Nothing == [toks |-> << >>, kids |-> << >>]
Joined(parts) ==
    [toks |-> FlattenSeq([i \in DOMAIN parts |-> parts[i].toks]),
     kids |-> FlattenSeq([i \in DOMAIN parts |-> parts[i].kids])]
Part(node, name, parts) ==
    [toks |-> Joined(parts).toks, kids |-> <<Tree(node, name, Joined(parts).kids)>>]
P(node, parts) == Part(node, NoName, parts)
Enclosed(open, part, close) == Joined(<<Tok(open), part, Tok(close)>>)

\* Expressions
Var(x) == P("identifier", <<Id(x)>>)
One == P("number", <<With1("number", "1")>>)
Two == P("number", <<With1("number", "2")>>)
Str == P("string", <<With1("string", "\"s\"")>>)
Operator(op) == [toks |-> IF op \in {"=="} THEN <<op, "=">> ELSE IF op = "&&" THEN <<op, "&">>
                          ELSE <<op>>, kids |-> << >>]
Binary(op, l, r) == Part("binary", op, <<l, Operator(op), r>>)
Unary(op, e) == Part("unary", op, <<Tok(op), e>>)
Paren(e) == Enclosed("(", e, ")")
Index(e, i) == Part("binary", "[", <<e, Enclosed("[", i, "]")>>)
Call(f, arg) == Part("call", f, <<Var(f), Enclosed("(", arg, ")")>>)
MemberCall(e, m, arg) == P("member call", <<Binary(".", e, Var(m)), Enclosed("(", arg, ")")>>)
And(e1, e2) == Joined(<<e1, Tok(","), e2>>)

Atoms == {Var("a"), One, Str, P("bool", <<Mark("true")>>), P("char", <<Mark("'c'")>>),
          P("null pointer", <<Tok("null")>>), P("array", <<Enclosed("[", And(One, Two), "]")>>),
          P("array", <<Enclosed("[", Nothing, "]")>>)}

Type(parts) == P("type", parts)
I32 == Type(<<Id("i32")>>)
Types == {I32, Type(<<Id("i8"), Mark("ptr"), Mark("ptr")>>),
          Type(<<Mark("struct"), Id("S"), Mark("ptr")>>), Type(<<Mark("union"), Id("S"), Mark("ptr")>>),
          Type(<<Mark("enum"), Id("E")>>),
          Type(<<Mark("Vector"), Tok("~"), Id("i32"), Tok(","), With1("number", "2"), Tok("~")>>),
          Type(<<Mark("func"), Enclosed("(", And(I32, I32), ")"), I32>>)}

Expressions ==
    Atoms
    \cup {Binary("+", Var("a"), Binary("*", Var("b"), One)),
          Binary("-", Binary("-", Var("a"), Var("b")), One),
          Binary("-", Var("a"), Call("g", One)),
          Binary("*", Paren(Binary("+", Var("a"), Var("b"))), Paren(Var("a"))),
          Binary("&&", Binary("==", Var("a"), One), Var("b")),
          Binary("=", Binary(".", Var("a"), Var("b")), One),
          Binary("=", Index(Var("a"), Binary("+", Var("b"), One)), Unary("-", One)),
          Binary("+", Call("f", And(Var("a"), Call("g", Nothing))), One),
          MemberCall(Var("a"), "f", One),
          Binary(".", Index(Var("a"), One), Var("b")),
          Unary("*", Unary("-", Var("a"))),
          Part("call", "f", <<Var("f"), Enclosed("~", I32, "~"), Enclosed("(", One, ")")>>),
          P("addr", <<Tok("addr"), Var("a")>>), P("deref", <<Tok("deref"), Var("a")>>),
          P("sizeof", <<Tok("sizeof"), I32>>), P("sizeof", <<Tok("sizeof"), Var("a")>>),
          P("typeId", <<Tok("typeId"), Var("a")>>), P("cast", <<Tok("cast"), I32, Var("a")>>),
          P("struct constant", <<Id("S"), Enclosed("{", And(One, Two), "}")>>),
          P("enum creation", <<Id("E"), Tok(":"), Tok(":"), Id("a"), Enclosed("(", One, ")")>>),
          P("enum creation", <<Id("E"), Tok(":"), Tok(":"), Id("b")>>),
          P("identifier", <<Id("M"), Tok(":"), Tok(":"), Id("M"), Tok(":"), Tok(":"), Id("f")>>),
          P("vector", <<Type(<<Mark("Vector"), Tok("~"), Id("i32"), Tok(","), With1("number", "2"), Tok("~")>>),
                        Enclosed("{", And(One, Two), "}")>>),
          P("print", <<Tok("#"), Tok("print"), Enclosed("(", And(Str, Var("a")), ")")>>),
          P("print", <<Tok("#"), Tok("print"),
                       Enclosed("(", P("file", <<Tok("#"), Tok("file"), Enclosed("(", Nothing, ")")>>), ")")>>),
          P("env", <<Tok("#"), Tok("env"), Enclosed("(", Str, ")")>>),
          P("todo", <<Tok("#"), Tok("todo"), Enclosed("(", Nothing, ")")>>),
          P("macro", <<Tok("#"), Id("asm"), Tok("("), With1("string", "\"s\""), Tok(","), Id("in"), Var("a"),
                       Tok(")")>>)}

\* Statements
Block(stmt) == P("scope", <<Enclosed("{", stmt, "}")>>)
IfThen(c, e) == P("if", <<Tok("if"), c, e>>)
IfThenElse(c, e1, e2) == P("if", <<Tok("if"), c, e1, Tok("else"), e2>>)
ElseIf(c, e1, i) == [IfThenElse(c, e1, i) EXCEPT !.kids[1].kids[3] = Tree("scope", NoName, <<@>>)]
VarTyped(x, t, e) == P("var", <<Tok("var"), Id(x), Tok(":"), t, Tok("="), e>>)
VarUntyped(x, e) == P("var", <<Tok("var"), Id(x), Tok("="), e>>)
For(e) == P("for", <<Tok("for"), Id("x"), Tok("="), One, Tok(","), Binary("<", Var("x"), Two), Tok(","), One, e>>)
WhileDo(e) == P("while", <<Tok("while"), Binary("<", Var("x"), Two), e>>)
LoopEver(e) == P("loop", <<Tok("loop"), Enclosed("{", e, "}")>>)
LoopIn(e) == P("loop in", <<Tok("loop"), Id("x"), Tok("in"), Var("a"), Enclosed("{", e, "}")>>)
Return(e) == P("return", <<Tok("return"), e>>)
Break == P("break", <<Tok("break")>>)
Semicolon == P("semicolon", <<Tok(";")>>)
Arrow == Joined(<<Tok("=>"), Tok(">")>>)
Match(c1, c2) == P("match", <<Tok("match"), Id("a"), Enclosed("{", Joined(<<c1, c2>>), "}")>>)
CaseOf(m, e) == P("match case", <<Id("E"), Tok(":"), Tok(":"), Id(m), Enclosed("(", Id("y"), ")"), Arrow, e>>)
CaseElse(e) == P("match case", <<Id("_"), Arrow, e, Tok(",")>>)
Closure(e) ==
    P("closure", <<Tok("func"), Tok("("), P("typed args", <<Id("y"), Tok(":"), I32>>), Tok(")"),
                   Enclosed("|", Id("x"), "|"), I32, Enclosed("{", e, "}")>>)

\* Dropped: what follows a return or an endless loop, not what follows an if that returns.
Dropped(e) == [e EXCEPT !.kids = << >>]
Unreached ==
    {IfThen(Var("a"), Block(Joined(<<Return(One), Dropped(Call("g", One))>>))),
     IfThen(Var("a"), Block(Joined(<<IfThen(Var("b"), Return(One)),
                                     IfThenElse(Var("b"), Return(One), Return(Two)), Dropped(Break)>>))),
     Block(Joined(<<LoopEver(Call("f", One)), Dropped(Semicolon)>>))}

Bodies == {Call("f", One), Break, Joined(<<VarUntyped("b", One), Semicolon>>)}
Statements ==
    Unreached \cup {IfThen(Var("a"), Block(e)) : e \in Bodies} \cup {For(Block(e)) : e \in Bodies}
    \cup {WhileDo(Block(e)) : e \in Bodies} \cup {LoopIn(e) : e \in Bodies}
    \cup {IfThenElse(Var("a"), Block(e), Block(IfThen(Var("b"), Break))) : e \in Bodies}
    \cup {ElseIf(Var("a"), Block(e), IfThen(Var("b"), Block(Break))) : e \in Bodies}
    \cup {ElseIf(Var("a"), Block(e), IfThenElse(Var("b"), Block(Break), Block(e))) : e \in Bodies}
    \cup {VarTyped("b", t, One) : t \in Types} \cup {Match(CaseOf("a", Block(e)), CaseElse(One)) : e \in Bodies}
    \cup {VarUntyped("b", Closure(e)) : e \in Bodies} \cup {Block(e) : e \in Bodies}
    \cup {P("goto", <<Tok("goto"), Id("a")>>), P("label", <<Tok("label"), Id("a")>>),
          P("defer", <<Tok("defer"), Call("f", One)>>), IfThen(Var("a"), Return(One)),
          P("var", <<Tok("var"), Id("b"), Tok("["), With1("number", "2"), Tok("]"), Tok(":"), I32>>),
          P("var", <<Tok("var"), Id("b"), Tok(","), Id("y"), Tok("="), One>>)}

\* Declarations
Args(parts) == P("typed args", parts)
Prototype(f, args, type) ==
    P("prototype", <<Id(f), Enclosed("(", Args(<<args>>), ")"), type>>)
Returning == P("type", <<Id("i32")>>)
XTyped == Joined(<<Id("x"), Tok(":"), I32>>)
Function(f, body) == P("definition", <<Tok("func"), Prototype(f, XTyped, Returning), Enclosed("{", body, "}")>>)
Method(f) == Function(f, Return(Var("self")))
StructS ==
    P("struct", <<Tok("struct"), Id("S"), Tok("{"), P("var", <<Tok("var"), Id("a"), Tok(":"), I32>>),
                  Method("f"), Tok("}")>>)
\* auto_reorder puts the larger member first.
Reordered ==
    LET small == P("var", <<Tok("var"), Id("a"), Tok(":"), Type(<<Id("i8")>>)>>)
        large == P("var", <<Tok("var"), Id("b"), Tok(":"), I32>>)
        struct(members) == P("struct", <<Tok("struct"), Id("S"), Tok("repr"),
                                With1("string", "\"auto_reorder\""), Enclosed("{", members, "}")>>)
    IN  [struct(Joined(<<small, large>>)) EXCEPT !.kids = struct(Joined(<<large, small>>)).kids]
EnumE ==
    P("enum", <<Tok("enum"), Id("E"), Tok("{"),
                P("enum member", <<Id("a"), Enclosed("(", I32, ")")>>),
                P("enum member", <<Id("b"), Tok("="), One>>), Tok("}")>>)
Others ==
    {P("extern", <<Tok("extern"), P("prototype", <<Id("f"), Tok("("), Args(<<Id("x"), Mark("...")>>), Tok(")")>>)>>),
     P("union", <<Tok("union"), Id("S"), Tok("{"), P("var", <<Tok("var"), Id("a"), Tok(":"), I32>>), Tok("}")>>),
     P("global", <<Tok("var"), Id("const"), Id("x"), Tok(":"), I32, Tok("="), One>>),
     P("global", <<Tok("var"), Id("x"), Tok("["), With1("number", "2"), Tok("]"), Tok(":"), I32, Tok("section"),
                   With1("string", "\"s\"")>>),
     P("typedef", <<Tok("type"), Id("T"), I32>>),
     P("mod", <<Tok("mod"), Id("M"), Enclosed("{", Joined(<<Method("f"), StructS>>), "}")>>),
     P("members", <<Tok("members"), Tok("for"), Id("S"), Enclosed("{", Method("g"), "}")>>),
     P("test", <<Tok("test"), With1("string", "\"s\""), Enclosed("{", Call("f", One), "}")>>),
     P("definition", <<Tok("func"),
         P("prototype", <<Tok("binary"), Mark("+"), With1("number", "2"), Tok("("), Args(<<Id("x"), Tok(","), Id("y")>>),
                          Tok(")")>>), Enclosed("{", Var("x"), "}")>>),
     Reordered}

\* Kept as templates: they come to nothing here, and to no error.
Templates ==
    LET generic(body) == Joined(<<Tok("~"), Tok("T"), Tok("~"), body>>)
        members == P("struct", <<P("var", <<Tok("var"), Id("a"), Tok(":"), Tok("T")>>)>>)
    IN  {[d EXCEPT !.kids = << >>] : d \in
            {Joined(<<Tok("struct"), Tok("S"), generic(Enclosed("{", members, "}"))>>),
             Joined(<<Tok("enum"), Tok("E"), generic(Tok("{")), Tok("a"), Tok("("), Tok("T"), Tok(")"), Tok("}")>>),
             Joined(<<Tok("func"), Tok("f"), generic(Tok("(")), Tok("x"), Tok(":"), Tok("T"), Tok(")"), Tok("T"),
                      Tok("{"), Tok("return"), Tok("x"), Tok("}")>>)}}

\* With a garbage collector main begins by starting it.
Main ==
    LET args == P("main args", <<Id("argc"), Id("argv")>>)
        of(first) == P("definition",
            <<Tok("func"),
              P("prototype", <<Id("main"), Tok("("), [args EXCEPT !.toks = <<"x", ":", "i32">>], Tok(")")>>),
              Tok("{"), first, Call("f", One), Tok("}")>>)
        gc_init == [toks |-> << >>, kids |-> <<Tree("call", "gc_init", << >>)>>]
    IN  of(gc_init)

\* a op b op c op 1, and the tree by the rule: the last of the operators that bind
\* least is the root.
RECURSIVE Bound(_, _)
Bound(operands, ops) ==
    IF ops = << >> THEN operands[1].kids[1]
    ELSE LET least == Min({Precedences[ops[i]] : i \in DOMAIN ops})
             root == Max({i \in DOMAIN ops : Precedences[ops[i]] = least})
         IN  Tree("binary", ops[root],
                  <<Bound(SubSeq(operands, 1, root), SubSeq(ops, 1, root - 1)),
                    Bound(SubSeq(operands, root + 1, Len(operands)), SubSeq(ops, root + 1, Len(ops)))>>)
Chain(ops) ==
    LET operands == <<Var("a"), Var("b"), Var("y"), One>>
        toks == operands[1].toks \o FlattenSeq([i \in DOMAIN ops |-> Operator(ops[i]).toks \o operands[i + 1].toks])
    IN  [toks |-> toks, kids |-> <<Bound(operands, ops)>>]
Chains == {Chain(ops) : ops \in [1 .. 3 -> {"=", "==", "<", "-", "*", "."}]}

\* Files: the declarations on the first line, a last function on the last line.
LastFunction == Function("g", Return(Var("x")))
Source(decls) ==
    [toks |-> Joined(decls).toks,
     starts |-> {1, Len(Joined(decls).toks) - Len(Last(decls).toks) + 1},
     ast |-> [kind \in Declarations |-> SelectSeq(Joined(decls).kids, LAMBDA k : k.node = kind)],
     damage |-> NoName]
Sources ==
    {Source(<<StructS, EnumE, Function("f", Joined(<<e, Semicolon, Call("f", Nothing)>>)), LastFunction>>) :
        e \in Expressions}
    \cup {Source(<<EnumE, StructS, Function("f", Joined(<<e, Call("f", Nothing)>>)), LastFunction>>) :
        e \in Statements}
    \cup {Source(<<d, LastFunction>>) : d \in Others \cup {StructS, EnumE, Main}}
    \cup {Source(<<d, Semicolon, EnumE, StructS, LastFunction>>) : d \in Templates}
ChainSources == {Source(<<Function("f", e), LastFunction>>) : e \in Chains}

\* The same with one bracket left out, or with a token before the last function.
Without(src, i) ==
    [src EXCEPT !.toks = RemoveAt(@, i), !.starts = {1, Max(@) - 1}, !.damage = src.toks[i]]
WithToken(src, t) ==
    [src EXCEPT !.toks = InsertAt(@, Max(src.starts), t), !.starts = {1, Max(@) + 1}, !.damage = t]
Brackets == {"(", ")", "{", "}", "[", "]"}
Damaged ==
    UNION {{Without(src, i) : i \in {j \in 1 .. Max(src.starts) - 1 : src.toks[j] \in Brackets}} : src \in Sources}
    \cup {WithToken(src, t) : src \in Sources, t \in {"#", ","}}

\* A function of an unknown type, one of a type made from a template of none, and
\* a name that the environment does not have.
Mistaken ==
    LET instance == Joined(<<Mark("struct"), Id("S"), Tok("~"), Tok("~")>>)
        env == P("env", <<Tok("#"), Tok("env"), Enclosed("(", P("string", <<With1("string", "\"auto_reorder\"")>>), ")")>>)
        mistaken(d, what) == [Source(<<d, LastFunction>>) EXCEPT !.damage = what]
        typed(f, t) == P("definition", <<Tok("func"), Prototype(f, XTyped, t), Enclosed("{", One, "}")>>)
    IN  {mistaken(typed("f", Tok("a")), "a"), mistaken(typed("main", Tok("a")), "a"),
         mistaken(Joined(<<CHOOSE d \in Templates : d.toks[1] = "struct", typed("f", instance)>>), "~"),
         mistaken(Function("f", env), "\"auto_reorder\"")}

MCFiles == Sources \cup ChainSources \cup Damaged \cup Mistaken
===============================================================================
