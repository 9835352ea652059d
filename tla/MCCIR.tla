-------------------------------- MODULE MCCIR --------------------------------
(***************************************************************************)
(* Files for TLC to compile: every function of a small grammar of          *)
(* statements, alone or between two other functions.  The grammars are     *)
(* those of one construct each, nested in one or two others.               *)
(***************************************************************************)
EXTENDS CIRProperties

MCVarNames == {"x", "i", "p", "a", "s", "g"}
MCGlobals == {"g"}
MCExterns == [printd |-> [args |-> <<"val">>, variadic |-> FALSE],
              puts |-> [args |-> <<"ptr">>, variadic |-> FALSE],
              printf |-> [args |-> <<"ptr">>, variadic |-> TRUE],
              take |-> [args |-> <<"i64", "val", "ptr">>, variadic |-> FALSE]]
MCLabels == {"l", "lbl"}

\* The nodes of a set of files.  TLC evaluates the definition a constant
\* stands for at every use, and a definition that one refers to only once.
RECURSIVE NodesBelow(_)
NodesBelow(S) ==
    IF S = {} THEN {}
    ELSE S \union NodesBelow(UNION {ToSet(n.kids) : n \in S})

NodesOf(progs) ==
    NodesBelow(UNION {{f.node : f \in ToSet(p)} : p \in progs})

\* Sequences over S of one element, or of at most two.
UpTo(S, n) == {<<s>> : s \in S} \union IF n = 1 THEN {} ELSE {<<s, t>> : s \in S, t \in S}
ScopesOf(S, n) == {ScopeExpr(s) : s \in UpTo(S, n)}

-----------------------------------------------------------------------------
(* Statements without control flow.                                        *)

DeclareX == VarExpr("x", NumberExpr)
AddToX == AssignExpr("x", BinaryExpr("+", VariableExpr("x"), NumberExpr))
Test(x) == BinaryExpr("<", VariableExpr(x), NumberExpr)
Call(f) == CallExpr(f, "void", << >>)
ReturnX == Return(VariableExpr("x"))
Panic == CallExpr("panicx", "never", << >>)

For(body) == ForExpr("i", NumberExpr, Test("i"), NumberExpr, body)
While(body) == WhileExpr(Test("x"), body)
Ifs(S) == {IfExpr(Test("x"), s) : s \in S}
IfElses(S, T) == {IfElseExpr(Test("x"), s, t) : s \in S, t \in T}

-----------------------------------------------------------------------------
(* Functions.                                                              *)

VoidFunction(stmts) == FunctionAST("f", << >>, "void", <<DeclareX>> \o stmts)
ValFunction(stmts) == FunctionAST("g", <<"x">>, "val", stmts \o <<VariableExpr("x")>>)
Main == FunctionAST("main", << >>, "val", <<Call("f"), SemicolonExpr>>)

Alone(bodies) == {<<VoidFunction(s)>> : s \in bodies} \union {<<ValFunction(s)>> : s \in bodies}
Between(bodies) == {<<VoidFunction(s), ValFunction(s), Main>> : s \in bodies}

-----------------------------------------------------------------------------
(* Structured code: if and for nested in each other, whose branches fall   *)
(* through or all end in the same way, without while and break.            *)

Straight == {AddToX, Call("f"), SemicolonExpr}
StraightScopes == ScopesOf(Straight, 2)
VoidScopes == ScopesOf({Call("f"), SemicolonExpr}, 1)
ValScopes == {ScopeExpr(<<NumberExpr>>), ScopeExpr(<<Call("f"), VariableExpr("x")>>)}
ReturnScopes == {ScopeExpr(<<ReturnX>>), ScopeExpr(<<Call("f"), ReturnX>>)}

Level1 == Ifs(StraightScopes) \union Ifs(ReturnScopes) \union {For(s) : s \in StraightScopes}
          \union IfElses(VoidScopes, VoidScopes) \union IfElses(ValScopes, ValScopes)
          \union IfElses({ScopeExpr(<<i, NumberExpr>>) : i \in Ifs(VoidScopes)}, ValScopes)
Level2 == Ifs(ScopesOf(Level1, 1)) \union {For(s) : s \in ScopesOf(Level1, 1)}

\* Expressions on memory: a pointer, an array, a struct and a global variable,
\* alone, and in the branches of an if and in a for.
VarX == VariableExpr("x")
VarP == TypedVariableExpr("p", "ptr")
VarA == TypedVariableExpr("a", "array")
VarS == TypedVariableExpr("s", "object")
VarG == VariableExpr("g")
Memory_x == <<TypedVarExpr("x", "val", << >>), TypedVarExpr("p", "ptr", <<AddrExpr(VarX)>>),
              TypedVarExpr("a", "array", << >>), TypedVarExpr("s", "object", << >>)>>

Value == IfElseExpr(Test("x"), ScopeExpr(<<NumberExpr>>), ScopeExpr(<<MemberExpr(VarS)>>))
Readings == {UnaryExpr("*", VarP), IndexExpr(VarA, VarX), IndexExpr(VarP, CastExpr(VarX, "i64")),
             MemberExpr(VarS), VarG, UnaryExpr("-", VarX), SizeofTypeExpr, SizeofExpr(VarX), CharExpr, TypeidExpr,
             CastExpr(BoolExpr, "val"), CastExpr(Value, "val"), CastExpr(AddrExpr(VarX), "val")}
Writings == {AssignIndexExpr(VarA, VarX, Value), AssignIndexExpr(VarP, NumberExpr, VarX),
             AssignMemberExpr(VarS, VarX),
             AssignExpr("g", BoolExpr), AssignTypedExpr(VarP, BinaryExpr("+", VarP, VarX)),
             AssignTypedExpr(VarP, NullExpr), AssignExpr("x", BinaryExpr("+", VarX, VarP)),
             CallExpr("puts", "void", <<StringExpr>>), CallExpr("printf", "void", <<StringExpr, VarX>>),
             CallExpr("take", "val", <<VarX, Value, VarP>>),
             CallExpr("take", "val", <<VarX, Value, BinaryExpr("+", VarP, CastExpr(Value, "i64"))>>)}
           \union {AssignExpr("x", r) : r \in Readings}

MemoryBodies ==
    {Memory_x \o <<s>> : s \in Writings \union Ifs(ScopesOf(Writings, 1))
                               \union {For(s) : s \in ScopesOf(Writings, 1)}}

StructuredPrograms ==
    Alone({<<s>> : s \in Level1 \union Level2} \union {<<s, AddToX>> : s \in Level1})
    \union Alone(MemoryBodies)
StructuredClosure == NodesOf(StructuredPrograms)
StructuredNodes == StructuredClosure

\* All of these trees say where they are left.
RECURSIVE Leaves(_)
Leaves(n) == \/ n.kind \in {"return", "break", "while"}
             \/ n.kind = "call" /\ ("Unreachable" \in n.contains \/ n.ty = "never")
             \/ n.kind = "scope" /\ n.kids # << >> /\ Leaves(Last(n.kids))

RECURSIVE Stays(_)
Stays(n) == /\ n.kind \notin {"scope", "if", "loop", "for", "while", "label", "function"}
            /\ \A k \in DOMAIN n.kids : Stays(n.kids[k])

ASSUME StructuredTreesAreHonest ==
    Nodes = StructuredNodes => Honest({n \in Nodes : Leaves(n)}, {n \in Nodes : Stays(n)})

-----------------------------------------------------------------------------
(* Every loop, breaks and deferred expressions, in a file of three         *)
(* functions: the first two have the same body.                            *)

Jumps == {Call("f"), BreakExpr, DeferExpr(Call("f"))}
Calm == Jumps \ {BreakExpr}
LoopsOf(S) == {For(s) : s \in S} \union {While(s) : s \in S}
Others(S, n) == Ifs(ScopesOf(S, n)) \union {LoopExpr(s) : s \in UpTo(S, n)}
                \union ScopesOf(S, n)

InLoop == Others(Jumps, 1) \union LoopsOf(ScopesOf(Jumps, 1))
OutOfLoop == Others(Calm, 2) \union LoopsOf(ScopesOf(Jumps, 2))

JumpBodies ==
    {<<s>> : s \in OutOfLoop \union LoopsOf(ScopesOf(InLoop, 1))}
    \union {<<DeferExpr(s), Call("f")>> : s \in LoopsOf(ScopesOf(Jumps, 1))}
    \union {<<LoopExpr(<<s, DeferExpr(t)>>)>> :
              s \in LoopsOf(ScopesOf(Jumps, 1)), t \in ScopesOf(Calm, 1)}
JumpPrograms == Between(JumpBodies)
JumpClosure == NodesOf(JumpPrograms)
JumpNodes == JumpClosure

-----------------------------------------------------------------------------
(* Every expression, those that generate nothing included: an empty scope, *)
(* a match, a label, a goto, a break out of any loop.                      *)

Odd == {Call("f"), MatchExpr, LabelExpr("l"), GotoExpr("l"), BreakExpr, BoolExpr,
        Return(Panic), UnreachableExpr, DeferExpr(DeferExpr(Call("f")))}
OddScopes == ScopesOf(Odd, 1) \union {ScopeExpr(<< >>)}
OddBranches == ScopesOf({Call("f"), MatchExpr, Return(Panic)}, 1) \union {ScopeExpr(<< >>)}

OddLevel1 ==
    Ifs(OddScopes) \union IfElses(OddBranches, OddBranches) \union LoopsOf(OddScopes)
    \union {LoopExpr(<<s, Call("f")>>) : s \in Odd}
    \union {WhileExpr(MatchExpr, ScopeExpr(<<Call("f")>>)),
            IfExpr(MatchExpr, ScopeExpr(<<Call("f")>>)),
            ForExpr("i", MatchExpr, Test("i"), NumberExpr, ScopeExpr(<<Call("f")>>)),
            VarExpr("x", BoolExpr), VarExpr("x", MatchExpr),
            AddToX, AssignExpr("x", MatchExpr)}

\* Expressions on memory that are reported or refused, and those that the
\* backend does not take; a call of a function that comes later.
OddPlaces == {VarP, VarG, BinaryExpr("+", VarP, VarX), NumberExpr}
OddMemory ==
    {AddrExpr(e) : e \in OddPlaces} \union {DerefExpr(e) : e \in OddPlaces \union {VarX}}
    \union {MemberExpr(e) : e \in {VarS, NumberExpr}}
    \union {MemberCallExpr(e, "void") : e \in {VarS, VarP, VarX}}
    \union {IndexExpr(e, k) : e \in {VarX, VarA, NumberExpr}, k \in {VarX, MatchExpr, VarS}}
    \union {AssignIndexExpr(e, k, VarX) : e \in {VarX, VarA, NumberExpr}, k \in {VarX, MatchExpr}}
    \union {AssignMemberExpr(e, VarX) : e \in {VarS, NumberExpr}}
    \union {AssignOtherExpr(NumberExpr, VarX)}
    \union {CastExpr(e, "ptr") : e \in {VarX, MatchExpr}}
    \union {VectorExpr(<<e, NumberExpr>>) : e \in {NumberExpr, VarX, MatchExpr}}
    \union {AsmExpr(args) : args \in {<<VarP, VarS>>, <<VarX, VarG>>, <<NumberExpr>>}}
    \union {CallExpr(f, "val", <<VarX>>) : f \in {"f", "g", "printd"}}
    \union {BinaryExpr("^", VarX, VarX), UnaryExpr("&", VarX), SizeofExpr(VarX)}
OddLevel2 == LoopsOf(ScopesOf(OddLevel1, 1))

OddPrograms ==
    Alone({<<s, t>> : s \in OddLevel1, t \in {BreakExpr, LabelExpr("l")}})
    \union Between({<<s>> : s \in OddLevel2})
    \union Alone({Memory_x \o <<s>> : s \in OddMemory})
    \union Between({Memory_x \o <<CallExpr(f, "val", <<NumberExpr>>)>> : f \in {"g", "printf"}})
OddClosure == NodesOf(OddPrograms)
OddNodes == OddClosure
=============================================================================
