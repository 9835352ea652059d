-------------------------------- MODULE Grammar --------------------------------
(***************************************************************************)
(* The functions of ast.cpp that parse by reading one token after another, *)
(* as data: each is the sequence of steps it takes.  Parser says what the  *)
(* steps do, and defines the functions that are no such sequence.          *)
(***************************************************************************)
EXTENDS ParserInput

-----------------------------------------------------------------------------
(* Steps                                                                   *)

Eat == [do |-> "eat"]                               \* getNextToken()
Keep(kind) == [do |-> "keep", kind |-> kind]        \* what was lexed last of a kind; and eat
Name == Keep("id")
Number == Keep("num")
String == Keep("str")
Token == Keep("token")
Parse(rule) == [do |-> "parse", rule |-> rule]      \* null is passed on
Maybe(rule) == [do |-> "maybe", rule |-> rule]      \* null is not looked at
Go(rule) == [do |-> "go", rule |-> rule]            \* the rest of the function
Cases(cases) == [do |-> "cases", cases |-> cases]    \* the first pair whose test holds
While(test, body) == [do |-> "while", test |-> test, body |-> body]
Do(what) == [do |-> what]
As(node) == [do |-> "as", node |-> node]            \* the class of the tree
Report == Do("report")                              \* LogError, and go on
Error == Do("error")                                \* return LogError
Body == Do("body")                                  \* ParseBodyExpressions, up to the '}'
Operators(prec) == [do |-> "operators", prec |-> prec]  \* ParseBinOpRHS(prec, the last part)

\* Tests: CurTok; IdentifierStr, which need not be CurTok's; a name in a table.
Is(tokens) == [on |-> "token", in |-> tokens, but |-> FALSE]
Isnt(tokens) == [on |-> "token", in |-> tokens, but |-> TRUE]
NameIs(names) == [on |-> "id", in |-> names, but |-> FALSE]
FirstIs(names) == [on |-> "first", in |-> names, but |-> FALSE]
Test(what) == [on |-> what, in |-> {}, but |-> FALSE]
Otherwise == Isnt({})

IfElse(test, then, else) == Cases(<< <<test, then>>, <<Otherwise, else>> >>)
If(test, then) == Cases(<< <<test, then>> >>)

Check(tokens) == IfElse(Is(tokens), << >>, <<Error>>)
Need(token) == IfElse(Is({token}), <<Eat>>, <<Error>>)
Until(token, body) == While(Isnt({token}), body)
Optional(token, steps) == If(Is({token}), <<Eat>> \o steps)
Separated(rule, end) ==
    If(Isnt({end}), <<Parse(rule), Until(end, <<Need(","), Parse(rule)>>)>>)

-----------------------------------------------------------------------------
(* Expressions                                                             *)

ParseExpression == <<Parse("unary"), Operators(0)>>

\* What begins no primary expression is taken for a unary operator.
ParseUnary ==
    <<IfElse(Test("primary"), <<Do("primary")>>, <<Token, Parse("unary"), Do("unary")>>)>>

\* Mistake: what follows the expression is eaten, whatever it is.
ParseParenExpr_unchecked == <<Eat, Parse("expression"), Eat>>

ParseNumberExpr == <<Number>>
ParseStrExpr == <<String>>
ParseCharExpr == <<Token>>
ParseBool == <<Token>>
ParseNullExpr == <<Eat>>
ParseSemiColon == <<Eat>>
ParseBreakExpr == <<Eat>>
ParseParenExpr == <<Eat, Parse("expression"), Need(")")>>
ParseScope == <<Eat, Body, Need("}")>>
ParseConstantArray == <<Eat, Separated("expression", "]"), Eat>>
ParseFunctionArgs == <<Separated("expression", ")")>>

\* E::m(v), a::b, S { v, .. } or a variable.
ParseIdentifierExpr ==
    <<Name,
      IfElse(Test("enums"),
          <<As("enum creation"), Need(":"), Need(":"), Name,
            Optional("(", <<Maybe("expression"), Need(")")>>)>>,
          <<If(Is({":"}), <<Need(":"), Need(":"), Go("path")>>),
            If(Test("struct constant"),
               <<As("struct constant"), Eat, Separated("expression", "}"), Eat>>)>>)>>

\* The while loop of ParseIdentifierExpr over the parts of a::b::c.
Path == <<If(Is(Identifiers), <<Name, If(Is({":"}), <<Need(":"), Need(":"), Go("path")>>)>>)>>

\* The arguments of a call, after its '(' or '~'.
ParseFunctionCallOp == <<Go("function args"), Need(")")>>
TemplateCallOp == <<Parse("type"), Need("~"), Need("("), Go("function args"), Need(")")>>

ParseIfExpr == <<Eat, Parse("expression"), Parse("expression"), Go("else")>>
Else ==
    <<Optional("else", <<IfElse(Is({"if"}), <<Parse("if"), Do("else if"), Go("else")>>,
                                            <<Maybe("expression"), Do("else")>>)>>)>>

ParseReturn == <<Eat, IfElse(Is({"void"}), <<Eat>>, <<Parse("expression")>>)>>
ParseGotoExpr == <<Eat, Name>>
ParseLabelExpr == <<Eat, Name>>
ParseDefer == <<Eat, Maybe("expression")>>
ParseAddrExpr == <<Eat, Parse("expression")>>
ParseDerefExpr == <<Eat, Parse("expression")>>
ParseTypeidExpr == <<Eat, Parse("expression")>>
ParseCastExpr == <<Eat, Parse("type"), Maybe("expression")>>
ParseSizeofExpr == <<Eat, IfElse(Test("sizeof type"), <<Parse("type")>>, <<Parse("expression")>>)>>
ParseWhileExpr == <<Eat, Parse("expression"), Parse("expression")>>

ParseForExpr ==
    <<Eat, Check(Identifiers), Name, Optional(":", <<Parse("type")>>), Need("="),
      Parse("expression"), Need(","), Parse("expression"),
      Optional(",", <<Parse("expression")>>), Maybe("expression")>>

ParseLoopExpr ==
    <<Eat,
      IfElse(Is({"{"}),
          <<Eat, Body, Eat>>,
          <<As("loop in"), Check(Identifiers), Name, Need("in"), Maybe("identifier"), Need("{"),
            Body, Eat>>)>>

ParseVarExpr == <<Eat, Check(Identifiers), Go("var names"), Do("declare first")>>
VarNames ==
    <<Name, Optional("[", <<Number, Need("]")>>), Optional(":", <<Parse("type"), Do("not empty")>>),
      Optional("=", <<Parse("expression")>>),
      Optional(",", <<Check(Identifiers), Go("var names")>>)>>

ParseMatch == <<Eat, Name, Need("{"), Until("}", <<Parse("match case")>>), Eat>>
MatchCase ==
    <<Cases(<<
        <<NameIs({"_"}), <<Name>> >>,
        <<Is(Identifiers),
          <<Name, Need(":"), Need(":"), Name, Optional("(", <<Name, Need(")")>>)>> >>,
        <<Otherwise, <<Maybe("expression")>> >> >>),
      IfElse(Test("arrow"), <<Eat, Need(">")>>, <<Error>>),
      Maybe("expression"), If(Test("no scope"), <<Need(",")>>)>>

ParseClosure ==
    <<Eat, Need("("), Parse("typed args"), Eat,
      Optional("|", <<Go("captured"), Until("|", <<Need(","), Go("captured")>>), Eat>>),
      If(Is(Identifiers \cup {"struct", "class"}), <<Parse("type")>>),
      Need("{"), Body, Eat>>
Captured == <<IfElse(Test("vars"), <<Name>>, <<Error>>)>>

ParseConstantVector ==
    <<Maybe("vector type"), Need("{"), Separated("expression", "}"), Eat>>

ParseMacroCall ==
    <<Eat, Name, Need("("),
      IfElse(FirstIs({"asm"}), <<Go("inline asm")>>,
                               <<Go("function args"), Eat, Do("macro")>>)>>
ParseInlineAsm ==
    <<String, Optional(",", <<Go("asm arg"), Until(")", <<Need(","), Go("asm arg")>>)>>), Eat>>
AsmArg == <<IfElse(NameIs({"in", "out"}), <<Name>>, <<Error>>), Maybe("expression")>>

-----------------------------------------------------------------------------
(* Types: none of these functions returns null.                            *)

ParseTypeDeclaration == <<If(Is({"never"}), <<Error>>), Go("some type")>>
ReturnType == <<IfElse(Is({"never"}), <<Token>>, <<Go("some type")>>)>>
SomeType ==
    <<Cases(<<
        <<Is({"func"}), <<Go("function type")>> >>,
        <<Is({"Vector"}), <<Go("vector type")>> >>,
        <<Is({"struct", "class"}),
          <<Token, Name, If(Is({"~"}), <<Go("template type"), Do("templateStructs")>>), Go("ptr")>> >>,
        <<Is({"union"}), <<Token, Name, If(Is({"ptr"}), <<Token>>)>> >>,
        <<Is({"enum"}),
          <<Token, Name, If(Is({"~"}), <<Go("template type"), Do("templateEnums")>>)>> >>,
        <<Test("type or template"), <<Name, Go("ptr")>> >>,
        <<Is(Identifiers), <<Error>> >>,
        <<Otherwise, <<Report, Do("default type")>> >> >>)>>
Pointers == <<While(Is({"ptr"}), <<Token>>)>>
BeginType == Identifiers \cup {"never", "struct", "class", "func", "union", "enum", "Vector"}
TemplateType ==
    <<Eat, IfElse(Is(BeginType), <<Parse("type")>>, <<Report, Do("no type")>>), Need("~")>>

\* The ')' of a function type without arguments is not eaten.
FunctionType ==
    <<Token, Need("("),
      If(Isnt({")"}), <<Go("function type arg"), Until(")", <<Need(","), Go("function type arg")>>), Eat>>),
      Parse("type")>>
FunctionTypeArg == <<Check(Identifiers), Parse("type")>>

ParseTypeDeclarationVector ==
    <<Token, Need("~"), IfElse(Test("types"), <<Name>>, <<Error>>), Need(","), Number, Need("~")>>

-----------------------------------------------------------------------------
(* Declarations                                                            *)

ParseFunctionArgsTyped ==
    <<If(Isnt({")", "..."}), <<Go("typed arg"), While(Isnt({")", "..."}), <<Need(","), Go("typed arg")>>)>>),
      If(Is({"..."}), <<Token>>)>>
TypedArg == <<Name, Optional(":", <<Parse("type")>>)>>

ParsePrototype ==
    <<Cases(<<
        <<Is(Identifiers), <<Name, Go("signature")>> >>,
        <<Is({"unary"}), <<Eat, Check(Symbols), Token, Go("signature"), Do("one operand")>> >>,
        <<Is({"binary"}),
          <<Eat, Check(Symbols), Token, If(Is(Numbers), <<If(Is({"0"}), <<Error>>), Number>>),
            Go("signature"), Do("two operands")>> >>,
        <<Otherwise, <<Error>> >> >>),
      If(Is(Identifiers \cup {"struct", "class", "never"}), <<Parse("return type")>>)>>
Signature ==
    <<Optional("~", <<Name, Need("~"), Do("template")>>), Need("("),
      IfElse(FirstIs({"main"}), <<While(Is(Identifiers \cup {":"}), <<Eat>>), Do("main args")>>,
                                <<Parse("typed args")>>),
      Eat>>

ParseDefinition ==
    <<Eat, Parse("prototype"), If(Isnt({"{"}), <<Report>>), Eat, Do("declare args"),
      Do("return type not empty"), Body, Eat, Do("template of definition")>>
ParseExtern == <<Eat, Parse("prototype")>>

ParseStruct ==
    <<Eat, Name, Optional("~", <<Name, Need("~"), Do("template")>>), Do("struct template"),
      Optional("repr", <<Check(Strings), String>>), Need("{"), Do("structs"),
      While(Is({"var", "func", "extern"}),
          <<Cases(<< <<Is({"var"}), <<Parse("var")>> >>,
                     <<Is({"extern"}), <<Parse("extern")>> >>,
                     <<Is({"func"}), <<Do("declare self"), Parse("definition")>> >> >>)>>),
      Need("}"), Do("end of struct"), Do("template of struct")>>

\* What is null is reported here once more, a template that is no error included.
ParseMembers ==
    <<Eat, If(Is(Identifiers), <<Name>>), Need("for"), Name, Need("{"),
      While(Is({"func", "extern"}),
          <<IfElse(Is({"func"}), <<Do("declare self"), Maybe("definition")>>, <<Maybe("extern")>>),
            If(Test("null"), <<Error>>), If(Is({";"}), <<Eat>>)>>),
      Need("}")>>

ParseUnion == <<Eat, Name, Need("{"), While(Is({"var"}), <<Parse("var")>>), Need("}")>>

ParseEnum ==
    <<Eat, Name, Optional("~", <<Check(Identifiers), Name, Do("template"), Need("~")>>), Need("{"),
      While(Is(Identifiers), <<Parse("enum member")>>), Need("}"), Do("enums"),
      Do("template of enum")>>
EnumMember ==
    <<Name, Optional("(", <<Parse("type"), Need(")")>>),
      Optional("=", <<Maybe("expression"), Do("constant")>>)>>

ParseMod ==
    <<Eat, Name, Need("{"),
      Until("}",
          <<Cases(<< <<Is({";"}), <<Eat>> >>,
                     <<Is({"func"}), <<Parse("definition")>> >>,
                     <<Is({"extern"}), <<Parse("extern")>> >>,
                     <<Is({"struct"}), <<Parse("struct")>> >>,
                     <<Is({"mod"}), <<Parse("mod")>> >>,
                     <<Otherwise, <<Error>> >> >>)>>),
      Eat>>

ParseGlobalVariable ==
    <<Eat, If(NameIs({"extern"}), <<Name>>), If(NameIs({"const"}), <<Name>>), Name,
      Optional("[", <<Number, Need("]")>>), Optional(":", <<Parse("type")>>),
      Optional("=", <<Parse("expression")>>), Optional("section", <<String>>)>>

ParseTypeDef == <<Eat, Name, Parse("type"), Do("types")>>

\* HandleTest begins with it: test is an identifier.
ParseTest == <<Eat, Check(Strings), String, Need("{"), Body, Eat>>

Grammar ==
    ("expression" :> ParseExpression) @@ ("unary" :> ParseUnary) @@
    ("number" :> ParseNumberExpr) @@ ("string" :> ParseStrExpr) @@ ("char" :> ParseCharExpr) @@
    ("bool" :> ParseBool) @@ ("null pointer" :> ParseNullExpr) @@ ("semicolon" :> ParseSemiColon) @@
    ("break" :> ParseBreakExpr) @@ ("paren" :> ParseParenExpr) @@ ("scope" :> ParseScope) @@
    ("array" :> ParseConstantArray) @@ ("function args" :> ParseFunctionArgs) @@
    ("identifier" :> ParseIdentifierExpr) @@ ("path" :> Path) @@
    ("call" :> ParseFunctionCallOp) @@ ("template call" :> TemplateCallOp) @@
    ("if" :> ParseIfExpr) @@ ("else" :> Else) @@ ("return" :> ParseReturn) @@
    ("goto" :> ParseGotoExpr) @@ ("label" :> ParseLabelExpr) @@ ("defer" :> ParseDefer) @@
    ("addr" :> ParseAddrExpr) @@ ("deref" :> ParseDerefExpr) @@ ("typeId" :> ParseTypeidExpr) @@
    ("cast" :> ParseCastExpr) @@ ("sizeof" :> ParseSizeofExpr) @@ ("while" :> ParseWhileExpr) @@
    ("for" :> ParseForExpr) @@ ("loop" :> ParseLoopExpr) @@ ("var" :> ParseVarExpr) @@
    ("var names" :> VarNames) @@ ("match" :> ParseMatch) @@ ("match case" :> MatchCase) @@
    ("closure" :> ParseClosure) @@ ("captured" :> Captured) @@ ("vector" :> ParseConstantVector) @@
    ("macro" :> ParseMacroCall) @@ ("inline asm" :> ParseInlineAsm) @@ ("asm arg" :> AsmArg) @@
    ("type" :> ParseTypeDeclaration) @@ ("return type" :> ReturnType) @@ ("some type" :> SomeType) @@
    ("ptr" :> Pointers) @@ ("template type" :> TemplateType) @@ ("function type" :> FunctionType) @@
    ("function type arg" :> FunctionTypeArg) @@ ("vector type" :> ParseTypeDeclarationVector) @@
    ("typed args" :> ParseFunctionArgsTyped) @@ ("typed arg" :> TypedArg) @@
    ("prototype" :> ParsePrototype) @@ ("signature" :> Signature) @@
    ("definition" :> ParseDefinition) @@ ("extern" :> ParseExtern) @@ ("struct" :> ParseStruct) @@
    ("members" :> ParseMembers) @@ ("union" :> ParseUnion) @@ ("enum" :> ParseEnum) @@
    ("enum member" :> EnumMember) @@ ("mod" :> ParseMod) @@ ("global" :> ParseGlobalVariable) @@
    ("typedef" :> ParseTypeDef) @@ ("test" :> ParseTest)

\* ParsePrimary
PrimaryOf(t) ==
    CASE t = "#" -> "macro" [] t = ";" -> "semicolon" [] t \in Identifiers -> "identifier"
      [] t \in Numbers -> "number" [] t \in {"true", "false"} -> "bool" [] t = "(" -> "paren"
      [] t = "[" -> "array" [] t = "{" -> "scope" [] t \in Strings -> "string"
      [] t \in Chars -> "char" [] t = "null" -> "null pointer" [] t = "func" -> "closure"
      [] t = "Vector" -> "vector"
      [] t \in {"if", "return", "for", "var", "addr", "deref", "sizeof", "while", "loop", "typeId",
                "cast", "goto", "label", "break", "match", "defer"} -> t
      [] OTHER -> "unknown"
============================================================================
