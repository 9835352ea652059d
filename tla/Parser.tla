-------------------------------- MODULE Parser --------------------------------
(***************************************************************************)
(* The parser of C. (ast.cpp): what the steps of Grammar do, the functions *)
(* that are no sequence of steps, and ParseFile, which reads declarations  *)
(* until the lexer has read the last line.                                 *)
(*                                                                         *)
(* The functions are recursive, so they are operators from the state of    *)
(* the parser to a tree and a new state; an action is one turn of the loop *)
(* of ParseFile.                                                           *)
(***************************************************************************)
EXTENDS Grammar

VARIABLE fileAST        \* FileAST and testASTNodes: the trees of each kind of declaration

vars == <<file, s, fileAST>>

\* A function in progress: its state, the parts of its tree, whether it returned null,
\* and found_terminator.
Begin(rule, p) == [s |-> p, kids |-> << >>, ok |-> TRUE, node |-> rule, ended |-> FALSE]
GoesOn(r) == r.ok /\ r.s.how = "parsing"
LastKid(r) == Last(r.kids)
With(r, kid) == [r EXCEPT !.kids = Append(@, kid)]
Fails(r) == [r EXCEPT !.ok = FALSE]
ReturnsError(r) == [r EXCEPT !.ok = FALSE, !.s = LogError(@)]
Crashes(r) == [r EXCEPT !.s = Crash(@)]
NameOf(r) == r.kids[1].name
Before(r, n) == SubSeq(r.kids, 1, Len(r.kids) - n)
Merged(r, n, kid) == [r EXCEPT !.kids = Append(Before(r, n), kid)]

\* A `~` that begins the creation of an enum with a template: the rest of the line.
is_templated_enum_creation(p) ==
    /\ CurTok(p) = "~"
    /\ \E i \in p.at + 1 .. Len(file.toks) :
           /\ file.toks[i] = ":"
           /\ \A j \in p.at + 1 .. i : j \notin file.starts /\ file.toks[j] # "("

BeginsPrimary(p) ==
    \/ CurTok(p) \notin Symbols \/ CurTok(p) \in {"(", ",", "{", ":", "[", "#", ";"}
    \/ is_templated_enum_creation(p)

Holds(test, r) ==
    CASE test.on = "token" -> (CurTok(r.s) \in test.in) # test.but
      [] test.on = "id" -> r.s.id \in test.in
      [] test.on = "first" -> NameOf(r) \in test.in
      [] test.on = "enums" -> NameOf(r) \in r.s.enums
      [] test.on = "struct constant" ->
             Len(r.kids) = 1 /\ NameOf(r) \in r.s.structs /\ CurTok(r.s) = "{"
      [] test.on = "vars" -> r.s.id \in r.s.vars
      [] test.on = "types" -> CurTok(r.s) \in r.s.types
      [] test.on = "type or template" -> CurTok(r.s) \in r.s.types \cup {r.s.template}
      [] test.on = "sizeof type" ->
             CurTok(r.s) \in r.s.types \cup {r.s.structTemplate, "struct", "class"}
      [] test.on = "arrow" -> CurTok(r.s) \in MultiChar \/ r.s.op = "=>"
      [] test.on = "no scope" -> LastKid(r).node # "scope"
      [] test.on = "null" -> LastKid(r) = NullTree
      [] test.on = "primary" -> BeginsPrimary(r.s)

-----------------------------------------------------------------------------
(* What the steps that are neither tests nor calls do                      *)

Kept(kind, p) ==
    CASE kind = "id" -> Leaf("name", p.id)
      [] kind = "num" -> Leaf("number", p.num)
      [] kind = "str" -> Leaf("string", p.str)
      [] kind = "token" -> Leaf("token", CurTok(p))

\* The loop of ParseIfExpr over else: an else if becomes a scope, which holds
\* the Else there was before; any other takes its place.
AddElse(r, nested) ==
    LET alternative == LastKid(r)
        before == SubSeq(r.kids, 3, Len(r.kids) - 1)
    IN  [r EXCEPT !.kids = SubSeq(@, 1, 2) \o
             <<IF nested THEN Tree("scope", NoName, before \o <<alternative>>) ELSE alternative>>]

\* NamedValues; the first statement of main is gc_init.
DeclareArgs(r) ==
    LET args == Last(SelectSeq(r.kids[1].kids, LAMBDA k : k.node \in {"typed args", "main args"}))
        declared == [r EXCEPT !.s.vars = @ \cup {k.name : k \in ToSet(args.kids)}]
    IN  IF GcMode /\ r.kids[1].kids[1].name = "main"
        THEN With(declared, Tree("call", "gc_init", << >>))
        ELSE declared

Operands(r, n) ==
    LET names == SelectSeq(LastKid(r).kids, LAMBDA k : k.node = "name")
    IN  IF Len(names) = n THEN r ELSE ReturnsError(r)

\* A declaration with a template is kept for later, and null is returned.
TemplateNames(r) == {r.kids[i].name : i \in {j \in DOMAIN r.kids : r.kids[j].node = "template"}}
KeepTemplate(r, rule, kids) ==
    LET templates == SelectSeq(kids, LAMBDA k : k.node = "template")
        name == NameOf(r)
    IN  IF templates = << >> THEN r
        ELSE [r EXCEPT !.ok = FALSE, !.s.flags = @ \cup {rule},
                       !.s.templateStructs = IF rule = "struct" THEN @ \cup {name} ELSE @,
                       !.s.templateEnums = IF rule = "enum" THEN @ \cup {name} ELSE @]

\* reorder_struct: of members that are no structures, the larger come first.
MemberType(var) ==
    Last(<<Tree("type", NoName, <<Leaf("name", "double")>>)>>
         \o SelectSeq(var.kids, LAMBDA k : k.node = "type")).kids
IsPointer(var) == Leaf("token", "ptr") \in ToSet(MemberType(var))
IsObject(var) == MemberType(var)[1] \in {Leaf("token", t) : t \in {"struct", "class", "union", "enum"}}
MemberSize(var) ==
    IF IsPointer(var) \/ MemberType(var)[1].name \notin DOMAIN TypeSizes THEN 8
    ELSE TypeSizes[MemberType(var)[1].name]
ReorderedMembers(r) ==
    LET IsVar(k) == k.node = "var"
        members == SelectSeq(r.kids, IsVar)
        larger(i, j) == \/ MemberSize(members[i]) > MemberSize(members[j])
                        \/ MemberSize(members[i]) = MemberSize(members[j]) /\ i < j
        rank(i) == Cardinality({j \in DOMAIN members : larger(j, i)}) + 1
        sorted == [n \in DOMAIN members |-> members[CHOOSE i \in DOMAIN members : rank(i) = n]]
    IN  IF Leaf("string", "\"auto_reorder\"") \in ToSet(r.kids)
           /\ \A v \in ToSet(members) : IsObject(v) => IsPointer(v)
        THEN [r EXCEPT !.kids = SelectSeq(@, LAMBDA k : ~IsVar(k)) \o sorted]
        ELSE r

EndOfStruct(r) ==
    LET ended == [r EXCEPT !.s.structTemplate = NoName]
    IN  IF TemplateNames(r) = {} THEN ReorderedMembers(ended) ELSE ended

\* IndexTemp->codegen() gives a constant.
RECURSIVE IsConstant(_)
IsConstant(E) ==
    \/ E.node \in {"number", "bool", "char"}
    \/ E.node \in {"binary", "unary"} /\ \A i \in DOMAIN E.kids : IsConstant(E.kids[i])

\* What ParseMacroCall does with the arguments, by the name of the macro.
OneArgument == {"expect", "panic", "stringify", "dbg", "assume", "env"}
Prints == {"print", "println", "eprint", "eprintln"}
AnyArguments == {"file", "concat", "line", "line_nb", "column_nb", "time", "arch", "unreachable"}
IsStringExpr(E) == E.node \in {"string", "file", "stringify", "concat", "line", "time", "env", "arch"}
CallMacro(r) ==
    LET macro == NameOf(r)
        args == Tail(r.kids)
        made == [r EXCEPT !.kids = args, !.node = macro]
    IN  CASE macro \in OneArgument ->
                 IF Len(args) = 1 /\ (macro = "env" => IsStringExpr(args[1]) /\ args[1] \in EnvVariables)
                 THEN made ELSE ReturnsError(r)
          [] macro = "todo" ->      \* at(0) of the vector that is still to be filled
                 IF Len(args) > 2 THEN ReturnsError(r)
                 ELSE IF args = << >> THEN made ELSE Crashes(r)
          [] macro \in Prints ->    \* at(0), of an empty vector too
                 IF args = << >> THEN Crashes(r)
                 ELSE IF IsStringExpr(args[1]) THEN made ELSE ReturnsError(r)
          [] macro \in AnyArguments -> made
          [] OTHER -> ReturnsError(r)

\* The statements after one that is taken to leave the block are dropped.
ReturnsBefore(E, p) == contains_expr(E, "return") /\ CurTok(p) # "}"
LeavesBlock(E, p) ==
    \/ E.node = "loop"                                      \* is_infinite_loop
    \/ ReturnsBefore(E, p)
    \/ contains_expr(E, "unreachable")

\* The second question is asked when the first was answered with no.
MeetsNullBody(E, p) ==
    /\ E.node # "loop"
    /\ \/ AsksNullBody(E, "return")
       \/ ~ReturnsBefore(E, p) /\ AsksNullBody(E, "unreachable")
Statement(r) ==
    IF r.ended THEN [r EXCEPT !.kids = Before(r, 1)]
    ELSE IF MeetsNullBody(LastKid(r), r.s) THEN Crashes(r)
    ELSE [r EXCEPT !.ended = LeavesBlock(LastKid(r), r.s)]

\* getASTNewCallExprAST: what can be called.  A call that fails leaves null.
CallOp(r) ==
    LET callee == r.kids[Len(r.kids) - 1]
        args == LastKid(r)
        called(node, name) == Merged(r, 2, Tree(node, name, <<callee>> \o args.kids))
    IN  CASE args = NullTree -> Merged(r, 2, NullTree)
          [] args # NullTree /\ callee.node = "identifier" -> called("call", callee.kids[1].name)
          [] args # NullTree /\ callee.node = "binary" /\ callee.name = "." ->
                 called("member call", NoName)
          [] OTHER -> Merged([r EXCEPT !.s = LogError(@)], 2, NullTree)

Effect(step, r) ==
    CASE step.do = "eat" -> [r EXCEPT !.s = getNextToken(@)]
      [] step.do = "keep" -> With([r EXCEPT !.s = getNextToken(@)], Kept(step.kind, r.s))
      [] step.do = "default type" -> With(r, Leaf("name", "double"))
      [] step.do = "as" -> [r EXCEPT !.node = step.node]
      [] step.do = "report" -> [r EXCEPT !.s = LogError(@)]
      [] step.do = "error" -> ReturnsError(r)
      [] step.do = "else if" -> AddElse(r, TRUE)
      [] step.do = "else" -> AddElse(r, FALSE)
      [] step.do = "declare first" -> [r EXCEPT !.s.vars = @ \cup {NameOf(r)}]
      [] step.do = "declare self" -> [r EXCEPT !.s.vars = @ \cup {"self"}]
      [] step.do = "declare args" -> DeclareArgs(r)
      [] step.do = "return null" -> Fails(r)
      [] step.do = "not empty" -> IF LastKid(r) = NoType THEN Crashes(r) ELSE r
      [] step.do = "return type not empty" ->     \* that of main is i32, whatever is written
             IF Last(r.kids[1].kids) = NoType /\ r.kids[1].kids[1].name # "main" THEN Crashes(r) ELSE r
      [] step.do = "no type" -> With(r, NoType)
      [] step.do \in {"templateStructs", "templateEnums"} ->
             IF r.kids[2].name \in r.s[step.do] /\ LastKid(r) # NoType THEN r ELSE Crashes(r)
      [] step.do = "template" ->
             [r EXCEPT !.s.template = LastKid(r).name,
                       !.kids[Len(r.kids)] = Leaf("template", LastKid(r).name)]
      [] step.do = "struct template" ->
             [r EXCEPT !.s.structTemplate =
                  IF TemplateNames(r) = {} THEN NoName ELSE r.s.template]
      [] step.do = "structs" -> [r EXCEPT !.s.structs = @ \cup {NameOf(r)}]
      [] step.do = "enums" -> [r EXCEPT !.s.enums = @ \cup {NameOf(r)}]
      [] step.do = "types" -> [r EXCEPT !.s.types = @ \cup {NameOf(r)}]
      [] step.do = "main args" -> With(r, Tree("main args", NoName,
                                               <<Leaf("name", "argc"), Leaf("name", "argv")>>))
      [] step.do = "one operand" -> Operands(r, 1)
      [] step.do = "two operands" -> Operands(r, 2)
      [] step.do = "constant" -> IF LastKid(r) = NullTree THEN Crashes(r)
                                 ELSE IF IsConstant(LastKid(r)) THEN r ELSE ReturnsError(r)
      [] step.do = "macro" -> CallMacro(r)
      [] step.do = "end of struct" -> EndOfStruct(r)
      [] step.do = "statement" -> Statement(r)
      [] step.do = "call" -> CallOp(r)
      [] step.do = "unary" -> Merged(r, 2, Tree("unary", NameOf(r), <<LastKid(r)>>))
      [] step.do = "binary" ->
             Merged(r, 3, Tree("binary", r.kids[Len(r.kids) - 1].name,
                               <<r.kids[Len(r.kids) - 2], LastKid(r)>>))
      [] step.do = "template of struct" -> KeepTemplate(r, "struct", r.kids)
      [] step.do = "template of enum" -> KeepTemplate(r, "enum", r.kids)
      [] step.do = "template of definition" -> KeepTemplate(r, "definition", r.kids[1].kids)

-----------------------------------------------------------------------------
(* The functions themselves                                                *)

\* The loop of ParseBinOpRHS: an operator that binds at least as tightly as prec,
\* its operand, and what binds more tightly than it after that.
OperatorSteps(prec, r) ==
    LET BinOp == CurTok(r.s)
        call(rule) == <<Eat, Maybe(rule), Do("call")>>
        operand == CASE BinOp = "[" -> <<Token, Parse("expression"), If(Is({"]"}), <<Eat>>)>>
                     [] BinOp \in MultiChar -> <<Token, Eat, Parse("unary")>>
                     [] OTHER -> <<Token, Parse("unary")>>
    IN  IF LastKid(r).node = "semicolon" \/ TokPrecedence(BinOp) < prec THEN << >>
        ELSE CASE BinOp = "(" -> call("call") \o <<Operators(prec)>>
               [] BinOp = "~" -> call("template call") \o <<Operators(prec)>>
               [] OTHER -> operand \o <<Do("tighter"), Do("binary"), Operators(prec)>>

TighterSteps(r) ==
    LET BinOp == r.kids[Len(r.kids) - 1].name
        TokPrec == TokPrecedence(BinOp)
        NextPrec == IF BinOp \in {".", "["} /\ CurTok(r.s) = "=" THEN 100
                    ELSE TokPrecedence(CurTok(r.s))
    IN  IF TokPrec < NextPrec THEN <<Operators(TokPrec + 1), If(Test("null"), <<Do("return null")>>)>>
        ELSE << >>

\* The steps that a step of control stands for.
Control == {"cases", "while", "go", "body", "primary", "operators", "tighter"}
Unfolded(step, r) ==
    CASE step.do = "cases" ->
             LET holding == {i \in DOMAIN step.cases : Holds(step.cases[i][1], r)}
             IN  IF holding = {} THEN << >> ELSE step.cases[Min(holding)][2]
      [] step.do = "while" -> IF Holds(step.test, r) THEN Append(step.body, step) ELSE << >>
      [] step.do = "go" -> Grammar[step.rule]
      [] step.do = "body" ->
             IF CurTok(r.s) = "}" THEN << >> ELSE <<Parse("expression"), Do("statement"), step>>
      [] step.do = "primary" ->
             IF PrimaryOf(CurTok(r.s)) = "unknown" THEN <<Error>> ELSE <<Parse(PrimaryOf(CurTok(r.s)))>>
      [] step.do = "operators" -> OperatorSteps(step.prec, r)
      [] step.do = "tighter" -> TighterSteps(r)

\* What a function returns: null, or the empty type, when it fails.
TypeRules == {"type", "return type", "vector type"}
Result(rule, r) ==
    CASE ~GoesOn(r) -> Returned(IF rule \in TypeRules THEN NoType ELSE NullTree, r.s)
      [] GoesOn(r) /\ rule \in {"expression", "unary", "paren"} -> Returned(r.kids[1], r.s)
      [] OTHER -> Returned(Tree(IF rule \in TypeRules THEN "type" ELSE r.node, NoName, r.kids), r.s)

Called(step, part, r) ==
    LET parsed == With([r EXCEPT !.s = part.s], part.tree)
    IN  IF part.ok \/ step.do = "maybe" THEN parsed ELSE Fails(parsed)

RECURSIVE Run(_, _)
Run(steps, r) ==
    IF steps = << >> \/ ~GoesOn(r) THEN r
    ELSE LET step == Head(steps)
             rest == Tail(steps)
         IN  IF step.do \in {"parse", "maybe"}
             THEN Run(rest, Called(step, Result(step.rule, Run(Grammar[step.rule], Begin(step.rule, r.s))), r))
             ELSE IF step.do \in Control THEN Run(Unfolded(step, r) \o rest, r)
             ELSE Run(rest, Effect(step, r))

Apply(rule, p) == Result(rule, Run(Grammar[rule], Begin(rule, p)))

-----------------------------------------------------------------------------
(* ParseFile                                                               *)

Declarations == {"definition", "extern", "struct", "union", "enum", "global", "typedef", "mod",
                 "members", "test"}

Init ==
    /\ file \in Files
    /\ s = getNextToken(Start)
    /\ fileAST = [kind \in Declarations |-> << >>]

Reading(tokens) == s.how = "parsing" /\ ~last_line(s) /\ CurTok(s) \in tokens

\* Mistake: a null declaration is kept too.
Declare_keepsNull(kind) ==
    LET declared == Apply(kind, s)
    IN  /\ fileAST' = [fileAST EXCEPT ![kind] = Append(@, declared.tree)]
        /\ s' = IF declared.ok \/ kind \in declared.s.flags \/ declared.s.how # "parsing"
                THEN declared.s ELSE getNextToken(declared.s)
        /\ UNCHANGED file

\* What is not null is kept.  Otherwise a token is skipped, unless a template
\* of this kind was read, now or before.
Declare(kind) ==
    LET declared == Apply(kind, s)
    IN  /\ fileAST' = IF declared.ok THEN [fileAST EXCEPT ![kind] = Append(@, declared.tree)]
                      ELSE fileAST
        /\ s' = IF declared.ok \/ kind \in declared.s.flags \/ declared.s.how # "parsing"
                THEN declared.s ELSE getNextToken(declared.s)
        /\ UNCHANGED file

HandleDefinition == Reading({"func"}) /\ Declare("definition")
HandleExtern == Reading({"extern"}) /\ Declare("extern")
HandleStruct == Reading({"struct", "class"}) /\ Declare("struct")
HandleUnion == Reading({"union"}) /\ Declare("union")
HandleEnum == Reading({"enum"}) /\ Declare("enum")
HandleGlobal == Reading({"var"}) /\ Declare("global")
HandleTypeDef == Reading({"type"}) /\ Declare("typedef")
HandleMembers == Reading({"members"}) /\ Declare("members")
HandleTest == Reading({"test"}) /\ Declare("test")

\* A null module is kept too, and no token is skipped after it.
HandleMod ==
    /\ Reading({"mod"})
    /\ LET declared == Apply("mod", s)
       IN  /\ fileAST' = [fileAST EXCEPT !["mod"] = Append(@, declared.tree)]
           /\ s' = declared.s
    /\ UNCHANGED file

TopLevelSemicolon ==
    /\ Reading({";"})
    /\ s' = getNextToken(s)
    /\ UNCHANGED <<file, fileAST>>

\* The case of '#' only breaks out of the switch: the loop stays where it is.
TopLevelMacro ==
    /\ Reading({"#"})
    /\ s' = [s EXCEPT !.how = "hung"]
    /\ UNCHANGED <<file, fileAST>>

Handled == {"func", "extern", "struct", "class", "union", "enum", "var", "type", "mod", "members",
            "test", ";", "#"}
TopLevelExpression ==
    /\ s.how = "parsing" /\ ~last_line(s) /\ CurTok(s) \notin Handled
    /\ s' = getNextToken(LogError(s))
    /\ UNCHANGED <<file, fileAST>>

EndOfFile ==
    /\ s.how = "parsing" /\ last_line(s)
    /\ s' = [s EXCEPT !.how = "parsed"]
    /\ UNCHANGED <<file, fileAST>>

Parsed == s.how # "parsing"

ParseFile ==
    \/ HandleDefinition \/ HandleExtern \/ HandleStruct \/ HandleUnion \/ HandleEnum
    \/ HandleGlobal \/ HandleTypeDef \/ HandleMod \/ HandleMembers \/ HandleTest
    \/ TopLevelSemicolon \/ TopLevelMacro \/ TopLevelExpression \/ EndOfFile

Next == ParseFile \/ (Parsed /\ UNCHANGED vars)

Spec == Init /\ [][Next]_vars

\* WF_vars(ParseFile), with what enables it written out: the loop of ParseFile
\* takes another turn unless it has ended.
Fairness == []<>Parsed \/ []<><<ParseFile>>_vars
FairSpec == Spec /\ Fairness
============================================================================
