------------------------------ MODULE CpointAST ------------------------------
(***************************************************************************)
(* The abstract syntax tree of a C. function body (src/src/ast.h), as the  *)
(* parser builds it (src/src/ast.cpp).  A tree is built bottom-up by the   *)
(* constructors below, each named after the C++ class it stands for.       *)
(*                                                                         *)
(* Two virtual methods decide what the CIR generation does: contains_expr, *)
(* the "does this always leave" approximation, and get_type.  Both look at *)
(* a node and the results for its children only, so every node carries     *)
(* their values: `contains' is the set of ExprType for which contains_expr *)
(* answers true, `ty' the class of get_type's answer.                      *)
(*                                                                         *)
(* A name, a number and an operator are tokens; all number types are one,  *)
(* "val".  An expression of type "none" has no type: asking for it is      *)
(* undefined behaviour (back() of an empty vector).                        *)
(***************************************************************************)
EXTENDS Integers, Sequences, SequencesExt

ExprType == {"Break", "Return", "Unreachable", "NeverFunctionCall"}

Node(kind, x, kids, contains, ty) ==
    [kind |-> kind, x |-> x, kids |-> kids, contains |-> contains, ty |-> ty]

ContainsAny(nodes) == {t \in ExprType : \E k \in DOMAIN nodes : t \in nodes[k].contains}

\* get_type of a statement list: the type of its last expression.
TypeOfLast(nodes) == IF nodes = << >> THEN "none" ELSE Last(nodes).ty

-----------------------------------------------------------------------------
(* Expressions without control flow.  Most classes inherit ExprAST's       *)
(* contains_expr, which answers false whatever their operands contain.     *)

NumberExpr == Node("number", "", << >>, {}, "val")
CharExpr == Node("char", "", << >>, {}, "val")
BoolExpr == Node("bool", "", << >>, {}, "bool")
StringExpr == Node("string", "", << >>, {}, "ptr")
NullExpr == Node("null", "", << >>, {}, "ptr")
SizeofTypeExpr == Node("sizeof_type", "", << >>, {}, "val")
SizeofExpr(expr) == Node("sizeof", "", <<expr>>, {}, "val")
TypeidExpr == Node("typeid", "", << >>, {}, "val")

\* Variables: of a number type, or of another one.
TypedVariableExpr(x, ty) == Node("variable", x, << >>, {}, ty)
VariableExpr(x) == TypedVariableExpr(x, "val")
VarExpr(x, init) == Node("var", x, <<init>>, {}, "val")
TypedVarExpr(x, ty, inits) == Node("var", x, inits, {}, ty)

BinaryExpr(op, lhs, rhs) ==
    Node("binary", op, <<lhs, rhs>>, {}, IF op = "<" THEN "bool" ELSE lhs.ty)
AssignExpr(x, rvalue) == Node("assign", x, <<rvalue>>, {}, "val")
AssignTypedExpr(var, rvalue) == Node("assign", var.x, <<rvalue>>, {}, var.ty)

-----------------------------------------------------------------------------
(* Expressions on memory.  The last child of these is a place: an          *)
(* expression whose name is used, and that is not generated (the member    *)
(* after a `.' is an identifier, and is left out).                         *)

AddrExpr(place) == Node("addr", "", <<place>>, {}, "ptr")
DerefExpr(place) == Node("deref", "", <<place>>, {}, "val")
IndexExpr(place, index) == Node("index", "", <<index, place>>, {}, "val")
MemberExpr(place) == Node("member", "", <<place>>, {}, "val")
MemberCallExpr(place, ty) == Node("method", "", <<place>>, {}, ty)

\* BinaryExprAST with the operator = and one of these on the left.
AssignIndexExpr(place, index, rvalue) ==
    Node("assign_index", "", <<rvalue, index, place>>, {}, "val")
AssignMemberExpr(place, rvalue) == Node("assign_member", "", <<rvalue, place>>, {}, "val")
AssignOtherExpr(place, rvalue) == Node("assign_other", "", <<rvalue, place>>, {}, place.ty)

CastExpr(val, ty) == Node("cast", "", <<val>>, {}, ty)
VectorExpr(members) == Node("vector", "", members, {}, "array")
AsmExpr(args) == Node("asm", "", args, {}, "void")

\* A prefix operator is desugared when it is generated, one of the source into
\* a call; an `&' has no type, as the type made for it is not returned.  (It is
\* not used as a place below.)
UnaryExpr(op, operand) ==
    CASE op = "-" -> BinaryExpr("-", NumberExpr, operand)
      [] op = "&" -> [AddrExpr(operand) EXCEPT !.ty = "none"]
      [] op = "*" -> DerefExpr(operand)

-----------------------------------------------------------------------------
(* Calls, jumps and statements.                                            *)

\* A call of a function whose prototype returns ty.
CallExpr(callee, ty, args) ==
    Node("call", callee, args,
         IF ty = "never" THEN {"NeverFunctionCall"} ELSE {}, ty)
UnreachableExpr ==
    Node("call", "cpoint_internal_unreachable", << >>, {"Unreachable"}, "never")

SemicolonExpr == Node("semicolon", "", << >>, {}, "void")
MatchExpr == Node("match", "", << >>, {}, "void")
GotoExpr(label) == Node("goto", label, << >>, {}, "void")
LabelExpr(label) == Node("label", label, << >>, {}, "void")
BreakExpr == Node("break", "", << >>, {"Break"}, "never")
DeferExpr(expr) == Node("defer", "", <<expr>>, {}, "void")

Return(expr) ==
    Node("return", "", <<expr>>,
         {t \in ExprType : t \in {"Return"} \union
                                (expr.contains \intersect {"NeverFunctionCall"})}, "never")

-----------------------------------------------------------------------------
(* Control structures.                                                     *)

\* Nothing after an infinite loop, a statement that contains a return or an
\* unreachable is kept: the parser reads it and drops it.
IsTerminator(n) == n.kind = "loop" \/ n.contains \intersect {"Return", "Unreachable"} # {}

ParseBodyExpressions(stmts) ==
    LET first == SelectInSeq(stmts, IsTerminator)
    IN  IF first = 0 THEN stmts ELSE SubSeq(stmts, 1, first)

ScopeExpr(stmts) ==
    LET body == ParseBodyExpressions(stmts)
    IN  Node("scope", "", body, ContainsAny(body), TypeOfLast(body))

IfExpr(cond, then) == Node("if", "", <<cond, then>>, {}, "void")
IfElseExpr(cond, then, else) ==
    Node("if", "", <<cond, then, else>>,
         {t \in ExprType : t \in then.contains /\ t \in else.contains}, then.ty)

ForExpr(x, start, end, step, body) ==
    Node("for", x, <<start, end, body, step>>, body.contains, "void")
WhileExpr(cond, body) == Node("while", "", <<cond, body>>, body.contains, "void")

\* Only the infinite form `loop { ... }': it never counts as a return.
LoopExpr(stmts) ==
    LET body == ParseBodyExpressions(stmts)
    IN  Node("loop", "", body, {t \in ContainsAny(body) : t # "Return"}, "void")

\* A function of the file: prototype (name, arguments, return type) and body.
FunctionAST(name, args, ret, stmts) ==
    LET body == ParseBodyExpressions(stmts)
    IN  [name |-> name, args |-> args,
         node |-> Node("function", name, body, ContainsAny(body), ret)]
=============================================================================
