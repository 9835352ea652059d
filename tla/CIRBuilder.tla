----------------------------- MODULE CIRBuilder -----------------------------
(***************************************************************************)
(* The generation of the CIR of one file from its AST: FileAST::cir_gen    *)
(* and the cir_gen method of every kind of expression (src/src/CIR/cir.cpp) *)
(* followed by fixFileCIR and checkFileCIR.                                *)
(*                                                                         *)
(* The methods call each other along the tree.  `frames' is that call      *)
(* stack: one activation record per cir_gen in progress, with the point    *)
(* where it will resume and its local variables.  An action is the code of *)
(* one method between two recursive calls; it ends by calling (Enter), by  *)
(* going on (Stay) or by returning a reference to its caller (Leave).      *)
(*                                                                         *)
(* Three pieces of state outlive a method and even a function: the static  *)
(* Scopes (`scopes'), the static blocksForBreak (`breaks') and the index   *)
(* in FileCIR that makes block names unique.                               *)
(***************************************************************************)
EXTENDS CpointAST, CIR

CONSTANTS
    Programs,       \* the files compiled: sequences of FunctionAST records
    VarNames,       \* the variable names they use
    Globals,        \* those of the global variables
    Externs,        \* the prototypes of the functions of other files
    Nodes           \* a set that contains every AST node they are made of

\* The expressions whose last child is used in place.
Placed == {"addr", "deref", "method", "member", "index", "assign_index", "assign_member",
           "assign_other"}
Operands(n) == IF n.kind \in Placed THEN Len(n.kids) - 1 ELSE Len(n.kids)

ASSUME ProgramsAssumption ==
    /\ \A n \in Nodes :
          /\ n.ty \in Types /\ n.contains \subseteq ExprType
          /\ n.kind \in {"variable", "var", "assign", "for"} => n.x \in VarNames
          /\ n.kind = "label" => n.x \in Labels
          /\ n.kids \in Seq(Nodes)
          /\ n.kind = "var" => Len(n.kids) \in {0, 1}
          /\ n.kind \in {"assign", "return", "defer", "sizeof", "cast"} => Len(n.kids) = 1
          /\ n.kind \in Placed => n.kids # << >>
          /\ n.kind \in {"binary", "while", "index", "assign_member"} => Len(n.kids) = 2
          /\ n.kind = "assign_index" => Len(n.kids) = 3
          /\ n.kind = "if" => Len(n.kids) \in {2, 3}
          /\ n.kind = "for" => Len(n.kids) = 4
    /\ Programs \subseteq Seq([name : STRING, args : Seq(VarNames), node : Nodes])
    /\ \A f \in DOMAIN Externs : Externs[f].args \in Seq(Types)

VARIABLES
    prog,       \* the file being compiled
    fn,         \* index of the function being generated
    cir,        \* the FileCIR
    varRefs,       \* CurrentFunction->varRefs: the reference of each variable
    frames,     \* the cir_gen activations, innermost last
    ret,        \* the reference returned by the last activation that ended
    scopes,     \* static Scopes: the deferred expressions of each open scope
    breaks,     \* static blocksForBreak
    freed,      \* block objects destroyed without having been added
    errors,     \* errors_found: LogErrorV was called
    status      \* "gen", "generated", "fixed", "checked" or "aborted"

vars == <<prog, fn, cir, varRefs, frames, ret, scopes, breaks, freed, errors, status>>

-----------------------------------------------------------------------------
(* Activations.                                                            *)

\* brk and dep are blocksForBreak and the number of Scopes at the call.
Activation(n, brk, dep) ==
    [node |-> n, at |-> "start", i |-> 0, keep |-> NoRef, val |-> NoRef, refs |-> << >>,
     defers |-> << >>, head |-> 0, body |-> 0, alt |-> 0, after |-> 0, brk |-> brk, dep |-> dep]

Top == Last(frames)
At(kinds, point) ==
    /\ status = "gen" /\ frames # << >>
    /\ Top.node.kind \in kinds /\ Top.at = point

\* f is the current activation as it is left behind; evaluate n next.
Enter(f, n) == frames' = Front(frames) \o <<f, Activation(n, breaks', Len(scopes'))>>
Stay(f) == frames' = Append(Front(frames), f)
Leave(r) == frames' = Front(frames) /\ ret' = r

EmitAndLeave(c, i) == LET e == Emit(c, i) IN cir' = e.c /\ Leave(e.r)

Abort ==
    /\ status' = "aborted"
    /\ UNCHANGED <<prog, fn, cir, varRefs, frames, ret, scopes, breaks, freed, errors>>

\* What most steps leave alone.
Steady == UNCHANGED <<prog, fn, status>>
SameStacks == UNCHANGED <<scopes, breaks, freed, errors>>

\* LogErrorV, and an empty reference.
Report ==
    /\ errors' = TRUE
    /\ Leave(NoRef)
    /\ Steady /\ UNCHANGED <<cir, varRefs, scopes, breaks, freed>>

-----------------------------------------------------------------------------
(* Expressions without control flow.                                       *)

Literals == {"number", "char", "typeid", "sizeof_type", "bool", "string", "null", "semicolon"}

Literal(kind) ==
    CASE kind \in {"number", "char", "typeid"} -> Instr("ConstNumber", "val", << >>)
      [] kind = "sizeof_type" -> Instr("Sizeof", "val", << >>)
      [] kind = "bool" -> Instr("ConstBool", "bool", << >>)
      [] kind = "string" -> Instr("LoadString", "ptr", << >>)
      [] kind = "null" -> Instr("ConstNull", "ptr", << >>)
      [] OTHER -> Instr("ConstVoid", "void", << >>)

Constant ==
    /\ At(Literals, "start")
    /\ EmitAndLeave(cir, Literal(Top.node.kind))
    /\ Steady /\ SameStacks /\ UNCHANGED varRefs

\* A global variable hides a local one.
VariableExpr_gen ==
    /\ At({"variable"}, "start")
    /\ EmitAndLeave(cir, IF Top.node.x \in Globals
                         THEN Instr("LoadGlobal", Top.node.ty, << >>)
                         ELSE Instr("LoadVar", Top.node.ty, <<varRefs[Top.node.x]>>))
    /\ Steady /\ SameStacks /\ UNCHANGED varRefs

\* Evaluate the operands of an expression from left to right, keeping the
\* reference to the left one.
Operand ==
    /\ \/ At({"var", "assign", "return", "binary", "call", "cast", "sizeof", "vector", "index",
              "assign_index", "assign_member"}, "start")
       \/ At({"binary", "assign_index"}, "operand")
    /\ Top.i < Operands(Top.node)
    /\ Steady /\ SameStacks /\ UNCHANGED <<cir, varRefs, ret>>
    /\ Enter([Top EXCEPT !.at = "operand", !.i = @ + 1,
                         !.keep = IF Top.i = 0 THEN NoRef ELSE ret],
             Top.node.kids[Top.i + 1])

Evaluated(kind) ==
    /\ At({kind}, "start") \/ At({kind}, "operand")
    /\ Top.i = Operands(Top.node)

VarExpr_gen ==
    /\ Evaluated("var")
    /\ LET e == IF Top.i = 0 THEN [c |-> cir, r |-> NoRef]
                ELSE IF IsEmpty(ret) THEN [c |-> cir, r |-> ret]
                ELSE Convert(cir, ret, Top.node.kids[1].ty, Top.node.ty)
       IN  EmitAndLeave(e.c, Instr("VarInit", Top.node.ty, <<e.r>>))
    /\ varRefs' = [varRefs EXCEPT ![Top.node.x] = ret']
    /\ Steady /\ SameStacks

\* equalOperator with a variable on the left.
Assign_gen ==
    /\ Evaluated("assign")
    /\ LET e == Convert(cir, ret, Top.node.kids[1].ty, Top.node.ty)
       IN  EmitAndLeave(e.c, IF Top.node.x \in Globals
                             THEN Instr("StoreGlobal", "void", <<e.r>>)
                             ELSE Instr("StoreVar", "void", <<varRefs[Top.node.x], e.r>>))
    /\ Steady /\ SameStacks /\ UNCHANGED varRefs

\* A pointer is added as an i64; the right operand is converted to the type of
\* the left one.
AsI64(op, c, ref, ty) ==
    LET to == IF op = "+" /\ ty = "ptr" THEN "i64" ELSE ty
        e == Convert(c, ref, ty, to)
    IN  [c |-> e.c, r |-> e.r, ty |-> to]

BinaryExpr_gen ==
    /\ Evaluated("binary")
    /\ LET op == Top.node.x
           left == AsI64(op, cir, Top.keep, Top.node.kids[1].ty)
           right == AsI64(op, left.c, ret, Top.node.kids[2].ty)
           e == Convert(right.c, right.r, right.ty, left.ty)
       IN  IF op = "^" THEN cir' = e.c /\ Leave(NoRef)
           ELSE EmitAndLeave(e.c, Instr("Binary", Top.node.ty, <<left.r, e.r>>))
    /\ Steady /\ SameStacks /\ UNCHANGED varRefs

\* FileCIR::protos: of the functions generated so far, and of other files.  The
\* prototype of an unknown function has no arguments.
Proto(f) ==
    IF \E F \in 1..fn : prog[F].name = f
    THEN LET F == CHOOSE F \in 1..fn : prog[F].name = f
         IN  [args |-> [k \in DOMAIN prog[F].args |-> "val"], variadic |-> FALSE]
    ELSE IF f \in DOMAIN Externs THEN Externs[f] ELSE [args |-> << >>, variadic |-> FALSE]

\* Mistake: the reference that was made before the conversion is passed.
Argument_unconverted ==
    /\ At({"call"}, "operand")
    /\ LET p == Proto(Top.node.x)
       IN  /\ p.variadic \/ Top.i \in DOMAIN p.args
           /\ cir' = IF p.variadic THEN cir
                     ELSE Convert(cir, ret, Top.node.kids[Top.i].ty, p.args[Top.i]).c
    /\ Stay([Top EXCEPT !.at = "start", !.refs = Append(@, ret)])
    /\ Steady /\ SameStacks /\ UNCHANGED <<varRefs, ret>>

\* An argument of a call is converted to the type in the prototype.
Argument ==
    /\ At({"call"}, "operand")
    /\ LET p == Proto(Top.node.x)
           e == IF p.variadic THEN [c |-> cir, r |-> ret]
                ELSE Convert(cir, ret, Top.node.kids[Top.i].ty, p.args[Top.i])
       IN  /\ p.variadic \/ Top.i \in DOMAIN p.args
           /\ cir' = e.c
           /\ Stay([Top EXCEPT !.at = "start", !.refs = Append(@, e.r)])
    /\ Steady /\ SameStacks /\ UNCHANGED <<varRefs, ret>>

\* protos[Callee].args.at(i) throws: a call with arguments of a function that
\* comes later in the file, or with too many of them.
Argument_missing ==
    /\ At({"call"}, "operand")
    /\ ~Proto(Top.node.x).variadic /\ Top.i \notin DOMAIN Proto(Top.node.x).args
    /\ Abort

CallExpr_gen ==
    /\ At({"call"}, "start") /\ Top.i = Len(Top.node.kids)
    /\ EmitAndLeave(cir, IF "Unreachable" \in Top.node.contains
                         THEN Instr("ConstNever", "never", << >>)
                         ELSE Instr("Call", Top.node.ty, Top.refs))
    /\ Steady /\ SameStacks /\ UNCHANGED varRefs

Return_gen ==
    /\ Evaluated("return")
    /\ LET e == Convert(cir, ret, Top.node.kids[1].ty, prog[fn].node.ty)
       IN  EmitAndLeave(e.c, Instr("Return", "never", <<e.r>>))
    /\ Steady /\ SameStacks /\ UNCHANGED varRefs

\* The expression moves to the innermost scope, to be generated at its end.
DeferExpr_gen ==
    /\ At({"defer"}, "start")
    /\ scopes' = [scopes EXCEPT ![Len(scopes)] = Append(@, Top.node.kids[1])]
    /\ EmitAndLeave(cir, Instr("ConstVoid", "void", << >>))
    /\ Steady /\ UNCHANGED <<varRefs, breaks, freed, errors>>

\* A match generates nothing.
MatchExpr_gen ==
    /\ At({"match"}, "start")
    /\ Leave(NoRef)
    /\ Steady /\ SameStacks /\ UNCHANGED <<cir, varRefs>>

LabelExpr_gen ==
    /\ At({"label"}, "start")
    /\ LET c == NewBlock(cir, Top.node.x)
           b == LastBlock(c)
       IN  cir' = SetInsertPoint(CreateGoto(AddBasicBlock(c, b), b), b)
    /\ Leave(NoRef)
    /\ Steady /\ SameStacks /\ UNCHANGED varRefs

\* assert(!goto_basic_block) stops the compiler when the label is known, and
\* createGoto dereferences nullptr when it is not.
GotoExpr_gen ==
    /\ At({"goto"}, "start")
    /\ Abort

\* Writing to a destroyed block is undefined behaviour: the compiler stops or
\* goes on with a branch to it.
BreakExpr_gen ==
    /\ At({"break"}, "start") /\ breaks # << >>
    /\ EmitAndLeave(CreateGoto(cir, Last(breaks)), Instr("ConstVoid", "void", << >>))
    /\ Steady /\ SameStacks /\ UNCHANGED varRefs

BreakExpr_dangling ==
    /\ At({"break"}, "start") /\ breaks # << >> /\ Last(breaks) \in freed
    /\ Abort

BreakExpr_error ==
    /\ At({"break"}, "start") /\ breaks = << >>
    /\ Report

-----------------------------------------------------------------------------
(* Expressions on memory.  A place is a variable, or it is refused.        *)

InPlace == Last(Top.node.kids)
Binary == {"binary", "index", "member", "assign", "assign_index", "assign_member", "assign_other"}

\* The address of a local variable is the reference of the variable.
AddrExpr_gen ==
    /\ At({"addr"}, "start")
    /\ InPlace.kind \notin Binary
    /\ InPlace.kind = "variable" => InPlace.x \notin Globals
    /\ Leave(IF InPlace.kind = "variable" THEN varRefs[InPlace.x] ELSE NoRef)
    /\ Steady /\ SameStacks /\ UNCHANGED <<cir, varRefs>>

DerefExpr_gen ==
    /\ At({"deref"}, "start")
    /\ InPlace.kind = "variable"
    /\ IF ~IsEmpty(varRefs[InPlace.x]) /\ InPlace.ty = "ptr"
       THEN /\ EmitAndLeave(cir, Instr("Deref", Top.node.ty, <<varRefs[InPlace.x]>>))
            /\ Steady /\ SameStacks /\ UNCHANGED varRefs
       ELSE Report

\* getArrayElementGEP, when the index has been generated: nothing when it gave
\* no reference or is no number, or when the variable cannot be indexed.
GEP_index(index) ==
    IF \/ IsEmpty(ret)
       \/ InPlace.ty \notin {"array", "ptr"}
       \/ index.ty \notin {"val", "bool", "i64"}
    THEN [c |-> cir, r |-> NoRef]
    ELSE LET e == Convert(cir, ret, index.ty, "i64")
         IN  Emit(e.c, Instr("GepArray", "ptr", <<varRefs[InPlace.x], e.r>>))

\* getStructMemberGEP.
GEP_member == Emit(cir, Instr("GepStruct", "ptr", <<varRefs[InPlace.x]>>))

\* Whether the address is known or not, it is read, or written.
LeaveWith(gep, op, ty, rest) ==
    /\ EmitAndLeave(gep.c, Instr(op, IF op = "Deref" /\ IsEmpty(gep.r) THEN "none" ELSE ty,
                                 <<gep.r>> \o rest))
    /\ errors' = (errors \/ IsEmpty(gep.r))
    /\ Steady /\ UNCHANGED <<varRefs, scopes, breaks, freed>>

\* getArrayElement, and BinaryExprAST::cir_gen for a member.
ReadElement ==
    /\ Evaluated("index")
    /\ IsEmpty(ret) \/ InPlace.kind = "variable"
    /\ LeaveWith(GEP_index(Top.node.kids[1]), "Deref", Top.node.ty, << >>)

ReadMember ==
    /\ At({"member"}, "start") /\ InPlace.kind = "variable"
    /\ LeaveWith(GEP_member, "Deref", Top.node.ty, << >>)

\* equalOperator: the right side is generated first.
WriteElement ==
    /\ Evaluated("assign_index")
    /\ IsEmpty(ret) \/ InPlace.kind = "variable"
    /\ LeaveWith(GEP_index(Top.node.kids[2]), "StoreInPtr", "void", <<Top.keep>>)

WriteMember ==
    /\ Evaluated("assign_member") /\ InPlace.kind = "variable"
    /\ LeaveWith(GEP_member, "StoreInPtr", "void", <<ret>>)

\* No method is found: it is looked for among those of a struct that has the
\* name of the method, and Struct does not keep its functions.
StructMemberCallExpr_gen ==
    /\ At({"method"}, "start")
    /\ InPlace.ty \in {"object", "ptr"}
    /\ Report

\* NOT_IMPLEMENTED ends the compiler.
NotImplemented ==
    /\ \/ At({"addr"}, "start") /\ InPlace.kind \in Binary
       \/ At({"addr"}, "start") /\ InPlace.kind = "variable" /\ InPlace.x \in Globals
       \/ At({"deref", "member"}, "start") /\ InPlace.kind # "variable"
       \/ At({"method"}, "start") /\ InPlace.ty \notin {"object", "ptr"}
       \/ Evaluated("index") /\ ~IsEmpty(ret) /\ InPlace.kind # "variable"
       \/ Evaluated("assign_index") /\ ~IsEmpty(ret) /\ InPlace.kind # "variable"
       \/ Evaluated("assign_member") /\ InPlace.kind # "variable"
       \/ At({"assign_other"}, "start")
    /\ Abort

SizeofExpr_gen ==
    /\ Evaluated("sizeof")
    /\ EmitAndLeave(cir, Instr("Sizeof", "val", <<ret>>))
    /\ Steady /\ SameStacks /\ UNCHANGED varRefs

\* InstructionRef::get_type asks the instruction found at the position.
TypeAt(c, ref) == c.instr[InstructionAt(c, CurrentFunction(c), ref.pos)].ty

\* get_pos asserts that a reference is not empty.
Found(ref) == ~IsEmpty(ref) /\ InstructionAt(cir, CurrentFunction(cir), ref.pos) # 0

\* The type that is converted from is that of the instruction, not of the
\* expression.
CastExpr_gen ==
    /\ Evaluated("cast") /\ Found(ret)
    /\ LET e == Convert(cir, ret, TypeAt(cir, ret), Top.node.ty)
       IN  cir' = e.c /\ Leave(e.r)
    /\ Steady /\ SameStacks /\ UNCHANGED varRefs

\* A member of a vector is looked at as soon as it is generated.
VectorMember ==
    /\ At({"vector"}, "operand") /\ ~IsEmpty(ret)
    /\ IF Found(ret) /\ cir.instr[InstructionAt(cir, CurrentFunction(cir), ret.pos)].op \in Constants
       THEN /\ Stay([Top EXCEPT !.at = "start", !.refs = Append(@, ret)])
            /\ Steady /\ SameStacks /\ UNCHANGED <<cir, varRefs, ret>>
       ELSE Report

ConstantVectorExpr_gen ==
    /\ At({"vector"}, "start") /\ Top.i = Len(Top.node.kids)
    /\ EmitAndLeave(cir, Instr("ConstVector", "array", Top.refs))
    /\ Steady /\ SameStacks /\ UNCHANGED varRefs

\* The operand of a cast and the member of a vector must be there.
Operand_missing ==
    /\ \/ At({"cast"}, "operand") /\ ~Found(ret)
       \/ At({"vector"}, "operand") /\ IsEmpty(ret)
    /\ Abort

AsmExpr_gen ==
    /\ At({"asm"}, "start")
    /\ LET args == Top.node.kids
       IN  IF \A k \in DOMAIN args : args[k].kind = "variable" /\ ~IsEmpty(varRefs[args[k].x])
           THEN /\ EmitAndLeave(cir, Instr("InlineAsm", "none",
                                           [k \in DOMAIN args |-> varRefs[args[k].x]]))
                /\ Steady /\ SameStacks /\ UNCHANGED varRefs
           ELSE Report

-----------------------------------------------------------------------------
(* Scopes.  A block of statements, a loop body and a function each open an *)
(* entry of Scopes with createScope and close it with endScope, which      *)
(* generates the deferred expressions, oldest first, and pops the entry.   *)

Scoped == {"scope", "loop", "for", "while", "function"}

OpenScope == scopes' = Append(scopes, << >>)

ScopeExpr_gen ==
    /\ At({"scope"}, "start")
    /\ OpenScope
    /\ Stay([Top EXCEPT !.at = "body"])
    /\ Steady /\ UNCHANGED <<cir, varRefs, ret, breaks, freed, errors>>

\* codegenBody and its copies; in an infinite loop a statement that gives no
\* reference ends the generation of the body.
NextStatement ==
    /\ At({"scope", "loop", "function"}, "body")
    /\ Top.i < Len(Top.node.kids)
    /\ ~(Top.node.kind = "loop" /\ Top.i > 0 /\ IsEmpty(ret))
    /\ Steady /\ SameStacks /\ UNCHANGED <<cir, varRefs, ret>>
    /\ Enter([Top EXCEPT !.i = @ + 1], Top.node.kids[Top.i + 1])

\* Mistake: the entry is popped without its expressions.
EndScope_forgets ==
    /\ At({"scope", "function", "loop"}, "body") \/ At({"for", "while"}, "body")
    /\ Top.node.kind \in {"for", "while"} \/ Top.i = Len(Top.node.kids)
    /\ Stay([Top EXCEPT !.at = "endScope", !.val = ret])
    /\ Steady /\ UNCHANGED <<cir, varRefs, ret, scopes, breaks, freed, errors>>

\* endScope moves the entry out of Scopes: what is deferred from now on goes
\* to the empty entry left behind, and is lost with it.
EndScope ==
    /\ \/ /\ At({"scope", "function", "loop"}, "body")
          /\ Top.i = Len(Top.node.kids)
          /\ ~(Top.node.kind = "loop" /\ Top.i > 0 /\ IsEmpty(ret))
       \/ At({"for"}, "body") /\ ~IsEmpty(ret)
       \/ At({"while"}, "body")
    /\ scopes' = [scopes EXCEPT ![Len(scopes)] = << >>]
    /\ Stay([Top EXCEPT !.at = "endScope", !.defers = Last(scopes),
                        !.val = IF Top.node.kids = << >> THEN NoRef ELSE ret])
    /\ Steady /\ UNCHANGED <<cir, varRefs, ret, breaks, freed, errors>>

RunDefer ==
    /\ At(Scoped, "endScope") /\ Top.defers # << >>
    /\ Steady /\ SameStacks /\ UNCHANGED <<cir, varRefs, ret>>
    /\ Enter([Top EXCEPT !.defers = Tail(@)], Head(Top.defers))

\* Mistake: a for leaves its scope open.
CloseScope_notFor(kind) ==
    /\ At({kind}, "endScope") /\ Top.defers = << >>
    /\ scopes' = IF kind = "for" THEN scopes ELSE Front(scopes)

\* The end of endScope and of the method, for the methods that generate
\* nothing after it.
CloseScope(kind) ==
    /\ At({kind}, "endScope") /\ Top.defers = << >>
    /\ scopes' = Front(scopes)

ScopeExpr_end ==
    /\ CloseScope("scope")
    /\ Leave(Top.val)
    /\ Steady /\ UNCHANGED <<cir, varRefs, breaks, freed, errors>>

-----------------------------------------------------------------------------
(* if                                                                      *)

Diverts(n) == n.contains # {}

IfExpr_gen ==
    /\ At({"if"}, "start")
    /\ Steady /\ SameStacks /\ UNCHANGED <<cir, varRefs, ret>>
    /\ Enter([Top EXCEPT !.at = "cond"], Top.node.kids[1])

IfExpr_then ==
    /\ At({"if"}, "cond") /\ ~IsEmpty(ret)
    /\ Steady /\ SameStacks /\ UNCHANGED <<varRefs, ret>>
    /\ LET e == Convert(cir, ret, Top.node.kids[1].ty, "bool")
           c1 == NewBlock(e.c, "then")
           c2 == NewBlock(AddBasicBlock(c1, LastBlock(c1)), "else")
           c3 == NewBlock(c2, "ifcont")
           then == LastBlock(c1)
           else == LastBlock(c2)
       IN  /\ cir' = SetInsertPoint(CreateGotoIf(c3, e.r, then, else), then)
           /\ Enter([Top EXCEPT !.at = "then", !.body = then, !.alt = else,
                                !.after = LastBlock(c3)], Top.node.kids[2])

\* The code between Then and Else: leave Then, start the else block.
ElseBlock(c) ==
    LET d == IF Diverts(Top.node.kids[2]) THEN c ELSE CreateGoto(c, Top.after)
    IN  SetInsertPoint(AddBasicBlock(d, Top.alt), Top.alt)

\* Mistakes: no branch to ifcont; ifcont not added; the else block added again.
MergeBlock_noGoto(c, diverts) == SetInsertPoint(AddBasicBlock(c, Top.after), Top.after)
MergeBlock_notAdded(c, diverts) ==
    SetInsertPoint(IF diverts THEN c ELSE CreateGoto(c, Top.after), Top.after)
MergeBlock_elseTwice(c, diverts) ==
    LET d == IF diverts THEN c ELSE CreateGoto(c, Top.after)
    IN  SetInsertPoint(AddBasicBlock(d, Top.alt), Top.after)

\* The code after Else: leave it, start the ifcont block.
MergeBlock(c, diverts) ==
    LET d == IF diverts THEN c ELSE CreateGoto(c, Top.after)
    IN  SetInsertPoint(AddBasicBlock(d, Top.after), Top.after)

\* Asking an empty Then for its type is undefined behaviour: the compiler
\* reads an expression where there is none.
IfExpr_untyped ==
    /\ At({"if"}, "then") /\ Top.node.kids[2].ty = "none"
    /\ Abort

IfExpr_noElse ==
    /\ At({"if"}, "then") /\ Top.node.kids[2].ty # "none" /\ Len(Top.node.kids) = 2
    /\ EmitAndLeave(MergeBlock(ElseBlock(cir), FALSE), Instr("ConstVoid", "void", << >>))
    /\ Steady /\ SameStacks /\ UNCHANGED varRefs

\* Mistake: ThenBB is not updated to the block Then ended in.
IfExpr_else_staleThen ==
    /\ At({"if"}, "then") /\ Top.node.kids[2].ty # "none" /\ Len(Top.node.kids) = 3
    /\ cir' = ElseBlock(cir)
    /\ Steady /\ SameStacks /\ UNCHANGED <<varRefs, ret>>
    /\ Enter([Top EXCEPT !.at = "else", !.keep = ret], Top.node.kids[3])

IfExpr_else ==
    /\ At({"if"}, "then") /\ Top.node.kids[2].ty # "none" /\ Len(Top.node.kids) = 3
    /\ cir' = ElseBlock(cir)
    /\ Steady /\ SameStacks /\ UNCHANGED <<varRefs, ret>>
    /\ Enter([Top EXCEPT !.at = "else", !.keep = ret, !.body = cir.cur], Top.node.kids[3])

\* The phi names the block Then ended in, and the block Else began in.
IfExpr_merge ==
    /\ At({"if"}, "else") /\ ~IsEmpty(ret)
    /\ LET then == Top.node.kids[2]
           else == Top.node.kids[3]
           e == IF else.ty = "void" THEN [c |-> cir, r |-> ret]
                ELSE Convert(cir, ret, else.ty, then.ty)
           c == MergeBlock(e.c, Diverts(else))
       IN  EmitAndLeave(c, IF Diverts(then) \/ Diverts(else) \/ then.ty = "void"
                           THEN Instr("ConstVoid", "void", << >>)
                           ELSE PhiInstr(then.ty, Top.body, Top.keep, Top.alt, e.r))
    /\ Steady /\ SameStacks /\ UNCHANGED varRefs

\* Without a value of the condition or of Else the method returns at once;
\* the ifcont block, not added yet, is destroyed.
IfExpr_abandon ==
    /\ At({"if"}, "cond") \/ At({"if"}, "else")
    /\ IsEmpty(ret)
    /\ freed' = IF Top.at = "else" THEN freed \union {Top.after} ELSE freed
    /\ Leave(NoRef)
    /\ Steady /\ UNCHANGED <<cir, varRefs, scopes, breaks, errors>>

-----------------------------------------------------------------------------
(* loop                                                                    *)

LoopExpr_gen ==
    /\ At({"loop"}, "start")
    /\ LET c == NewBlock(cir, "loop_infinite")
           b == LastBlock(c)
       IN  /\ cir' = SetInsertPoint(CreateGoto(AddBasicBlock(c, b), b), b)
           /\ Stay([Top EXCEPT !.at = "body", !.head = b])
    /\ OpenScope
    /\ Steady /\ UNCHANGED <<varRefs, ret, breaks, freed, errors>>

LoopExpr_end ==
    /\ CloseScope("loop")
    /\ EmitAndLeave(CreateGoto(cir, Top.head), Instr("ConstNever", "never", << >>))
    /\ Steady /\ UNCHANGED <<varRefs, breaks, freed, errors>>

\* The scope of the body stays open.
LoopExpr_abandon ==
    /\ At({"loop"}, "body") /\ Top.i > 0 /\ IsEmpty(ret)
    /\ Leave(NoRef)
    /\ Steady /\ SameStacks /\ UNCHANGED <<cir, varRefs>>

-----------------------------------------------------------------------------
(* while                                                                   *)

\* A new block with this name, added to the function.
Added(c, base) == LET d == NewBlock(c, base) IN AddBasicBlock(d, LastBlock(d))

WhileExpr_gen ==
    /\ At({"while"}, "start")
    /\ Steady /\ SameStacks /\ UNCHANGED <<varRefs, ret>>
    /\ LET c == Added(cir, "while")
           while == LastBlock(c)
           d == Added(SetInsertPoint(CreateGoto(c, while), while), "loop_while")
       IN  /\ cir' = d
           /\ Enter([Top EXCEPT !.at = "cond", !.head = while, !.body = LastBlock(d)],
                    Top.node.kids[1])

\* The block after the loop is laid out here, before those of the body.
WhileExpr_body ==
    /\ At({"while"}, "cond") /\ ~IsEmpty(ret)
    /\ LET c == Added(cir, "afterloop_while")
           after == LastBlock(c)
       IN  /\ cir' = SetInsertPoint(CreateGotoIf(c, ret, Top.body, after), Top.body)
           /\ breaks' = Append(breaks, after)
           /\ OpenScope
           /\ Steady /\ UNCHANGED <<varRefs, ret, freed, errors>>
           /\ Enter([Top EXCEPT !.at = "body", !.after = after], Top.node.kids[2])

WhileExpr_abandon ==
    /\ At({"while"}, "cond") /\ IsEmpty(ret)
    /\ Leave(NoRef)
    /\ Steady /\ SameStacks /\ UNCHANGED <<cir, varRefs>>

\* Mistake: blocksForBreak is not popped.
WhileExpr_end_noPop ==
    /\ CloseScope("while")
    /\ EmitAndLeave(SetInsertPoint(CreateGoto(cir, Top.head), Top.after),
                    Instr("ConstNever", "never", << >>))
    /\ Steady /\ UNCHANGED <<varRefs, breaks, freed, errors>>

WhileExpr_end ==
    /\ CloseScope("while")
    /\ breaks' = Front(breaks)
    /\ EmitAndLeave(SetInsertPoint(CreateGoto(cir, Top.head), Top.after),
                    Instr("ConstNever", "never", << >>))
    /\ Steady /\ UNCHANGED <<varRefs, freed, errors>>

-----------------------------------------------------------------------------
(* for                                                                     *)

ForExpr_gen ==
    /\ At({"for"}, "start")
    /\ Steady /\ SameStacks /\ UNCHANGED <<cir, varRefs, ret>>
    /\ Enter([Top EXCEPT !.at = "init"], Top.node.kids[1])

ForExpr_cond ==
    /\ At({"for"}, "init") /\ ~IsEmpty(ret)
    /\ LET start == Convert(cir, ret, Top.node.kids[1].ty, "val")
           var == Emit(start.c, Instr("VarInit", "val", <<start.r>>))
           c == Added(var.c, "loop_for_cond")
           cond == LastBlock(c)
       IN  /\ cir' = SetInsertPoint(CreateGoto(c, cond), cond)
           /\ varRefs' = [varRefs EXCEPT ![Top.node.x] = var.r]
           /\ Steady /\ SameStacks /\ UNCHANGED ret
           /\ Enter([Top EXCEPT !.at = "cond", !.keep = var.r, !.head = cond],
                    Top.node.kids[2])

\* The block after the loop exists from here on, and is added at the end.
ForExpr_body ==
    /\ At({"for"}, "cond") /\ ~IsEmpty(ret)
    /\ LET c == Added(cir, "loop_for")
           d == NewBlock(c, "afterloop")
           after == LastBlock(d)
       IN  /\ cir' = SetInsertPoint(CreateGotoIf(d, ret, LastBlock(c), after), LastBlock(c))
           /\ breaks' = Append(breaks, after)
           /\ OpenScope
           /\ Steady /\ UNCHANGED <<varRefs, ret, freed, errors>>
           /\ Enter([Top EXCEPT !.at = "body", !.after = after], Top.node.kids[3])

ForExpr_step ==
    /\ CloseScope("for")
    /\ breaks' = Front(breaks)
    /\ Steady /\ UNCHANGED <<cir, varRefs, ret, freed, errors>>
    /\ Enter([Top EXCEPT !.at = "step"], Top.node.kids[4])

ForExpr_end ==
    /\ At({"for"}, "step") /\ ~IsEmpty(ret)
    /\ LET step == Convert(cir, ret, Top.node.kids[4].ty, "val")
           curVar == Emit(step.c, Instr("LoadVar", "val", <<Top.keep>>))
           nextVar == Emit(curVar.c, Instr("Binary", "val", <<curVar.r, step.r>>))
           store == Emit(nextVar.c, Instr("StoreVar", "void", <<Top.keep, nextVar.r>>))
           c == AddBasicBlock(CreateGoto(store.c, Top.head), Top.after)
       IN  EmitAndLeave(SetInsertPoint(c, Top.after), Instr("ConstVoid", "void", << >>))
    /\ Steady /\ SameStacks /\ UNCHANGED varRefs

\* A for whose body gives no reference leaves its scope open and its block,
\* now destroyed, on blocksForBreak.
ForExpr_abandon ==
    /\ \E point \in {"init", "cond", "body", "step"} : At({"for"}, point)
    /\ IsEmpty(ret)
    /\ freed' = IF Top.at \in {"body", "step"} THEN freed \union {Top.after} ELSE freed
    /\ Leave(NoRef)
    /\ Steady /\ UNCHANGED <<cir, varRefs, scopes, breaks, errors>>

-----------------------------------------------------------------------------
(* Functions and the file.                                                 *)

FunctionAST_gen ==
    /\ status = "gen" /\ frames = << >> /\ fn < Len(prog)
    /\ LET c == Added(AddFunction(cir), "entry")
       IN  cir' = SetInsertPoint(c, LastBlock(c))
    /\ fn' = fn + 1
    /\ varRefs' = [x \in VarNames |-> NoRef]
    /\ frames' = <<[Activation(prog[fn'].node, breaks, Len(scopes)) EXCEPT !.at = "args"]>>
    /\ UNCHANGED <<prog, status, ret, scopes, breaks, freed, errors>>

FunctionAST_arg ==
    /\ At({"function"}, "args") /\ Top.i < Len(prog[fn].args)
    /\ LET e == Emit(cir, Instr("InitArg", "ptr", << >>))
       IN  /\ cir' = e.c
           /\ varRefs' = [varRefs EXCEPT ![prog[fn].args[Top.i + 1]] = e.r]
    /\ Stay([Top EXCEPT !.i = @ + 1])
    /\ Steady /\ SameStacks /\ UNCHANGED ret

FunctionAST_body ==
    /\ At({"function"}, "args") /\ Top.i = Len(prog[fn].args)
    /\ OpenScope
    /\ Stay([Top EXCEPT !.at = "body", !.i = 0])
    /\ Steady /\ UNCHANGED <<cir, varRefs, ret, breaks, freed, errors>>

\* The reference a function returns: that of its last statement, a void, or
\* the 0 that main returns.
Returned ==
    CASE Top.node.ty = "void" -> Emit(cir, Instr("ConstVoid", "void", << >>))
      [] Top.node.ty # "void" /\ Top.node.x = "main"
                              /\ "Unreachable" \notin Top.node.contains ->
             Emit(cir, Instr("ConstNumber", "val", << >>))
      [] OTHER -> [c |-> cir, r |-> Top.val]

Epilogue(e) ==
    LET ty == TypeAt(e.c, e.r)
        v == IF ty = Top.node.ty THEN e
             ELSE Emit(e.c, Instr("Cast", Top.node.ty, <<e.r>>))
    IN  CASE ty = "never" -> AddInstruction(e.c, Instr("ConstNever", "never", << >>))
          [] ty # "never" /\ "Unreachable" \in Top.node.contains -> e.c
          [] OTHER -> AddInstruction(v.c, Instr("Return", "never", <<v.r>>))

\* Mistake: the next function is skipped.
FunctionAST_end_skips ==
    /\ CloseScope("function")
    /\ ~IsEmpty(Returned.r)
    /\ cir' = Epilogue(Returned)
    /\ frames' = Front(frames)
    /\ fn' = fn + 1
    /\ UNCHANGED <<prog, status, varRefs, ret, breaks, freed, errors>>

FunctionAST_end ==
    /\ CloseScope("function")
    /\ ~IsEmpty(Returned.r)
    /\ cir' = Epilogue(Returned)
    /\ frames' = Front(frames)
    /\ Steady /\ UNCHANGED <<varRefs, ret, breaks, freed, errors>>

\* get_pos() asserts that the reference is not empty.
FunctionAST_noValue ==
    /\ CloseScope("function")
    /\ IsEmpty(Returned.r)
    /\ status' = "aborted"
    /\ UNCHANGED <<prog, fn, cir, varRefs, frames, ret, breaks, freed, errors>>

FileAST_generated ==
    /\ status = "gen" /\ frames = << >> /\ fn = Len(prog)
    /\ status' = "generated"
    /\ UNCHANGED <<prog, fn, cir, varRefs, frames, ret, scopes, breaks, freed, errors>>

fixFileCIR ==
    /\ status = "generated"
    /\ cir' = FixFile(cir)
    /\ status' = "fixed"
    /\ UNCHANGED <<prog, fn, varRefs, frames, ret, scopes, breaks, freed, errors>>

\* assert(last_instruction->type.type == never_type) for every block.  The
\* last instruction of an empty block is undefined: either answer is possible.
checkFileCIR ==
    /\ status = "fixed"
    /\ \/ /\ \A b \in BlocksOf(cir) : cir.blk[b].ins = << >> \/ EndsInNever(cir, b)
          /\ status' = "checked"
       \/ /\ \E b \in BlocksOf(cir) : ~EndsInNever(cir, b)
          /\ status' = "aborted"
    /\ UNCHANGED <<prog, fn, cir, varRefs, frames, ret, scopes, breaks, freed, errors>>

-----------------------------------------------------------------------------
Init ==
    /\ prog \in Programs
    /\ fn = 0
    /\ cir = EmptyFile
    /\ varRefs = [x \in VarNames |-> NoRef]
    /\ frames = << >>
    /\ ret = NoRef
    /\ scopes = << >> /\ breaks = << >>
    /\ freed = {} /\ errors = FALSE
    /\ status = "gen"

Simple ==
    \/ Constant \/ VariableExpr_gen \/ Operand \/ VarExpr_gen \/ Assign_gen
    \/ BinaryExpr_gen \/ Argument \/ Argument_missing \/ CallExpr_gen
    \/ Return_gen \/ DeferExpr_gen
    \/ MatchExpr_gen \/ LabelExpr_gen \/ GotoExpr_gen
    \/ BreakExpr_gen \/ BreakExpr_dangling \/ BreakExpr_error

Memory ==
    \/ AddrExpr_gen \/ DerefExpr_gen \/ ReadElement \/ ReadMember \/ WriteElement
    \/ WriteMember \/ StructMemberCallExpr_gen \/ NotImplemented \/ SizeofExpr_gen
    \/ CastExpr_gen \/ VectorMember \/ ConstantVectorExpr_gen \/ Operand_missing
    \/ AsmExpr_gen

Control ==
    \/ ScopeExpr_gen \/ NextStatement \/ EndScope \/ RunDefer \/ ScopeExpr_end
    \/ IfExpr_gen \/ IfExpr_then \/ IfExpr_untyped \/ IfExpr_noElse
    \/ IfExpr_else \/ IfExpr_merge \/ IfExpr_abandon
    \/ LoopExpr_gen \/ LoopExpr_end \/ LoopExpr_abandon
    \/ WhileExpr_gen \/ WhileExpr_body \/ WhileExpr_abandon \/ WhileExpr_end
    \/ ForExpr_gen \/ ForExpr_cond \/ ForExpr_body \/ ForExpr_step
    \/ ForExpr_end \/ ForExpr_abandon

File ==
    \/ FunctionAST_gen \/ FunctionAST_arg \/ FunctionAST_body
    \/ FunctionAST_end \/ FunctionAST_noValue
    \/ FileAST_generated \/ fixFileCIR \/ checkFileCIR

\* The backend takes the file, or the compiler is gone.
Stopped == status \in {"checked", "aborted"}
Done == Stopped /\ UNCHANGED vars

Next == Simple \/ Memory \/ Control \/ File \/ Done

Spec == Init /\ [][Next]_vars
=============================================================================
