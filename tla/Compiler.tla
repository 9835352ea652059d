------------------------------ MODULE Compiler ------------------------------
(***************************************************************************)
(* The compiler from AST to LLVM code: the generation of the CIR           *)
(* (CIRBuilder), and the LLVM backend (LLVMBackend), which main gives the  *)
(* file to when it has been checked (src/src/main.cpp, backends.cpp).      *)
(*                                                                         *)
(* The two modules describe an instruction with different detail.  What    *)
(* CIRBuilder leaves out (the name of a callee, of a variable) is filled   *)
(* in with names made of the type.                                         *)
(***************************************************************************)
EXTENDS CIRProperties

VARIABLES file, phase, n, module, GlobalValues, functionValues, functionVarsAllocas,
          bb_codegen_number, args_stored, i, errors_found

Backend == INSTANCE LLVMBackendProperties WITH Files <- {}

backendVars == <<file, phase, n, module, GlobalValues, functionValues, functionVarsAllocas,
                 bb_codegen_number, args_stored, i, errors_found>>

-----------------------------------------------------------------------------
(* The file that is handed over.                                           *)

LLVMType(ty) == IF ty = "val" THEN "i32" ELSE ty

Opcode(ins) == IF ins.op = "Binary" THEN IF ins.ty = "bool" THEN "Lower" ELSE "Add" ELSE ins.op

\* VarInit without a value has an empty reference.
Positions(ins) ==
    LET given == SelectSeq(ins.uses, LAMBDA u : ~IsEmpty(u))
    IN  [k \in DOMAIN given |-> given[k].pos]

\* The operand that is converted or compared gives the type that is left.
OperandType(F, ins) ==
    IF Positions(ins) = << >> THEN LLVMType(ins.ty)
    ELSE LLVMType(cir.instr[InstructionAt(cir, F, Positions(ins)[1])].ty)

Place(F, b) == IF b \in ToSet(cir.fun[F]) THEN CHOOSE k \in DOMAIN cir.fun[F] : cir.fun[F][k] = b ELSE 0

\* The name of the callee.  A call with arguments is of the function of another
\* file that fits them best: one that takes as many of them, then one that takes
\* them at the types they have, then one that is not variadic.
Takes(g, given) ==
    \/ Len(Externs[g].args) = Len(given)
    \/ Externs[g].variadic /\ Len(Externs[g].args) < Len(given)
Rank(g, given) ==
    2 * Cardinality({k \in DOMAIN Externs[g].args : Externs[g].args[k] = given[k]})
    + (IF Externs[g].variadic THEN 0 ELSE 1)

Callee(F, ins) ==
    LET at == Positions(ins)
        given == [k \in DOMAIN at |-> cir.instr[InstructionAt(cir, F, at[k])].ty]
        fit == {g \in DOMAIN Externs : Takes(g, given)}
    IN  IF fit = {}
        THEN CASE ins.ty = "void" -> "callee_void" [] ins.ty = "never" -> "callee_never" [] OTHER -> "callee"
        ELSE CHOOSE g \in fit : \A h \in fit : Rank(g, given) >= Rank(h, given)

HandedInstruction(F, k) ==
    LET ins == cir.instr[Code(cir, F)[k]]
    IN  [op |-> Opcode(ins), ty |-> LLVMType(ins.ty), from |-> OperandType(F, ins),
         uses |-> Positions(ins),
         x |-> CASE ins.op = "InitArg" -> prog[F].args[k]
                 [] ins.op \in {"LoadGlobal", "StoreGlobal"} -> CHOOSE g \in Globals : TRUE
                 [] ins.op = "Call" -> Callee(F, ins)
                 [] OTHER -> "",
         pos |-> 0, bbs |-> [j \in DOMAIN ins.bbs |-> Place(F, ins.bbs[j])]]

HandedFunction(F) ==
    LET sizes == [k \in DOMAIN cir.fun[F] |-> Len(cir.blk[cir.fun[F][k]].ins)]
        Before(k) == FoldLeft(LAMBDA a, b : a + b, 0, SubSeq(sizes, 1, k - 1))
    IN  [x |-> prog[F].name,
         blocks |-> [k \in DOMAIN sizes |-> [j \in 1..sizes[k] |-> HandedInstruction(F, Before(k) + j)]]]

\* The calls of the file: the callee and the type of the value.
Calls ==
    UNION {{<<Callee(F, ins), ins.ty>> :
              ins \in {c \in {cir.instr[id] : id \in ToSet(Code(cir, F))} : c.op = "Call"}} :
           F \in DOMAIN cir.fun}

FunctionProto(F) ==
    [args |-> [k \in DOMAIN prog[F].args |-> <<prog[F].args[k], "i32">>],
     ret |-> LLVMType(prog[F].node.ty), variadic |-> FALSE]

\* The functions of other files, at the types they are called with; a function
\* that no file is known for has no parameters.
OtherProto(x) ==
    LET p == IF x \in DOMAIN Externs THEN Externs[x] ELSE [args |-> << >>, variadic |-> FALSE]
    IN  [args |-> [k \in DOMAIN p.args |-> <<"", LLVMType(p.args[k])>>],
         ret |-> LLVMType((CHOOSE c \in Calls : c[1] = x)[2]), variadic |-> p.variadic]

FunctionNames == {prog[F].name : F \in DOMAIN prog}
Protos ==
    [x \in FunctionNames \union {c[1] : c \in Calls} |->
        IF x \in FunctionNames THEN FunctionProto(CHOOSE F \in DOMAIN prog : prog[F].name = x)
        ELSE OtherProto(x)]

HandedFile ==
    [strings |-> <<"string">>, init |-> << >>, protos |-> Protos,
     globals |-> {[x |-> g, ty |-> "i32", extern |-> FALSE, init |-> -1] : g \in Globals},
     structs |-> {[x |-> "object", members |-> <<<<"member", "i32">>>>]},
     functions |-> [F \in DOMAIN cir.fun |-> HandedFunction(F)]]

-----------------------------------------------------------------------------
NoFile == [strings |-> << >>, init |-> << >>, globals |-> {}, structs |-> {}, protos |-> << >>,
           functions |-> << >>]

CompilerInit ==
    /\ Init
    /\ file = NoFile /\ phase = "waiting" /\ n = 0
    /\ module = [strings |-> << >>, globals |-> {}, structs |-> {}, functions |-> << >>]
    /\ GlobalValues = << >> /\ functionValues = << >> /\ functionVarsAllocas = {}
    /\ bb_codegen_number = 0 /\ args_stored = 0 /\ i = 0 /\ errors_found = FALSE

GenerateCIR == (Simple \/ Memory \/ Control \/ File) /\ UNCHANGED backendVars

codegenBackend ==
    /\ phase = "waiting" /\ status = "checked"
    /\ file' = HandedFile /\ phase' = "strings"
    /\ UNCHANGED vars
    /\ UNCHANGED <<n, module, GlobalValues, functionValues, functionVarsAllocas,
                   bb_codegen_number, args_stored, i, errors_found>>

GenerateLLVM == Backend!codegenFile /\ UNCHANGED vars

\* The compiler has gone on to file_ast->codegen(), or was stopped.
CompilerDone ==
    /\ phase \in {"done", "stopped"} \/ status = "aborted"
    /\ UNCHANGED vars /\ UNCHANGED backendVars

CompilerNext == GenerateCIR \/ codegenBackend \/ GenerateLLVM \/ CompilerDone

compilerVars == <<vars, backendVars>>
CompilerSpec == CompilerInit /\ [][CompilerNext]_compilerVars

\* The compiler is one process, which runs until it has ended: weak fairness of
\* its steps, written out, as one of them can be taken in every other state.
Ended == phase \in {"done", "stopped"} \/ status = "aborted"
Fairness == []<>Ended \/ []<><<GenerateCIR \/ codegenBackend \/ GenerateLLVM>>_compilerVars
CompilerFairSpec == CompilerSpec /\ Fairness

-----------------------------------------------------------------------------
(* From the statements to the LLVM code.                                   *)

\* The LLVM code of a file that passed the assertion of checkFileCIR computes
\* with the values that the generator of the CIR meant: each operand of an LLVM
\* instruction is what LLVM generated for the CIR instruction the reference was
\* made for, although the reference is a position, handed out before the blocks
\* were laid out and cut by fixFileCIR.
Origin(f, v) == IF v.k = "inst" THEN f.made[v.p].at ELSE -1

MeantAt(F, ins) == SelectSeq(ins.uses, LAMBDA u : ~IsEmpty(u))

OperandsReachLLVM ==
    \A F \in DOMAIN module.functions :
        LET f == module.functions[F]
            code == Code(cir, F)
        IN  \A id \in DOMAIN f.made : \A v \in ToSet(f.made[id].args) :
                Origin(f, v) # -1 =>
                    \/ Origin(f, v) = f.made[id].at
                    \/ \E u \in ToSet(cir.instr[code[f.made[id].at + 1]].uses) :
                          u.def = code[Origin(f, v) + 1]

\* A call is given the sum of a pointer and a number: it is an i64, and it is
\* taken for a pointer, for which the argument is not converted.
PassesPointerSum ==
    \E k \in DOMAIN cir.instr :
        /\ cir.instr[k].op = "Call"
        /\ \E u \in ToSet(cir.instr[k].uses) :
              u.def # 0 /\ cir.instr[u.def].op = "Binary" /\ cir.instr[u.def].ty = "ptr"

\* The backend takes every file that passed the assertion, and LLVM refuses the
\* code of none, its types included, but of those that pass the sum of a
\* pointer and a number to a function.
CheckedFilesCompile == phase # "stopped" /\ (errors_found => PassesPointerSum)

\* Every file is compiled or refused.
CompilerEnds == <>Ended
=============================================================================
