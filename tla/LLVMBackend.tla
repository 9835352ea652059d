---------------------------- MODULE LLVMBackend ----------------------------
(***************************************************************************)
(* The generation of LLVM code from the CIR of a file: codegenFile and     *)
(* what it calls (src/src/backends/llvm/llvm_instructions.cpp), with the   *)
(* tables of LLVM::Context (llvm.h) and the rules of abi.cpp.              *)
(*                                                                         *)
(* A file is the record that module Lowering describes.  An action is one  *)
(* turn of a loop of codegenFile, codegenFunction or codegenBasicBlock.    *)
(* The two loops over hash tables take their elements in any order.        *)
(*                                                                         *)
(* An LLVM instruction is [op, x, args, bbs, at]; `at' is the position in  *)
(* functionValues its CIR instruction is about to get (-1 in the code      *)
(* that stores the arguments): it is never read and exists for the         *)
(* refinement mapping.  A function under construction is [made, blocks]:   *)
(* its instructions in the order they are made, and for each block the     *)
(* indices in made of what it holds.                                       *)
(***************************************************************************)
EXTENDS Integers, Sequences, SequencesExt, FiniteSetsExt

CONSTANT Files          \* the CIR files compiled, records as in Lowering

\* The classes of instructions.h.
Arithmetic == {"Add", "Sub", "Mul", "Div", "Rem", "And", "Or"}
Compare == {"Eq", "NotEq", "Greater", "GreaterEq", "Lower", "LowerEq"}
Opcodes == Arithmetic \union Compare \union
    {"ConstNumber", "ConstBool", "ConstNull", "ConstVoid", "ConstNever", "LoadString", "InitArg",
     "VarInit", "LoadVar", "StoreVar", "Deref", "StoreInPtr", "LoadGlobal", "StoreGlobal", "Cast",
     "Call", "Return", "Goto", "GotoIf", "Phi", "Sizeof", "GepArray", "GepStruct", "Shift", "InlineAsm"}

CIRInstruction ==
    [op : Opcodes, ty : STRING, from : STRING, uses : Seq(Int), x : STRING, pos : Int, bbs : Seq(Int)]

\* The operands that the constructors of these classes ask for are there, and
\* add_function gives every function a block.
Complete(c) ==
    /\ c.op \in {"Cast", "StoreGlobal", "Return"} => Len(c.uses) = 1
    /\ c.op \in {"StoreVar", "StoreInPtr"} => Len(c.uses) = 2

FilesAssumption ==
    \A f \in Files :
        /\ f.strings \in Seq(STRING)
        /\ \A x \in DOMAIN f.protos : f.protos[x].args \in Seq(STRING \X STRING)
        /\ f.functions \in Seq([x : STRING, blocks : Seq(Seq(CIRInstruction))])
        /\ \A F \in DOMAIN f.functions :
              /\ f.functions[F].blocks # << >>
              /\ \A b \in DOMAIN f.functions[F].blocks :
                    \A k \in DOMAIN f.functions[F].blocks[b] : Complete(f.functions[F].blocks[b][k])
ASSUME FilesWellFormed == FilesAssumption

VARIABLES
    file,                   \* the CIR of the file
    phase,                  \* "strings", "init", "globals", "structs", "functions",
                            \* "done", or "stopped": an error, an exception or a crash
    n,                      \* how much of the loop of the phase is done
    module,                 \* TheModule: [strings, globals, structs, functions]
    GlobalValues,           \* the values of the instructions of global_context
    functionValues,         \* Context::functionValues
    functionVarsAllocas,    \* Context::functionVarsAllocas: a set of <<name, value>>
    bb_codegen_number,      \* Context::bb_codegen_number
    args_stored,            \* j in codegenFunction: arguments of the function stored
    i,                      \* the next instruction of the block
    errors_found            \* LogErrorV, LogErrorE or LogErrorGLLVM was called

vars == <<file, phase, n, module, GlobalValues, functionValues, functionVarsAllocas,
          bb_codegen_number, args_stored, i, errors_found>>

-----------------------------------------------------------------------------
(* Types.                                                                  *)

Decimal(ty) == ty \in {"float", "double"}
Signed(ty) == ty \in {"i8", "i32", "i64", "bool"}
Unsigned(ty) == ty \in {"u8", "u32", "u64"}

\* Cpoint_Type::get_number_of_bits.
get_number_of_bits(ty) ==
    CASE ty \in {"i8", "u8"} -> 8 [] ty \in {"i32", "u32"} -> 32
      [] ty \in {"i64", "u64", "float", "double"} -> 64 [] ty = "bool" -> 1 [] OTHER -> -1

Structs == {s.x : s \in file.structs}
is_just_struct(ty) == ty \in Structs
Members(ty) == (CHOOSE s \in file.structs : s.x = ty).members

\* find_struct_type_size: bytes, but 64 for a pointer.
find_struct_type_size(ty) ==
    LET size[t \in Structs] ==
            LET bytes(m) == IF is_just_struct(m[2]) THEN size[m[2]]
                            ELSE IF m[2] = "ptr" THEN 64 ELSE get_number_of_bits(m[2]) \div 8
                total[k \in 0..Len(Members(t))] == IF k = 0 THEN 0 ELSE total[k - 1] + bytes(Members(t)[k])
            IN  total[Len(Members(t))]
    IN  size[ty]

struct_get_number_type(ty, member) == Cardinality({k \in DOMAIN Members(ty) : Members(ty)[k][2] = member})
is_struct_all_type(ty, member) == struct_get_number_type(ty, member) = Len(Members(ty))

should_return_struct_with_ptr(ty) == find_struct_type_size(ty) > 8
has_sret(ty) == is_just_struct(ty) /\ should_return_struct_with_ptr(ty)

should_pass_struct_byval(ty) ==
    IF is_struct_all_type(ty, "float") THEN struct_get_number_type(ty, "float") > 2
    ELSE find_struct_type_size(ty) > 8

\* A struct of one or two floats becomes a vector.
AsVector(ty) ==
    is_just_struct(ty) /\ is_struct_all_type(ty, "float") /\ struct_get_number_type(ty, "float") <= 2

\* get_type_llvm(ty) is a type: a struct has been given to codegenStruct.
Known(ty) == is_just_struct(ty) => ty \in module.structs

-----------------------------------------------------------------------------
(* Values and instructions.                                                *)

Value(k, x, p) == [k |-> k, x |-> x, p |-> p]
null == Value("null", "", 0)
Literal(ty, x) == [k |-> "const", x |-> x, p |-> 0, ty |-> ty]
Made(f) == Value("inst", "", Len(f.made))

LI(op, x, args, bbs, at) == [op |-> op, x |-> x, args |-> args, bbs |-> bbs, at |-> at]

\* Builder->Create...: at the end of block b.
Create(f, b, li) ==
    [made |-> Append(f.made, li), blocks |-> [f.blocks EXCEPT ![b] = Append(@, Len(f.made) + 1)]]

\* Mistake: made, and put in no block.
CreateEntryBlockAlloca_detached(f, x, at) ==
    [f EXCEPT !.made = Append(@, LI("alloca", x, << >>, << >>, at))]

\* CreateEntryBlockAlloca: at the beginning of the entry block.
CreateEntryBlockAlloca(f, x, at) ==
    [made |-> Append(f.made, LI("alloca", x, << >>, << >>, at)),
     blocks |-> [f.blocks EXCEPT ![1] = <<Len(f.made) + 1>> \o @]]

\* A hash table as a set of pairs: at most one for each key.
Put(table, x, v) == {e \in table : e[1] # x} \union {<<x, v>>}
Has(table, x) == \E e \in table : e[1] = x
Get(table, x) == IF Has(table, x) THEN (CHOOSE e \in table : e[1] = x)[2] ELSE null

\* convert_to_type, for scalars: the LLVM instruction, "none" or "void".
ConvertOp(from, to) ==
    IF to = "void" THEN "void"
    ELSE IF is_just_struct(from) \/ is_just_struct(to) THEN "none"
    ELSE IF from = "ptr" THEN (IF to = "ptr" THEN "none" ELSE "ptrtoint")
    ELSE IF to = "ptr" THEN "inttoptr"
    ELSE IF Decimal(from) THEN
         CASE from = "double" /\ to = "float" -> "fptrunc"
           [] from = "float" /\ to = "double" -> "fpext"
           [] Signed(to) -> "fptosi" [] Unsigned(to) -> "fptoui" [] OTHER -> "none"
    ELSE IF Decimal(to) THEN (IF Signed(from) THEN "sitofp" ELSE "uitofp")
    ELSE IF get_number_of_bits(from) # -1 /\ get_number_of_bits(from) # get_number_of_bits(to) THEN
         IF get_number_of_bits(from) > get_number_of_bits(to) THEN "trunc"
         ELSE IF Signed(from) THEN "sext" ELSE "zext"
    ELSE "none"

\* CreateFAdd or CreateAdd, CreateSDiv or CreateUDiv, ...
ArithmeticForm(op, ty) ==
    IF op \in {"And", "Or"} THEN ""
    ELSE IF Decimal(ty) THEN "decimal"
    ELSE IF op \in {"Div", "Rem"} THEN (IF Signed(ty) THEN "signed" ELSE "unsigned")
    ELSE ""

\* CreateFCmp... or CreateICmp...: of integers the signed predicate only.
CompareForm(op, ty) ==
    IF Decimal(ty) THEN "decimal" ELSE IF op \in {"Eq", "NotEq"} THEN "" ELSE "signed"

-----------------------------------------------------------------------------
(* Global data.                                                            *)

Leave(p) == phase' = p /\ n' = 0
SameFunction == UNCHANGED <<functionValues, functionVarsAllocas, bb_codegen_number, args_stored, i>>

Stop ==
    /\ phase' = "stopped"
    /\ UNCHANGED <<file, n, module, GlobalValues, functionValues, functionVarsAllocas,
                   bb_codegen_number, args_stored, i, errors_found>>

CodegenString ==
    /\ phase = "strings"
    /\ IF n < Len(file.strings)
       THEN /\ module' = [module EXCEPT !.strings = Append(@, file.strings[n + 1])]
            /\ n' = n + 1 /\ UNCHANGED phase
       ELSE Leave("init") /\ UNCHANGED module
    /\ SameFunction /\ UNCHANGED <<file, GlobalValues, errors_found>>

\* An instruction of global_context.  Operands are looked for in
\* functionValues, where there is nothing yet.
GlobalInstruction ==
    /\ phase = "init"
    /\ IF n = Len(file.init)
       THEN Leave("globals") /\ SameFunction
            /\ UNCHANGED <<file, module, GlobalValues, errors_found>>
       ELSE LET g == file.init[n + 1]
            IN  IF g.uses # << >> \/ g.op \in {"LoadGlobal", "InlineAsm", "Shift"} THEN Stop
                ELSE /\ GlobalValues' = Append(GlobalValues,
                          IF g.op = "LoadString" THEN Value("string", module.strings[g.pos + 1], 0)
                          ELSE IF g.op \in {"ConstNumber", "ConstBool"} THEN Literal(g.ty, g.x)
                          ELSE null)
                     /\ n' = n + 1 /\ SameFunction
                     /\ UNCHANGED <<file, phase, module, errors_found>>

\* from_val_to_constant, of numbers and bools.  is_signed and is_unsigned do
\* not ask for is_ptr: a pointer to a number ("numptr") takes any of them.
\* Another pointer takes a decimal that is 0 as an integer.
Convertible(v, ty) ==
    /\ v.k = "const"
    /\ \/ Decimal(ty) \/ Signed(ty) \/ Unsigned(ty) \/ ty = "numptr"
       \/ Decimal(v.ty) /\ ty = "ptr" /\ v.x = "0"

codegenGlobalVar(g) ==
    /\ phase = "globals"
    /\ g \in file.globals /\ g.x \notin {v[1] : v \in module.globals}
    /\ LET refused == \/ g.extern /\ g.init # -1
                      \/ ~g.extern /\ g.init # -1 /\ ~Convertible(GlobalValues[g.init + 1], g.ty)
       IN  IF ~refused /\ ~Known(g.ty) THEN Stop
           ELSE /\ module' = [module EXCEPT !.globals = Put(@, g.x,
                        IF refused THEN null ELSE Value("global", g.x, 0))]
                /\ errors_found' = (errors_found \/ refused)
                /\ SameFunction /\ UNCHANGED <<file, phase, n, GlobalValues>>

GlobalVarsDone ==
    /\ phase = "globals"
    /\ \A g \in file.globals : g.x \in {v[1] : v \in module.globals}
    /\ Leave("structs")
    /\ SameFunction /\ UNCHANGED <<file, module, GlobalValues, errors_found>>

\* A member of a struct type that is not declared yet has no LLVM type.
codegenStruct(s) ==
    /\ phase = "structs"
    /\ s \in file.structs /\ s.x \notin module.structs
    /\ IF \E k \in DOMAIN s.members : ~Known(s.members[k][2]) THEN Stop
       ELSE /\ module' = [module EXCEPT !.structs = @ \union {s.x}]
            /\ SameFunction /\ UNCHANGED <<file, phase, n, GlobalValues, errors_found>>

StructsDone ==
    /\ phase = "structs" /\ module.structs = Structs
    /\ Leave("functions")
    /\ SameFunction /\ UNCHANGED <<file, module, GlobalValues, errors_found>>

-----------------------------------------------------------------------------
(* Functions.                                                              *)

Function == file.functions[n + 1]
Proto(x) == file.protos[x]

\* vector_type_from_struct asks for the first member of a struct without any.
ProtoThrows(x) == \E k \in DOMAIN Proto(x).args : AsVector(Proto(x).args[k][2]) /\ Members(Proto(x).args[k][2]) = << >>

\* getFunction: declared by codegenProto when there is a prototype.
Declarable(x) == x \in DOMAIN file.protos /\ ~ProtoThrows(x)

\* The function as LLVM begins it: its blocks, without an instruction.
BeginFunction ==
    /\ phase = "functions" /\ n < Len(file.functions) /\ Len(module.functions) = n
    /\ IF ~Declarable(Function.x) THEN Stop
       ELSE /\ module' = [module EXCEPT !.functions = Append(@,
                  [made |-> << >>, blocks |-> [b \in DOMAIN Function.blocks |-> << >>]])]
            /\ functionVarsAllocas' = {} /\ functionValues' = << >>
            /\ bb_codegen_number' = 0 /\ args_stored' = 0 /\ i' = 0
            /\ UNCHANGED <<file, phase, n, GlobalValues, errors_found>>

Generating == phase = "functions" /\ Len(module.functions) = n + 1
Current == Last(module.functions)

\* A function that returns a struct through memory has a hidden argument more.
Hidden == IF has_sret(Proto(Function.x).ret) THEN 1 ELSE 0
ArgumentsStored == args_stored = Len(Proto(Function.x).args) + Hidden

\* An argument is stored in an alloca named after it.  With a hidden argument
\* the others are looked up one place too far, and the last one is not there.
StoreArgument ==
    /\ Generating /\ ~ArgumentsStored
    /\ LET args == Proto(Function.x).args
           name == IF Hidden = 1 /\ args_stored = 0 THEN "sret_arg" ELSE args[args_stored + 1][1]
           f == CreateEntryBlockAlloca(Current, name, -1)
       IN  IF Hidden = 1 /\ args_stored # 0 /\ args_stored = Len(args) THEN Stop
           ELSE /\ module' = [module EXCEPT !.functions[n + 1] =
                      Create(f, 1, LI("store", "", <<Value("param", "", args_stored + 1), Made(f)>>, << >>, -1))]
                /\ functionVarsAllocas' = Put(functionVarsAllocas, name, Made(f))
                /\ args_stored' = args_stored + 1
                /\ UNCHANGED <<file, phase, n, GlobalValues, functionValues, bb_codegen_number, i,
                               errors_found>>

InBody == Generating /\ ArgumentsStored
Block == Function.blocks[bb_codegen_number + 1]

\* Mistake: the blocks are created one by one as they are generated.
get_function_BB_soFar(b) == IF b \in 1..(bb_codegen_number + 1) THEN b ELSE 0

\* get_function_BB: 0 is nullptr.
get_function_BB(b) == IF b \in DOMAIN Function.blocks THEN b ELSE 0

\* functionValues.at(pos)
InRange(pos) == pos \in 0..(Len(functionValues) - 1)
At(pos) == functionValues[pos + 1]

\* A struct that is returned through memory is copied there at the end of the
\* last block only.
IsSretReturn(c) ==
    /\ has_sret(Proto(Function.x).ret) /\ c.op = "Return"
    /\ bb_codegen_number = Len(Function.blocks) - 1 /\ i = Len(Block) - 1

\* What stops the generation of instruction c: an operand that is not there,
\* no value where LLVM needs one, a block, function or variable that is not
\* there, NOT_IMPLEMENTED, a class of instructions the backend does not know.
Impossible(c) ==
    \/ \E u \in ToSet(c.uses) : ~InRange(u)
    \/ (c.op \notin {"Return", "Cast"} \/ IsSretReturn(c)) /\ \E u \in ToSet(c.uses) : At(u) = null
    \/ c.op = "Cast" /\ At(c.uses[1]) = null /\ ConvertOp(c.from, c.ty) \notin {"void", "none"}
    \/ \E b \in ToSet(c.bbs) : get_function_BB(b) = 0
    \/ c.op = "Call" /\ ~Declarable(c.x)
    \/ c.op \in {"LoadGlobal", "StoreGlobal"} /\ Get(module.globals, c.x) = null
    \/ c.op \in {"InlineAsm", "Shift"}

\* The LLVM instructions of c, at the end of block b of f; the value that is
\* pushed on functionValues; the allocas.
Plain(f, b, c, op, x, args) ==
    LET g == Create(f, b, LI(op, x, args, [k \in DOMAIN c.bbs |-> get_function_BB(c.bbs[k])],
                             Len(functionValues)))
    IN  [f |-> g, v |-> Made(g), allocas |-> functionVarsAllocas]
Pushing(r, v) == [r EXCEPT !.v = v]
NoCode(f, v) == [f |-> f, v |-> v, allocas |-> functionVarsAllocas]

\* Mistake: a call that never returns does not end its block.
CallInstruction_returns(f, b, c, args) ==
    LET sret == has_sret(c.ty)
        g == IF sret THEN CreateEntryBlockAlloca(f, "sret", Len(functionValues)) ELSE f
        called == Plain(g, b, c, "call", c.x, (IF sret THEN <<Made(g)>> ELSE << >>) \o args)
    IN  IF sret THEN Plain(called.f, b, c, "load", "sret", <<Made(g)>>) ELSE called

CallInstruction(f, b, c, args) ==
    LET sret == has_sret(c.ty)
        at == Len(functionValues)
        g == IF sret THEN CreateEntryBlockAlloca(f, "sret", at) ELSE f
        called == Plain(g, b, c, "call", c.x, (IF sret THEN <<Made(g)>> ELSE << >>) \o args)
        loaded == IF sret THEN Plain(called.f, b, c, "load", "sret", <<Made(g)>>) ELSE called
    IN  IF c.ty # "never" THEN loaded
        ELSE [loaded EXCEPT !.f = Create(@, b, LI("unreachable", "", << >>, << >>, at))]

\* Mistake: the variable is allocated where it is declared.
VarInit_inPlace(f, b, c, args) ==
    LET g == Create(f, b, LI("alloca", c.x, << >>, << >>, Len(functionValues)))
        h == IF args = << >> THEN g
             ELSE Create(g, b, LI("store", "", <<args[1], Made(g)>>, << >>, Len(functionValues)))
    IN  [f |-> h, v |-> Made(g), allocas |-> Put(functionVarsAllocas, c.x, Made(g))]

VarInit(f, b, c, args) ==
    LET g == CreateEntryBlockAlloca(f, c.x, Len(functionValues))
        place == Made(g)
        h == IF args = << >> THEN g
             ELSE Create(g, b, LI("store", "", <<args[1], place>>, << >>, Len(functionValues)))
    IN  [f |-> h, v |-> place, allocas |-> Put(functionVarsAllocas, c.x, place)]

Cast(f, b, c, val) ==
    LET op == ConvertOp(c.from, c.ty)
    IN  CASE op = "void" -> NoCode(f, null)
          [] op = "none" -> NoCode(f, val)
          [] op = "inttoptr" /\ Decimal(c.from) ->
               LET whole == Plain(f, b, c, "fptoui", "", <<val>>)
               IN  Plain(whole.f, b, c, op, "", <<whole.v>>)
          [] OTHER -> Plain(f, b, c, op, "", <<val>>)

\* A store is made with the pointer as the value; a member is always the first.
codegenInstruction(f, b, c) ==
    LET args == [k \in DOMAIN c.uses |-> At(c.uses[k])]
    IN  CASE c.op \in {"ConstNumber", "ConstBool", "ConstNull"} -> NoCode(f, Literal(c.ty, c.x))
          [] c.op = "ConstVoid" -> NoCode(f, null)
          [] c.op = "LoadString" -> NoCode(f, Value("string", module.strings[c.pos + 1], 0))
          [] c.op = "InitArg" -> NoCode(f, Get(functionVarsAllocas, c.x))
          [] c.op = "VarInit" -> VarInit(f, b, c, args)
          [] c.op \in {"LoadVar", "Deref"} -> Plain(f, b, c, "load", "", args)
          [] c.op = "StoreVar" -> Pushing(Plain(f, b, c, "store", "", <<args[2], args[1]>>), null)
          [] c.op = "StoreInPtr" -> Pushing(Plain(f, b, c, "store", "", <<args[1], args[1]>>), null)
          [] c.op = "LoadGlobal" -> Plain(f, b, c, "load", "", <<Get(module.globals, c.x)>>)
          [] c.op = "StoreGlobal" ->
               Pushing(Plain(f, b, c, "store", "", <<args[1], Get(module.globals, c.x)>>), null)
          [] c.op = "Cast" -> Cast(f, b, c, args[1])
          [] c.op \in Arithmetic -> Plain(f, b, c, c.op, ArithmeticForm(c.op, c.ty), args)
          [] c.op \in Compare -> Plain(f, b, c, c.op, CompareForm(c.op, c.from), args)
          [] c.op = "Call" -> CallInstruction(f, b, c, args)
          [] c.op = "Return" -> Plain(f, b, c, "ret", "", args)
          [] c.op \in {"Goto", "GotoIf"} -> Pushing(Plain(f, b, c, "br", "", args), null)
          [] c.op = "Phi" -> Plain(f, b, c, "phi", "", args)
          [] c.op = "Sizeof" -> Plain(f, b, c, "sizeof", c.x, args)
          [] c.op = "GepArray" -> Plain(f, b, c, "element", "", args)
          [] c.op = "GepStruct" -> Plain(f, b, c, "member", Members(c.from)[1][1], args)
          [] c.op = "ConstNever" -> Plain(f, b, c, "unreachable", "", << >>)

\* The value is copied into the alloca that holds the address of the result.
handleSretReturn(f, b, c) ==
    LET at == Len(functionValues)
        val == At(c.uses[1])
        g == CreateEntryBlockAlloca(f, "temp_retvar_sret", at)
        stored == Create(g, b, LI("store", "", <<val, Made(g)>>, << >>, at))
        copied == Create(stored, b, LI("memcpy", "", <<Made(g), Get(functionVarsAllocas, "sret_arg")>>, << >>, at))
    IN  Create(copied, b, LI("ret", "", << >>, << >>, at))

\* Mistake: an instruction without a value takes no position.
PushValue_notNull(v) == functionValues' = IF v = null THEN functionValues ELSE Append(functionValues, v)

PushValue(v) == functionValues' = Append(functionValues, v)

NextInstruction ==
    /\ InBody /\ bb_codegen_number < Len(Function.blocks) /\ i < Len(Block)
    /\ LET c == Block[i + 1]
           b == bb_codegen_number + 1
       IN  IF Impossible(c) THEN Stop
           ELSE /\ IF IsSretReturn(c)
                   THEN /\ module' = [module EXCEPT !.functions[n + 1] = handleSretReturn(Current, b, c)]
                        /\ UNCHANGED <<functionValues, functionVarsAllocas>>
                   ELSE LET r == codegenInstruction(Current, b, c)
                        IN  /\ module' = [module EXCEPT !.functions[n + 1] = r.f]
                            /\ PushValue(r.v)
                            /\ functionVarsAllocas' = r.allocas
                /\ i' = i + 1
                /\ UNCHANGED <<file, phase, n, GlobalValues, bb_codegen_number, args_stored, errors_found>>

EndBlock ==
    /\ InBody /\ bb_codegen_number < Len(Function.blocks) /\ i = Len(Block)
    /\ bb_codegen_number' = bb_codegen_number + 1 /\ i' = 0
    /\ UNCHANGED <<file, phase, n, module, GlobalValues, functionValues, functionVarsAllocas,
                   args_stored, errors_found>>

-----------------------------------------------------------------------------
(* llvm::verifyFunction: the blocks, the types of the operands, and that    *)
(* every value is there when it is used.                                   *)

\* get_type_llvm; the vector a struct of floats is passed as is "vector".
LLVMType(ty) ==
    CASE ty \in {"i8", "u8"} -> "i8" [] ty \in {"i32", "u32"} -> "i32" [] ty \in {"i64", "u64"} -> "i64"
      [] ty = "bool" -> "i1" [] ty \in {"void", "never"} -> "void" [] ty = "numptr" -> "ptr" [] OTHER -> ty

Width == [i1 |-> 1, i8 |-> 8, i32 |-> 32, i64 |-> 64]
IntegerTypes == DOMAIN Width
FloatTypes == {"float", "double"}

\* The function type that codegenProto makes.
ParameterType(ty) ==
    IF AsVector(ty) THEN "vector" ELSE IF is_just_struct(ty) /\ should_pass_struct_byval(ty) THEN "ptr" ELSE LLVMType(ty)
ParameterTypes(proto) ==
    (IF has_sret(proto.ret) THEN <<"ptr">> ELSE << >>) \o [k \in DOMAIN proto.args |-> ParameterType(proto.args[k][2])]
ReturnType(proto) == IF has_sret(proto.ret) THEN "void" ELSE LLVMType(proto.ret)

\* A decimal constant is a double, whatever type the CIR gives it.
ValueType(v, params, types) ==
    CASE v.k = "inst" -> types[v.p]
      [] v.k = "param" -> params[v.p]
      [] v.k = "const" -> IF Decimal(v.ty) THEN "double" ELSE LLVMType(v.ty)
      [] v.k \in {"string", "global"} -> "ptr"
      [] OTHER -> "void"

Conversions == {"trunc", "zext", "sext", "fptosi", "fptoui", "sitofp", "uitofp", "fptrunc", "fpext",
                "ptrtoint", "inttoptr"}

\* The types of the instructions of f, the code of function F of the file.
TypesOf(f, F) ==
    LET cir == FlattenSeq(F.blocks)
        types[id \in DOMAIN f.made] ==
            LET li == f.made[id]
                c == cir[li.at + 1]
            IN  CASE li.op \in {"alloca", "element", "member"} -> "ptr"
                  [] li.op = "call" -> ReturnType(Proto(li.x))
                  [] li.op \in Arithmetic -> ValueType(li.args[1], ParameterTypes(Proto(F.x)), types)
                  [] li.op \in Compare -> "i1"
                  [] li.op = "sizeof" \/ (li.op = "fptoui" /\ c.ty = "ptr") -> "i32"
                  [] li.op = "load" /\ c.op = "LoadGlobal" ->
                       LLVMType((CHOOSE g \in file.globals : g.x = c.x).ty)
                  [] li.op \in Conversions \union {"load", "phi"} -> LLVMType(c.ty)
                  [] OTHER -> "void"
    IN  types

\* The builder makes no conversion of a value that has the type already.
ConversionFits(op, from, to) ==
    \/ from = to
    \/ CASE op = "trunc" -> {from, to} \subseteq IntegerTypes /\ Width[from] > Width[to]
         [] op \in {"zext", "sext"} -> {from, to} \subseteq IntegerTypes /\ Width[from] < Width[to]
         [] op \in {"fptosi", "fptoui"} -> from \in FloatTypes /\ to \in IntegerTypes
         [] op \in {"sitofp", "uitofp"} -> from \in IntegerTypes /\ to \in FloatTypes
         [] op = "fptrunc" -> <<from, to>> = <<"double", "float">>
         [] op = "fpext" -> <<from, to>> = <<"float", "double">>
         [] op = "ptrtoint" -> from = "ptr" /\ to \in IntegerTypes
         [] op = "inttoptr" -> from \in IntegerTypes /\ to = "ptr"

\* An argument for every parameter, of its type; more only for a variadic one.
ArgumentsFit(proto, given) ==
    LET params == ParameterTypes(proto)
    IN  IF proto.variadic THEN IsPrefix(params, given) /\ "void" \notin ToSet(given) ELSE params = given

\* Instruction li, of type ty, whose operands have the types given.
OperandsFit(li, ty, given, F) ==
    CASE li.op = "call" -> ArgumentsFit(Proto(li.x), given)
      [] li.op = "ret" -> IF ReturnType(Proto(F.x)) = "void" THEN li.args \in {<< >>, <<null>>}
                          ELSE given = <<ReturnType(Proto(F.x))>>
      [] li.op \in Arithmetic ->
           given[1] = given[2] /\ given[1] \in (IF li.x = "decimal" THEN FloatTypes ELSE IntegerTypes)
      [] li.op \in Compare ->
           given[1] = given[2] /\ given[1] \in (IF li.x = "decimal" THEN FloatTypes ELSE IntegerTypes \union {"ptr"})
      [] li.op = "br" -> given \in {<< >>, <<"i1">>}
      [] li.op = "phi" -> ty # "void" /\ ToSet(given) = {ty}
      [] li.op = "load" -> ty # "void" /\ given = <<"ptr">>
      [] li.op = "store" -> given[1] # "void" /\ given[2] = "ptr"
      [] li.op = "element" -> given[1] = "ptr" /\ given[2] \in IntegerTypes
      [] li.op = "member" -> given = <<"ptr">>
      [] li.op = "sizeof" -> "void" \notin ToSet(given)
      [] li.op \in Conversions -> ConversionFits(li.op, given[1], ty)
      [] OTHER -> TRUE

\* A variable is of a type that has a size.
Sized(li, F) ==
    LET c == FlattenSeq(F.blocks)[li.at + 1]
    IN  li.op = "alloca" /\ li.at # -1 /\ c.op = "VarInit" => LLVMType(c.ty) # "void"

Terminators == {"br", "ret", "unreachable"}
Op(f, id) == f.made[id].op

\* The branches to block b: an instruction and which of its targets.
EdgesTo(f, b) ==
    {e \in (DOMAIN f.made) \X {1, 2} :
        Op(f, e[1]) = "br" /\ e[2] \in DOMAIN f.made[e[1]].bbs /\ f.made[e[1]].bbs[e[2]] = b}
Preds(f, b) == {p \in DOMAIN f.blocks : \E e \in EdgesTo(f, b) : e[1] \in ToSet(f.blocks[p])}

\* A block ends in its only terminator; a phi is at its beginning and has one
\* value for every branch to the block.
BlockFits(f, b) ==
    LET code == f.blocks[b]
    IN  /\ code # << >>
        /\ \A k \in DOMAIN code : Op(f, code[k]) \in Terminators <=> k = Len(code)
        /\ \A k \in DOMAIN code : Op(f, code[k]) = "phi" =>
              /\ \A j \in 1..(k - 1) : Op(f, code[j]) = "phi"
              /\ ToSet(f.made[code[k]].bbs) = Preds(f, b)
              /\ Len(f.made[code[k]].bbs) = Cardinality(EdgesTo(f, b))

\* The blocks reached from the first one without going through block cut.
ReachedWithout(cut, successors) ==
    FoldLeft(LAMBDA S, b : (S \union UNION {successors[s] : s \in S}) \ {cut}, {1} \ {cut}, successors)

\* On every path to instruction k of block b, instruction d was executed.
Dominates(d, b, k, blocks, successors) ==
    \/ \E j \in 1..(k - 1) : blocks[b][j] = d
    \/ \E a \in DOMAIN blocks \ {b} : d \in ToSet(blocks[a]) /\ b \notin ReachedWithout(a, successors)
    \/ b \notin ReachedWithout(0, successors)

\* What a phi takes from a block is there at the end of that block.
OperandsDominate(f) ==
    LET successors == [b \in DOMAIN f.blocks |-> {c \in DOMAIN f.blocks : b \in Preds(f, c)}]
    IN  \A b \in DOMAIN f.blocks : \A k \in DOMAIN f.blocks[b] :
            LET li == f.made[f.blocks[b][k]]
            IN  \A j \in DOMAIN li.args : li.args[j].k = "inst" =>
                    IF li.op = "phi"
                    THEN Dominates(li.args[j].p, li.bbs[j], Len(f.blocks[li.bbs[j]]) + 1, f.blocks, successors)
                    ELSE Dominates(li.args[j].p, b, k, f.blocks, successors)

verifyFunction(f, F) ==
    LET params == ParameterTypes(Proto(F.x))
        types == TypesOf(f, F)
    IN  /\ "void" \notin ToSet(params)
        /\ Preds(f, 1) = {}
        /\ \A b \in DOMAIN f.blocks : BlockFits(f, b)
        /\ \A id \in DOMAIN f.made :
              LET li == f.made[id]
              IN  /\ Sized(li, F)
                  /\ OperandsFit(li, types[id], [j \in DOMAIN li.args |-> ValueType(li.args[j], params, types)], F)
        /\ OperandsDominate(f)

\* Mistake: the loop does not go on to the next function.
EndFunction_again ==
    /\ InBody /\ bb_codegen_number = Len(Function.blocks)
    /\ module' = [module EXCEPT !.functions = Front(@)]
    /\ SameFunction /\ UNCHANGED <<file, phase, n, GlobalValues, errors_found>>

EndFunction ==
    /\ InBody /\ bb_codegen_number = Len(Function.blocks)
    /\ errors_found' = (errors_found \/ ~verifyFunction(Current, Function))
    /\ n' = n + 1
    /\ SameFunction /\ UNCHANGED <<file, phase, module, GlobalValues>>

FunctionsDone ==
    /\ phase = "functions" /\ n = Len(file.functions)
    /\ Leave("done")
    /\ SameFunction /\ UNCHANGED <<file, module, GlobalValues, errors_found>>

-----------------------------------------------------------------------------
Init ==
    /\ file \in Files
    /\ phase = "strings" /\ n = 0
    /\ module = [strings |-> << >>, globals |-> {}, structs |-> {}, functions |-> << >>]
    /\ GlobalValues = << >> /\ functionValues = << >> /\ functionVarsAllocas = {}
    /\ bb_codegen_number = 0 /\ args_stored = 0 /\ i = 0
    /\ errors_found = FALSE

codegenFile ==
    \/ CodegenString \/ GlobalInstruction
    \/ \E g \in file.globals : codegenGlobalVar(g)
    \/ GlobalVarsDone
    \/ \E s \in file.structs : codegenStruct(s)
    \/ StructsDone
    \/ BeginFunction \/ StoreArgument \/ NextInstruction \/ EndBlock \/ EndFunction \/ FunctionsDone

\* The process goes on to file_ast->codegen() or has ended.
Ended == phase \in {"done", "stopped"} /\ UNCHANGED vars

Next == codegenFile \/ Ended

Spec == Init /\ [][Next]_vars
FairSpec == Spec /\ WF_vars(codegenFile)
=============================================================================
