----------------------- MODULE LLVMBackendProperties -----------------------
(***************************************************************************)
(* What the generation of LLVM code must do: keep the promise of module    *)
(* Lowering, refuse no file it supports, give code that LLVM accepts, and  *)
(* end.                                                                    *)
(***************************************************************************)
EXTENDS LLVMBackend

Values == [k : {"inst", "param", "string", "global", "null"}, x : STRING, p : Nat]
          \union [k : {"const"}, x : STRING, p : {0}, ty : STRING]

\* An operand that is an instruction was made before the one that uses it.
MadeBefore(f) ==
    \A id \in DOMAIN f.made : \A v \in ToSet(f.made[id].args) : v.k = "inst" => v.p \in 1..(id - 1)

OperandsMadeBefore == \A F \in DOMAIN module.functions : MadeBefore(module.functions[F])

\* The values of the variables; an operand of an instruction is made before it,
\* and every instruction is in one block, once.
TypeOK ==
    /\ file \in Files
    /\ phase \in {"strings", "init", "globals", "structs", "functions", "done", "stopped"}
    /\ GlobalValues \in Seq(Values) /\ functionValues \in Seq(Values)
    /\ module.structs \subseteq Structs
    /\ \A F \in DOMAIN module.functions :
          LET f == module.functions[F]
          IN  /\ Len(FlattenSeq(f.blocks)) = Len(f.made)
              /\ ToSet(FlattenSeq(f.blocks)) = DOMAIN f.made
    /\ OperandsMadeBefore
    /\ errors_found \in BOOLEAN

-----------------------------------------------------------------------------
(* The promise.                                                            *)

\* What a value of the LLVM code of f denotes, by the instruction that made it.
Meaning(f, v) ==
    IF v = null THEN [k |-> "nothing", x |-> "", p |-> 0]
    ELSE IF v.k # "inst" THEN v
    ELSE LET li == f.made[v.p]
         IN  IF li.at = -1 THEN [k |-> "arg", x |-> li.x, p |-> 0]
             ELSE [k |-> "result", x |-> "", p |-> li.at]

\* What serves the target only: allocas, the prologue, and for a result that is
\* returned through memory its place, the copy and the ret without a value.
Artefact(li) ==
    \/ li.at = -1 \/ li.op \in {"alloca", "memcpy"}
    \/ li.op = "load" /\ li.x = "sret"
    \/ li.op = "ret" /\ li.args = << >>

PlaceOf(f, v, x) == v.k = "inst" /\ f.made[v.p].op = "alloca" /\ f.made[v.p].x = x

\* To return such a result is to store it for the copy.
ReturnsThroughMemory(f, li) == li.op = "store" /\ PlaceOf(f, Last(li.args), "temp_retvar_sret")

\* A call is given the place of such a result first.
TakesPlace(f, li) == li.args # << >> /\ PlaceOf(f, Head(li.args), "sret")

\* What an instruction stands for in the target, if anything.
DecodedInstruction(f, li) ==
    LET memory == ReturnsThroughMemory(f, li)
        args == IF memory THEN Front(li.args) ELSE IF TakesPlace(f, li) THEN Tail(li.args) ELSE li.args
    IN  IF Artefact(li) THEN << >>
        ELSE <<[op |-> IF memory THEN "ret" ELSE li.op, x |-> li.x,
                args |-> [j \in DOMAIN args |-> Meaning(f, args[j])], bbs |-> li.bbs]>>

Decoded(f, b) == FlattenSeq([k \in DOMAIN f.blocks[b] |-> DecodedInstruction(f, f.made[f.blocks[b][k]])])

DecodedCode ==
    [F \in DOMAIN file.functions |->
        [b \in DOMAIN file.functions[F].blocks |->
            IF F \in DOMAIN module.functions THEN Decoded(module.functions[F], b) ELSE << >>]]

Lowered ==
    [F \in DOMAIN file.functions |->
        [b \in DOMAIN file.functions[F].blocks |->
            LET all == Len(file.functions[F].blocks[b])
            IN  IF F < Len(module.functions) THEN all
                ELSE IF F > Len(module.functions) \/ b > bb_codegen_number + 1 THEN 0
                ELSE IF b <= bb_codegen_number THEN all ELSE i]]

Outcome == IF phase \in {"done", "stopped"} THEN phase ELSE "lowering"

Promise == INSTANCE Lowering WITH code <- DecodedCode, lowered <- Lowered, outcome <- Outcome

\* Every step appends to the block it is in the translation of one CIR
\* instruction, with what its operands mean, and leaves the rest as it is.
KeepsThePromise == Promise!Spec

Reserved == {"sret", "temp_retvar_sret"}

\* What the backend translates as promised: no store through a pointer, which
\* stores the pointer; no order of unsigned integers, which are compared as
\* signed; no member of a struct but its first; casts of numbers and pointers.
\* Only branches and phis name blocks, and a goto has no operand, as their
\* constructors have it.
TranslatedAsPromised(c) ==
    /\ c.op # "StoreInPtr"
    /\ c.op \in {"Greater", "GreaterEq", "Lower", "LowerEq"} => Signed(c.from) \/ Decimal(c.from)
    /\ c.op = "GepStruct" => c.x = Members(c.from)[1][1]
    /\ c.op = "Cast" /\ c.ty # "void" =>
          /\ {c.from, c.ty} \intersect Structs = {}
          /\ Decimal(c.from) \/ Signed(c.from) \/ Unsigned(c.from) \/ c.from = "ptr"
    /\ c.op = "VarInit" => c.x \notin Reserved
    /\ c.op \notin {"Goto", "GotoIf", "Phi"} => c.bbs = << >>
    /\ c.op = "Goto" => c.uses = << >>

\* An argument of the function, before any variable of its name.
ArgumentFound(F, k) ==
    LET cir == Promise!Cir(F)
    IN  /\ \E a \in ToSet(Proto(file.functions[F].x).args) : a[1] = cir[k].x
        /\ \A j \in 1..(k - 1) : ~(cir[j].op = "VarInit" /\ cir[j].x = cir[k].x)

\* Such are the instructions of the file, its arguments are found by their
\* names, and no name of the source is one the backend gives to its own places.
Translatable ==
    /\ \A F \in DOMAIN file.functions :
          \A k \in DOMAIN Promise!Cir(F) :
              /\ TranslatedAsPromised(Promise!Cir(F)[k])
              /\ Promise!Cir(F)[k].op = "InitArg" => ArgumentFound(F, k)
    /\ \A x \in DOMAIN file.protos : \A a \in ToSet(file.protos[x].args) : a[1] \notin Reserved

-----------------------------------------------------------------------------
(* Files that must go through.                                             *)

\* Operands are values made before; what is named exists.
Voids == {"ConstVoid", "StoreVar", "StoreGlobal", "StoreInPtr", "Goto", "GotoIf"}
IsVoid(c) == c.op \in Voids \/ c.ty = "void"

WellFormedCode(cir) ==
    \A k \in DOMAIN cir :
        LET c == cir[k]
        IN  /\ \A u \in ToSet(c.uses) : u \in 0..(k - 2) /\ (c.op = "Return" \/ ~IsVoid(cir[u + 1]))
            /\ c.op \notin {"InlineAsm", "Shift"}
            /\ c.op = "Call" => c.x \in DOMAIN file.protos
            /\ c.op \in {"LoadGlobal", "StoreGlobal"} => \E g \in file.globals : g.x = c.x

\* Blocks end, as fixFileCIR and checkFileCIR have it, in the only instruction
\* of type never; a phi begins its block and names its predecessors; a function
\* returns a value unless it is void.
Preceding(blocks, b) == {p \in DOMAIN blocks : blocks[p] # << >> /\ b \in ToSet(Last(blocks[p]).bbs)}

WellFormedBlocks(F) ==
    LET blocks == file.functions[F].blocks
        void == Proto(file.functions[F].x).ret = "void"
    IN  \A b \in DOMAIN blocks :
            /\ blocks[b] # << >>
            /\ \A k \in DOMAIN blocks[b] :
                  LET c == blocks[b][k]
                  IN  /\ c.ty = "never" <=> k = Len(blocks[b])
                      /\ ToSet(c.bbs) \subseteq DOMAIN blocks
                      /\ c.op = "Phi" => k = 1 /\ ToSet(c.bbs) = Preceding(blocks, b)
                      /\ c.op = "Return" => (void <=> IsVoid(Promise!Cir(F)[c.uses[1] + 1]))

SimpleTypes == {"i8", "u8", "i32", "u32", "i64", "u64", "float", "double", "bool", "ptr", "void", "never"}

\* What the backend does not do yet: structs in structs, in global variables
\* and as arguments, global variables whose value is computed or is not a
\* number, functions that return a large struct and have arguments or return
\* before their last block.
Supported ==
    /\ \A g \in file.globals :
          /\ g.ty \in SimpleTypes
          /\ g.init # -1 => ~g.extern /\ g.ty # "ptr" /\ file.init[g.init + 1].op \in {"ConstNumber", "ConstBool"}
    /\ \A k \in DOMAIN file.init : file.init[k].uses = << >>
    /\ \A s \in file.structs : \A k \in DOMAIN s.members : s.members[k][2] \in SimpleTypes
    /\ \A x \in DOMAIN file.protos : \A k \in DOMAIN file.protos[x].args : file.protos[x].args[k][2] \in SimpleTypes
    /\ \A F \in DOMAIN file.functions :
          has_sret(Proto(file.functions[F].x).ret) =>
              /\ Proto(file.functions[F].x).args = << >>
              /\ \A b \in DOMAIN Front(file.functions[F].blocks) :
                    \A c \in ToSet(file.functions[F].blocks[b]) : c.op # "Return"
    /\ \A F \in DOMAIN file.functions : WellFormedCode(Promise!Cir(F)) /\ WellFormedBlocks(F)

\* Such a file is never refused, and no table is read where nothing was written:
\* values by position, variables, blocks, functions, types.
SupportedFilesGoThrough == Supported => phase # "stopped"

-----------------------------------------------------------------------------
(* Code that is well typed, as the conversions of the CIR generator make   *)
(* it, and whose operands are computed before.                             *)

\* The type of the value that an instruction of the CIR stands for.
CirType(c) ==
    CASE c.op \in {"VarInit", "InitArg", "GepArray", "GepStruct", "LoadString", "ConstNull"} -> "ptr"
      [] c.op = "Sizeof" -> "i32"
      [] c.op \in Compare -> "bool"
      [] c.op = "LoadGlobal" -> (CHOOSE g \in file.globals : g.x = c.x).ty
      [] OTHER -> c.ty

IsNumber(ty) == Decimal(ty) \/ Signed(ty) \/ Unsigned(ty)
Scalar(ty) == IsNumber(ty) \/ ty = "ptr"

\* A return without a value is one of an instruction that gives none.
InstructionIsTyped(c, given, proto) ==
    CASE c.op = "ConstNumber" -> IsNumber(c.ty) /\ c.ty # "float"
      [] c.op \in Arithmetic ->
           given = <<c.ty, c.ty>> /\ IsNumber(c.ty) /\ (c.op \in {"And", "Or"} => ~Decimal(c.ty))
      [] c.op \in Compare -> given = <<c.from, c.from>> /\ Scalar(c.from)
      [] c.op = "Cast" ->
           /\ given = <<c.from>>
           /\ c.ty # "void" => Scalar(c.from) /\ Scalar(c.ty) /\ ~(c.from = "ptr" /\ Decimal(c.ty))
      [] c.op = "Call" ->
           LET called == file.protos[c.x]
               params == [k \in DOMAIN called.args |-> called.args[k][2]]
           IN  /\ c.ty = called.ret
               /\ IF called.variadic THEN IsPrefix(params, given) ELSE params = given
      [] c.op = "Return" -> proto.ret # "void" => given = <<proto.ret>>
      [] c.op = "GotoIf" -> given = <<"bool">>
      [] c.op = "Phi" -> given = <<c.ty, c.ty>>
      [] c.op \in {"LoadVar", "Deref"} -> given = <<"ptr">> /\ c.ty \notin {"void", "never"}
      [] c.op = "VarInit" -> c.ty \notin {"void", "never"}
      [] c.op = "StoreVar" -> given[1] = "ptr"
      [] c.op = "GepArray" -> given[1] = "ptr" /\ IsNumber(given[2]) /\ ~Decimal(given[2])
      [] c.op = "GepStruct" -> given = <<"ptr">>
      [] OTHER -> TRUE

\* In a void function the operand of a return is a ConstVoid or the like.
ReturnsNoCall(cir) ==
    \A c \in ToSet(cir) : c.op = "Return" => cir[c.uses[1] + 1].op # "Call" \/ cir[c.uses[1] + 1].ty # "void"

CodeIsTyped(F) ==
    LET cir == Promise!Cir(F)
    IN  /\ ReturnsNoCall(cir)
        /\ \A c \in ToSet(cir) :
              InstructionIsTyped(c, [j \in DOMAIN c.uses |-> CirType(cir[c.uses[j] + 1])],
                                 Proto(file.functions[F].x))

\* An operand is computed on every path to its use; a branch goes to two
\* blocks, and never to the first one.
CodeDominates(F) ==
    LET blocks == file.functions[F].blocks
        positions == [b \in DOMAIN blocks |-> [k \in DOMAIN blocks[b] |-> Promise!Position(blocks, b, k)]]
        successors == [b \in DOMAIN blocks |-> ToSet(Last(blocks[b]).bbs)]
    IN  \A b \in DOMAIN blocks :
            /\ 1 \notin successors[b] /\ IsInjective(Last(blocks[b]).bbs)
            /\ \A k \in DOMAIN blocks[b] :
                  LET c == blocks[b][k]
                  IN  /\ c.op = "Phi" => IsInjective(c.bbs)
                      /\ \A j \in DOMAIN c.uses :
                            IF c.op = "Phi"
                            THEN Dominates(c.uses[j], c.bbs[j], Len(blocks[c.bbs[j]]) + 1, positions, successors)
                            ELSE Dominates(c.uses[j], b, k, positions, successors)

WellTyped ==
    /\ \A x \in DOMAIN file.protos : \A a \in ToSet(file.protos[x].args) : a[2] \notin {"void", "never"}
    /\ \A F \in DOMAIN file.functions : CodeIsTyped(F) /\ CodeDominates(F)

\* LLVM accepts the code of such a file, of which no error is counted: the
\* types of the CIR are those of the values the backend takes from its table,
\* and its blocks, laid out in any order, compute a value before it is used.
VerifierIsSatisfied == Supported /\ WellTyped => ~errors_found

-----------------------------------------------------------------------------
(* Where variables live.                                                   *)

Dominated(f) ==
    \A id \in DOMAIN f.made : f.made[id].op = "alloca" =>
        \E k \in DOMAIN f.blocks[1] :
            /\ f.blocks[1][k] = id
            /\ \A j \in 1..(k - 1) :
                  Value("inst", "", id) \notin ToSet(f.made[f.blocks[1][j]].args)

\* The allocas of a function are in its entry block, before any other
\* instruction that uses them: a variable in a loop is one place, and the code
\* of a branch finds it.
AllocasDominate == \A F \in DOMAIN module.functions : Dominated(module.functions[F])

\* The loops of the backend end, for every file.
BackendEnds == <>(phase \in {"done", "stopped"})

-----------------------------------------------------------------------------
(* What the tests of the language rely on.                                 *)

\* An assignment to an element of an array or a member of a struct stores the
\* value that is assigned.
AssignedElementsHoldTheValue ==
    \A F \in DOMAIN module.functions :
        LET f == module.functions[F]
            cir == Promise!Cir(F)
        IN  \A id \in DOMAIN f.made :
                LET li == f.made[id]
                IN  li.op = "store" /\ li.at # -1 /\ cir[li.at + 1].op = "StoreInPtr" =>
                        Meaning(f, li.args[1]) = Promise!Denotation(cir)[cir[li.at + 1].uses[2]]
=============================================================================
