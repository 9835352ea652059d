------------------------------ MODULE Lowering ------------------------------
(***************************************************************************)
(* What a backend promises to do with the CIR of a file, whatever its      *)
(* target language: every block of every function becomes a block of the   *)
(* target, which holds the translations of its instructions in order; an   *)
(* operand denotes what the instruction at its position means, and a       *)
(* branch goes to the translation of the block it names.                   *)
(*                                                                         *)
(* A file is a record                                                      *)
(*   strings   : its string literals                                       *)
(*   init      : the instructions of global_context                        *)
(*   globals   : the set of its global variables [x, ty, extern, init]     *)
(*   structs   : the set of its structs [x, members]                       *)
(*   protos    : a function from names to [args, ret, variadic]            *)
(*   functions : a sequence of [x, blocks]                                 *)
(* an instruction is [op, ty, from, uses, x, pos, bbs]: its class and      *)
(* type, the type of what it converts, compares or goes into, the          *)
(* positions of its operands in the function, the name or literal it       *)
(* holds, the position of its string, and the blocks it names, by their    *)
(* place in the function.                                                  *)
(***************************************************************************)
EXTENDS Integers, Sequences, SequencesExt, FiniteSetsExt

CONSTANT Files

VARIABLES
    file,       \* the CIR compiled
    code,       \* for each function and block, the translations in it
    lowered,    \* for each function and block, how many instructions they stand for
    outcome     \* "lowering", "done" or "stopped"

lvars == <<file, code, lowered, outcome>>

-----------------------------------------------------------------------------
(* Types.                                                                  *)

Decimal(ty) == ty \in {"float", "double"}
Signed(ty) == ty \in {"i8", "i32", "i64", "bool"}
Unsigned(ty) == ty \in {"u8", "u32", "u64"}
Number(ty) == Decimal(ty) \/ Signed(ty) \/ Unsigned(ty)

\* Cpoint_Type::get_number_of_bits: -1 for what is not a number, a pointer or
\* a bool, and 64 for both decimal types.
Bits(ty) ==
    CASE ty \in {"i8", "u8"} -> 8 [] ty \in {"i32", "u32"} -> 32
      [] ty \in {"i64", "u64", "float", "double"} -> 64 [] ty = "bool" -> 1 [] OTHER -> -1

\* What convert_to_type generates for a scalar: "none" is the value itself.
Conversion(from, to) ==
    IF to = "void" THEN "void"
    ELSE IF from = "ptr" THEN (IF to = "ptr" THEN "none" ELSE "ptrtoint")
    ELSE IF to = "ptr" THEN "inttoptr"
    ELSE IF Decimal(from) /\ Decimal(to) THEN
         IF from = to THEN "none" ELSE IF to = "float" THEN "fptrunc" ELSE "fpext"
    ELSE IF Decimal(from) THEN (IF Signed(to) THEN "fptosi" ELSE IF Unsigned(to) THEN "fptoui" ELSE "none")
    ELSE IF Decimal(to) THEN (IF Signed(from) THEN "sitofp" ELSE "uitofp")
    ELSE IF Bits(from) < Bits(to) THEN (IF Signed(from) THEN "sext" ELSE "zext")
    ELSE IF Bits(from) > Bits(to) THEN "trunc"
    ELSE "none"

-----------------------------------------------------------------------------
(* What instructions mean.                                                 *)

Constants == {"ConstNumber", "ConstBool", "ConstNull"}

Result(p) == [k |-> "result", x |-> "", p |-> p]
Named(k, x) == [k |-> k, x |-> x, p |-> 0]
Nothing == Named("nothing", "")
Literal(ty, x) == [k |-> "const", x |-> x, p |-> 0, ty |-> ty]

\* The instructions that have no value.
Effects == {"ConstVoid", "StoreVar", "StoreGlobal", "StoreInPtr", "Goto", "GotoIf"}

\* The meaning of instruction i at position p, when d are those of the positions
\* before it: a constant, a string, the place of an argument, the value another
\* position has, or its own result.
MeaningAt(d, i, p) ==
    CASE i.op \in Constants -> Literal(i.ty, i.x)
      [] i.op = "LoadString" -> Named("string", file.strings[i.pos + 1])
      [] i.op = "InitArg" -> Named("arg", i.x)
      [] i.op \in Effects -> Nothing
      [] i.op = "Cast" /\ Conversion(i.from, i.ty) = "void" -> Nothing
      [] i.op = "Cast" /\ Conversion(i.from, i.ty) = "none" /\ i.uses[1] \in 0..(p - 1) -> d[i.uses[1]]
      [] OTHER -> Result(p)

\* The meaning of every position of a function.
Denotation(cir) ==
    LET d[p \in 0..(Len(cir) - 1)] == MeaningAt(d, cir[p + 1], p)
    IN  d

\* Which of the forms of an arithmetic or compare instruction its type asks for.
Form(op, ty) ==
    IF op \in {"And", "Or"} THEN ""
    ELSE IF Decimal(ty) THEN "decimal"
    ELSE IF op \in {"Div", "Rem", "Greater", "GreaterEq", "Lower", "LowerEq"} THEN
         IF Signed(ty) THEN "signed" ELSE "unsigned"
    ELSE ""

Arithmetic == {"Add", "Sub", "Mul", "Div", "Rem", "And", "Or"}
Compare == {"Eq", "NotEq", "Greater", "GreaterEq", "Lower", "LowerEq"}

Target(op, x, args, bbs) == [op |-> op, x |-> x, args |-> args, bbs |-> bbs]

\* The translations of instruction i at position p, whose operands mean m.
Translation(i, p, m) ==
    CASE i.op \in {"LoadVar", "Deref"} -> <<Target("load", "", m, << >>)>>
      [] i.op = "VarInit" ->
           IF m = << >> THEN << >> ELSE <<Target("store", "", <<m[1], Result(p)>>, << >>)>>
      [] i.op \in {"StoreVar", "StoreInPtr"} -> <<Target("store", "", <<m[2], m[1]>>, << >>)>>
      [] i.op = "LoadGlobal" -> <<Target("load", "", <<Named("global", i.x)>>, << >>)>>
      [] i.op = "StoreGlobal" -> <<Target("store", "", <<m[1], Named("global", i.x)>>, << >>)>>
      [] i.op = "Cast" ->
           IF Conversion(i.from, i.ty) \in {"void", "none"} THEN << >>
           ELSE IF Decimal(i.from) /\ i.ty = "ptr"
           THEN <<Target("fptoui", "", m, << >>), Target("inttoptr", "", <<Result(p)>>, << >>)>>
           ELSE <<Target(Conversion(i.from, i.ty), "", m, << >>)>>
      [] i.op \in Arithmetic -> <<Target(i.op, Form(i.op, i.ty), m, << >>)>>
      [] i.op \in Compare -> <<Target(i.op, Form(i.op, i.from), m, << >>)>>
      [] i.op = "Call" ->
           <<Target("call", i.x, m, << >>)>>
           \o IF i.ty = "never" THEN <<Target("unreachable", "", << >>, << >>)>> ELSE << >>
      [] i.op = "Return" -> <<Target("ret", "", m, << >>)>>
      [] i.op = "Goto" -> <<Target("br", "", << >>, i.bbs)>>
      [] i.op = "GotoIf" -> <<Target("br", "", m, i.bbs)>>
      [] i.op = "Phi" -> <<Target("phi", "", m, i.bbs)>>
      [] i.op = "Sizeof" -> <<Target("sizeof", i.x, m, << >>)>>
      [] i.op = "GepArray" -> <<Target("element", "", m, << >>)>>
      [] i.op = "GepStruct" -> <<Target("member", i.x, m, << >>)>>
      [] i.op = "ConstNever" -> <<Target("unreachable", "", << >>, << >>)>>
      [] OTHER -> << >>

Cir(F) == FlattenSeq(file.functions[F].blocks)

\* The position of instruction k of block b, and its operands.
Position(blocks, b, k) == Len(FlattenSeq(SubSeq(blocks, 1, b - 1))) + k - 1

TranslationOf(F, b, k) ==
    LET blocks == file.functions[F].blocks
        i == blocks[b][k]
        d == Denotation(Cir(F))
    IN  Translation(i, Position(blocks, b, k), [j \in DOMAIN i.uses |-> d[i.uses[j]]])

-----------------------------------------------------------------------------
(* The promise.                                                            *)

Everything ==
    \A F \in DOMAIN file.functions : \A b \in DOMAIN file.functions[F].blocks :
        lowered[F][b] = Len(file.functions[F].blocks[b])

Init ==
    /\ file \in Files
    /\ code = [F \in DOMAIN file.functions |-> [b \in DOMAIN file.functions[F].blocks |-> << >>]]
    /\ lowered = [F \in DOMAIN file.functions |-> [b \in DOMAIN file.functions[F].blocks |-> 0]]
    /\ outcome = "lowering"

Lower(F, b) ==
    /\ outcome = "lowering"
    /\ lowered[F][b] < Len(file.functions[F].blocks[b])
    /\ lowered' = [lowered EXCEPT ![F][b] = @ + 1]
    /\ code' = [code EXCEPT ![F][b] = @ \o TranslationOf(F, b, lowered[F][b] + 1)]
    /\ UNCHANGED <<file, outcome>>

Finish ==
    /\ outcome = "lowering" /\ Everything
    /\ outcome' = "done"
    /\ UNCHANGED <<file, code, lowered>>

\* A backend may refuse a file: it says so and produces nothing.
Refuse ==
    /\ outcome = "lowering"
    /\ outcome' = "stopped"
    /\ UNCHANGED <<file, code, lowered>>

Next ==
    \/ \E F \in DOMAIN file.functions : \E b \in DOMAIN file.functions[F].blocks : Lower(F, b)
    \/ Finish
    \/ Refuse

Spec == Init /\ [][Next]_lvars
=============================================================================
