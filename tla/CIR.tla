--------------------------------- MODULE CIR ---------------------------------
(***************************************************************************)
(* The C. intermediate representation of one file: class FileCIR with its  *)
(* functions, basic blocks and instructions (src/src/CIR/cir.h,            *)
(* basic_block.h, instructions.h) and the operations on it.                *)
(*                                                                         *)
(* A file is a value c of the record                                       *)
(*    instr : every instruction object made so far                         *)
(*    blk   : every basic block object made so far                         *)
(*    fun   : for each function, its blocks in layout order                *)
(*    cur   : CurrentBasicBlock, the insert point (0 is nullptr)           *)
(*    named : already_named_index                                          *)
(* and the operations are functions from c to c.  The index of an object   *)
(* in instr or blk is its identity, what a C++ pointer to it denotes; the  *)
(* CIR itself does not hold instruction identities.  It names an operand   *)
(* by an InstructionRef, a position in the function's layout.  A reference *)
(* here is the position together with `def', the instruction that was      *)
(* meant when the reference was made: def is never read by an operation    *)
(* and exists for the properties.                                          *)
(***************************************************************************)
EXTENDS Integers, Sequences, SequencesExt, FiniteSetsExt

CONSTANT Labels         \* the names of the labels of the source

\* The classes of Cpoint_Type: "val" is any number but the i64 of an index,
\* "array" an array or a vector, "object" a struct; "none" is Cpoint_Type().
Types == {"val", "bool", "i64", "ptr", "array", "object", "void", "never", "none"}

Constants == {"ConstNumber", "ConstBool", "ConstNull", "ConstVector", "ConstVoid", "ConstNever"}
Opcodes == Constants \union
    {"InitArg", "LoadVar", "VarInit", "StoreVar", "LoadGlobal", "StoreGlobal", "LoadString",
     "Deref", "StoreInPtr", "GepArray", "GepStruct", "Sizeof", "InlineAsm", "Cast", "Binary",
     "Call", "Return", "Goto", "GotoIf", "Phi"}

BlockNames == {"entry", "then", "else", "ifcont", "loop_infinite", "while", "loop_while",
               "afterloop_while", "loop_for_cond", "loop_for", "afterloop"} \union Labels

InstrRef == [pos : Int, def : Nat]
NoRef == [pos |-> -1, def |-> 0]          \* InstructionRef(): empty_ref
IsEmpty(ref) == ref.pos = -1

\* In a file of m instructions and n blocks, what a file refers to is in the
\* file: the targets of its branches, the instructions and predecessors of its
\* blocks, the blocks of its functions.
Instruction(n) == [op : Opcodes, ty : Types, uses : Seq(InstrRef), bbs : Seq(1..n)]
BasicBlock(m, n) == [name : BlockNames \X Nat, ins : Seq(1..m), preds : SUBSET (1..n)]
FileCIR(m, n) ==
    [instr : Seq(Instruction(n)), blk : Seq(BasicBlock(m, n)), fun : Seq(Seq(1..n)),
     cur : 0..n, named : Nat]
WellFormed(c) == c \in FileCIR(Len(c.instr), Len(c.blk))

Branches(i) == i.op \in {"Goto", "GotoIf"}
Targets(i) == IF Branches(i) THEN ToSet(i.bbs) ELSE {}
Successors(c, b) == UNION {Targets(c.instr[k]) : k \in ToSet(c.blk[b].ins)}

\* Each branch is recorded in the predecessors of the blocks it goes to.
Recorded(c) ==
    \A b \in DOMAIN c.blk : \A t \in Successors(c, b) :
        t \in DOMAIN c.blk /\ b \in c.blk[t].preds

EmptyFile == [instr |-> << >>, blk |-> << >>, fun |-> << >>, cur |-> 0, named |-> 1]

CurrentFunction(c) == Len(c.fun)

\* A block object: name <<base, index>> (index 0: the base alone),
\* instructions, predecessors.
NewBlock(c, base) ==
    [c EXCEPT !.blk = Append(@, [name |-> <<base, 0>>, ins |-> << >>, preds |-> {}])]
LastBlock(c) == Len(c.blk)

-----------------------------------------------------------------------------
(* Construction.                                                           *)

AddFunction(c) == [c EXCEPT !.fun = Append(@, << >>), !.cur = 0]

\* A name already used in the function gets the file-wide index, once.
AddBasicBlock(c, b) ==
    LET F == CurrentFunction(c)
        taken == \E k \in DOMAIN c.fun[F] : c.blk[c.fun[F][k]].name = c.blk[b].name
    IN  [c EXCEPT !.blk[b].name = IF taken THEN <<@[1], c.named>> ELSE @,
                  !.named = IF taken THEN @ + 1 ELSE @,
                  !.fun[F] = Append(@, b)]

SetInsertPoint(c, b) == [c EXCEPT !.cur = b]

AddInstruction(c, i) ==
    [c EXCEPT !.instr = Append(@, i),
              !.blk[c.cur].ins = Append(@, Len(c.instr) + 1)]

\* The instructions of function F: their number, and in layout order.
InstructionNb(c, F) == Cardinality(UNION {ToSet(c.blk[b].ins) : b \in ToSet(c.fun[F])})
Code(c, F) == FlattenSeq([k \in DOMAIN c.fun[F] |-> c.blk[c.fun[F][k]].ins])

\* Mistake: the position in the block instead of the function.
LastRef_inBlock(c) ==
    [pos |-> Len(c.blk[c.cur].ins) - 1, def |-> Len(c.instr)]

\* What add_instruction returns: the position the new instruction has if
\* every block laid out after the insert point is empty.
LastRef(c) ==
    [pos |-> InstructionNb(c, CurrentFunction(c)) - 1, def |-> Len(c.instr)]

\* CurrentFunction->get_instruction(pos): 0 if there is none.
InstructionAt(c, F, pos) ==
    LET code == Code(c, F)
    IN  IF pos + 1 \in DOMAIN code THEN code[pos + 1] ELSE 0

AddPred(c, b, p) == [c EXCEPT !.blk[b].preds = @ \union {p}]

-----------------------------------------------------------------------------
(* Instructions: opcode, type, operands, blocks.                           *)

Instr(op, ty, uses) == [op |-> op, ty |-> ty, uses |-> uses, bbs |-> << >>]
GotoInstr(b) == [op |-> "Goto", ty |-> "never", uses |-> << >>, bbs |-> <<b>>]
GotoIfInstr(cond, b1, b2) ==
    [op |-> "GotoIf", ty |-> "never", uses |-> <<cond>>, bbs |-> <<b1, b2>>]
PhiInstr(ty, b1, v1, b2, v2) ==
    [op |-> "Phi", ty |-> ty, uses |-> <<v1, v2>>, bbs |-> <<b1, b2>>]

CreateGoto(c, b) == AddInstruction(AddPred(c, b, c.cur), GotoInstr(b))

\* Mistake: only the true target learns its predecessor.
CreateGotoIf_oneEdge(c, cond, b1, b2) ==
    AddInstruction(AddPred(c, b1, c.cur), GotoIfInstr(cond, b1, b2))

CreateGotoIf(c, cond, b1, b2) ==
    AddInstruction(AddPred(AddPred(c, b1, c.cur), b2, c.cur), GotoIfInstr(cond, b1, b2))

\* Adding an instruction gives a file and a reference to what was added.
Emit(c, i) == LET d == AddInstruction(c, i) IN [c |-> d, r |-> LastRef(d)]

Convert(c, ref, from, to) ==
    IF from = to THEN [c |-> c, r |-> ref]
    ELSE Emit(c, IF to = "void" THEN Instr("ConstVoid", "void", << >>)
                                ELSE Instr("Cast", to, <<ref>>))

-----------------------------------------------------------------------------
(* The passes over a finished file.                                        *)

\* Mistake: the never itself is erased too.
UpToNever_offByOne(c, ins) ==
    LET nevers == {k \in DOMAIN ins : c.instr[ins[k]].ty = "never"}
    IN  IF nevers = {} THEN ins ELSE SubSeq(ins, 1, Min(nevers) - 1)

\* Erase what follows the first instruction of type never.
UpToNever(c, ins) ==
    LET nevers == {k \in DOMAIN ins : c.instr[ins[k]].ty = "never"}
    IN  IF nevers = {} THEN ins ELSE SubSeq(ins, 1, Min(nevers))

BlocksOf(c) == UNION {ToSet(c.fun[F]) : F \in DOMAIN c.fun}

FixFile(c) ==
    [c EXCEPT !.blk = [b \in DOMAIN c.blk |->
        IF b \in BlocksOf(c) THEN [c.blk[b] EXCEPT !.ins = UpToNever(c, @)]
                             ELSE c.blk[b]]]

EndsInNever(c, b) ==
    c.blk[b].ins # << >> /\ c.instr[Last(c.blk[b].ins)].ty = "never"
=============================================================================
