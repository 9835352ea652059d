--------------------------- MODULE CIRProperties ---------------------------
(***************************************************************************)
(* What makes the CIR of a file correct, and what makes its generation     *)
(* safe: the properties of CIRBuilder that the runs check and the theorems *)
(* of CIRBuilder_proofs and the modules that extend it state.              *)
(***************************************************************************)
EXTENDS CIRBuilder

Points == {"start", "operand", "args", "body", "endScope", "cond", "then", "else", "init", "step"}
Blocks == 1..Len(cir.blk)

\* An activation, in a file of n blocks (0 where no block is held).
FrameType(n) ==
    [node : Nodes, at : Points, i : Nat, keep : InstrRef, val : InstrRef, refs : Seq(InstrRef),
     defers : Seq(Nodes), head : 0..n, body : 0..n, alt : 0..n, after : 0..n,
     brk : Seq(1..n), dep : Nat]

\* The types of the variables; the file is well formed, and the blocks that the
\* activations and the stacks hold are blocks of it.
TypeOK ==
    /\ prog \in Programs
    /\ fn \in 0..Len(prog)
    /\ WellFormed(cir)
    /\ varRefs \in [VarNames -> InstrRef]
    /\ frames \in Seq(FrameType(Len(cir.blk)))
    /\ ret \in InstrRef
    /\ scopes \in Seq(Seq(Nodes))
    /\ breaks \in Seq(Blocks)
    /\ freed \subseteq Blocks
    /\ errors \in BOOLEAN
    /\ status \in {"gen", "generated", "fixed", "checked", "aborted"}

-----------------------------------------------------------------------------
(* The stacks that outlive a method.                                       *)

\* The loops of an activation that a break leaves: an infinite loop is not
\* one of them.
InBody(f) == f.at \in {"body", "endScope"}
BreaksBelow(f) ==
    IF f.node.kind \in {"for", "while"} /\ InBody(f) THEN Append(f.brk, f.after) ELSE f.brk
DepthBelow(f) == IF f.node.kind \in Scoped /\ InBody(f) THEN f.dep + 1 ELSE f.dep

\* As long as no early return has destroyed a block, blocksForBreak holds the
\* blocks after the enclosing for and while loops of the statement being
\* generated, in order, and nothing else: no loop of an earlier statement or
\* function, so that a break outside a loop is an error.
BreaksMatchLoops ==
    status = "gen" /\ freed = {} =>
        IF frames = << >> THEN breaks = << >>
        ELSE /\ frames[1].brk = << >>
             /\ \A k \in 1..(Len(frames) - 1) : frames[k + 1].brk = BreaksBelow(frames[k])
             /\ breaks = BreaksBelow(Top)

\* Under the same condition, and in files without a statement that generates
\* nothing directly in an infinite loop (LoopExpr_abandon leaves its scope open
\* too), Scopes holds one entry for every open scope of the statement being
\* generated: a deferred expression goes to the scope it is written in.
ScopesMatchBlocks ==
    status = "gen" /\ freed = {} =>
        IF frames = << >> THEN scopes = << >>
        ELSE /\ frames[1].dep = 0
             /\ \A k \in 1..(Len(frames) - 1) : frames[k + 1].dep = DepthBelow(frames[k])
             /\ Len(scopes) = DepthBelow(Top)

\* Each branch is recorded in the predecessors of the blocks it goes to.
BranchesRecorded == Recorded(cir)

\* The blocks an activation holds where it goes on to use them.
HeldBlocks(f) ==
    /\ f.node.kind = "if" /\ f.at \in {"then", "else"} =>
          f.body # 0 /\ f.alt # 0 /\ f.after # 0
    /\ f.node.kind = "while" /\ f.at \in {"cond", "body", "endScope"} =>
          f.head # 0 /\ f.body # 0
    /\ f.node.kind = "for" /\ f.at \in {"cond", "body", "endScope", "step"} => f.head # 0
    /\ f.node.kind = "loop" /\ f.at \in {"body", "endScope"} => f.head # 0
    /\ f.node.kind \in {"for", "while"} /\ f.at \in {"body", "endScope", "step"} => f.after # 0

\* Scopes.back() is never called on an empty Scopes.
ScopesDeepEnough ==
    status = "gen" /\ frames # << >> =>
        /\ \A k \in 1..(Len(frames) - 1) : frames[k + 1].dep >= DepthBelow(frames[k])
        /\ Len(scopes) >= DepthBelow(Top)

\* TypeOK and BranchesRecorded, with what makes them inductive: inside a method
\* there is a function and an insert point, activations hold the blocks they
\* will use, and no scope is closed that was not opened.
IInv ==
    /\ TypeOK
    /\ BranchesRecorded
    /\ \A k \in DOMAIN frames : HeldBlocks(frames[k])
    /\ frames # << >> => fn # 0 /\ cir.cur # 0 /\ cir.fun # << >>
    /\ ScopesDeepEnough

\* A scope is closed only when every expression deferred in it has been
\* generated.
NoDeferLost == [][Len(scopes') < Len(scopes) => Last(scopes) = << >>]_vars

-----------------------------------------------------------------------------
(* The control flow of the generated functions.                            *)

Emitted(b) == {cir.instr[k] : k \in ToSet(cir.blk[b].ins)}
Finished(F) == F \in DOMAIN cir.fun /\ (F < Len(cir.fun) \/ frames = << >>)
Function(F) == ToSet(cir.fun[F])

\* A branch of a finished function goes to a block of that function: none
\* leads to a block that was destroyed or never added.
BranchesStayInside ==
    \A F \in DOMAIN cir.fun : Finished(F) =>
        \A b \in Function(F) : Successors(cir, b) \subseteq Function(F)

\* A block belongs to one function, once.
BlocksAddedOnce ==
    /\ \A F \in DOMAIN cir.fun : \A j, k \in DOMAIN cir.fun[F] :
          cir.fun[F][j] = cir.fun[F][k] => j = k
    /\ \A F, G \in DOMAIN cir.fun : F # G => Function(F) \intersect Function(G) = {}

\* The assertion of checkFileCIR, on every block.
EveryBlockEndsInNever ==
    status = "fixed" => \A b \in BlocksOf(cir) : EndsInNever(cir, b)

\* Generating n gives a reference, unless it ends in an error.
Answers(n) == n.kind \notin {"match", "label", "addr", "scope", "if", "loop", "for"}
              /\ ~(n.kind = "binary" /\ n.x = "^")

\* Each node of S puts a never in the block its generation ends in.
Leaving(S) ==
    \A n \in S :
        \/ n.kind \in {"return", "break", "while"}
        \/ n.kind = "call" /\ ("Unreachable" \in n.contains \/ n.ty = "never")
        \/ n.kind = "scope" /\ n.kids # << >> /\ Last(n.kids) \in S

\* The generation of a node of Q begins no block.
Staying(Q) ==
    \A n \in Q :
        /\ n.kind \notin {"scope", "if", "loop", "for", "while", "label", "function"}
        /\ \A k \in DOMAIN n.kids : n.kids[k] \in Q

\* The trees mean what they say: where contains_expr tells the generation that
\* a branch of an if or a function is left at its end, it is; the condition of
\* a while has a value, and what is deferred begins no block.
Honest(S, Q) ==
    /\ Leaving(S) /\ Staying(Q)
    /\ \A n \in Nodes :
          /\ n.kind = "if" => \A k \in 2..Len(n.kids) : Diverts(n.kids[k]) => n.kids[k] \in S
          /\ n.kind = "function" /\ "Unreachable" \in n.contains =>
                n.kids # << >> /\ Last(n.kids) \in S
          /\ n.kind = "while" => Answers(n.kids[1])
          /\ n.kind = "defer" => n.kids[1] \in Q

Reachable(F) ==
    LET Grow(S, k) == S \union UNION {Successors(cir, b) : b \in S}
        size == Len(cir.fun[F])
    IN  FoldLeft(Grow, {cir.fun[F][1]}, [k \in 1..size |-> k])

SaysUnreachable(F) ==
    prog[F].node.contains \intersect {"Unreachable", "NeverFunctionCall"} # {}

\* A block that the entry of its function leads to ends with a branch or a
\* return: the never that stands for "no way on" ends none of them unless the
\* source says unreachable or calls a function that never returns.
ReachableBlocksLeave ==
    status \in {"fixed", "checked"} =>
        \A F \in DOMAIN cir.fun : ~SaysUnreachable(F) =>
            \A b \in Reachable(F) :
                /\ cir.blk[b].ins # << >>
                /\ cir.instr[Last(cir.blk[b].ins)].op \in {"Goto", "GotoIf", "Return"}

-----------------------------------------------------------------------------
(* Operands.                                                               *)

\* Wherever it is looked up, the position in an operand finds the instruction
\* it was made for: at the backend, where that is laid out before the one that
\* uses it (only a variable may be declared without a value), and while blocks
\* are still being added, when a cast asks for the type it converts from and a
\* vector for the class of a member.
OperandsResolve ==
    /\ status \in {"fixed", "checked"} =>
          \A F \in DOMAIN cir.fun :
              LET code == Code(cir, F)
              IN  \A k \in DOMAIN code : \A u \in ToSet(cir.instr[code[k]].uses) :
                      \/ u.pos + 1 \in 1..(k - 1) /\ code[u.pos + 1] = u.def
                      \/ cir.instr[code[k]].op = "VarInit" /\ IsEmpty(u)
    /\ At({"cast", "vector"}, "operand") /\ ~IsEmpty(ret) =>
          InstructionAt(cir, CurrentFunction(cir), ret.pos) = ret.def

\* The blocks a phi takes its values from are the predecessors of its block.
PhiBlocksArePredecessors ==
    status \in {"fixed", "checked"} =>
        \A F \in DOMAIN cir.fun : \A b \in Function(F) : \A i \in Emitted(b) :
            i.op = "Phi" => ToSet(i.bbs) = {p \in Function(F) : b \in Successors(cir, p)}

=============================================================================
